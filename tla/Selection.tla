------------------------------ MODULE Selection ------------------------------
(***************************************************************************)
(* The pure part of choosing reviewers: the slice helpers of               *)
(* internal/utils/utils.go and the random selector of                      *)
(* internal/infrastructure/reviewerselector.  The slices of candidates the *)
(* service builds come from a query over the primary key of team_members,  *)
(* so they hold no duplicates and a set carries all they say; the order of *)
(* the selector's answer is kept, because it is the order in which the     *)
(* reviewers are inserted.                                                 *)
(***************************************************************************)
EXTENDS Naturals, Sequences, FiniteSets, Functions

(* utils.FilterStrings: the candidates that are not keys of exclude.       *)
FilterStrings(candidates, exclude) == candidates \ exclude

(* utils.ContainsString *)
ContainsString(list, id) == id \in Range(list)

(* RandomReviewerSelector.Select: shuffle the candidates, cut the slice at *)
(* count.  The generator is random, so any outcome of the shuffle is       *)
(* possible: the operator is the set of the slices Select may return.      *)
Select(candidates, count) ==
  LET n == IF count > Cardinality(candidates)
           THEN Cardinality(candidates) ELSE count
  IN  Injection(1 .. n, candidates)
==============================================================================
