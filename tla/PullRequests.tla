----------------------------- MODULE PullRequests -----------------------------
(***************************************************************************)
(* What the service promises about pull requests: every one is created     *)
(* once with at most two reviewers, none of them its author; reviewers are *)
(* replaced one for one while it is open; it is merged once, by one merge, *)
(* and never changes after that.  No transactions, locks or failures here: *)
(* each operation is a single step on a single pull request.               *)
(***************************************************************************)
EXTENDS Naturals, FiniteSets

CONSTANTS PRs, Users, Merges, None

VARIABLES pull,      \* author, status and merged_at of each pull request
          reviewers  \* the set of reviewers of each pull request

vars == <<pull, reviewers>>

Unborn == [author |-> None, status |-> "NONE", merged_at |-> None]

(* What a new pull request may look like. *)
Fresh(a) == [author |-> a, status |-> "OPEN", merged_at |-> None]
Staff(a) == {R \in SUBSET (Users \ {a}) : Cardinality(R) <= 2}

Init ==
  /\ pull \in [PRs -> {Unborn} \union {Fresh(a) : a \in Users}]
  /\ reviewers \in [PRs -> SUBSET Users]
  /\ \A p \in PRs : IF pull[p] = Unborn THEN reviewers[p] = {}
                    ELSE reviewers[p] \in Staff(pull[p].author)

Create(p, a) ==
  /\ pull[p] = Unborn
  /\ pull' = [pull EXCEPT ![p] = Fresh(a)]
  /\ \E R \in Staff(a) : reviewers' = [reviewers EXCEPT ![p] = R]

Replace(p, old) ==
  /\ pull[p].status = "OPEN"
  /\ old \in reviewers[p]
  /\ \E new \in Users \ (reviewers[p] \union {pull[p].author}) :
       reviewers' = [reviewers EXCEPT ![p] = (@ \ {old}) \union {new}]
  /\ UNCHANGED pull

Merge(p, m) ==
  /\ pull[p].status = "OPEN"
  /\ pull' = [pull EXCEPT ![p].status = "MERGED", ![p].merged_at = m]
  /\ UNCHANGED reviewers

Next ==
  \E p \in PRs :
    \/ \E user \in Users : Create(p, user) \/ Replace(p, user)
    \/ \E m \in Merges : Merge(p, m)

Spec == Init /\ [][Next]_vars
==============================================================================
