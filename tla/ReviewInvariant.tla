---------------------------- MODULE ReviewInvariant ----------------------------
(***************************************************************************)
(* The inductive invariant of ReviewService: what each call has read,      *)
(* chosen, locked and written at each of its steps.  It is checked by TLC  *)
(* on small instances and proved in ReviewServiceProofs.  The layers above *)
(* it are proved in LifecycleProofs.                                       *)
(***************************************************************************)
EXTENDS HttpApi

(* The steps of each call, and those every call may end in. *)
Ends == {"begin", "commit", "rollback", "orphan", "orphanCommit", "done"}

Path ==
  [CreatePR |-> {"author", "team", "candidates", "insert", "count", "assign"},
   ReassignReviewer |-> {"lock", "reviewers", "team", "candidates", "remove",
                         "count", "assign", "reload", "reloaded"},
   MergePR |-> {"lock", "reviewers", "update"},
   GetPR |-> {"reload", "reloaded"},
   UpdateUserActive |-> {"user", "setActive"}]

OnPath(r) ==
  /\ pc[r] \in Path[op[r].kind] \union Ends
  /\ pc[r] = "commit" => ~Is(r, "GetPR")

(* Nothing written to the tables of pull requests. *)
Clean(r) == tx[r].row = NoPR /\ tx[r].added = {} /\ tx[r].removed = {}

(* The instants of reviewers' rows are told from "no row". *)
Begun(r) == pc[r] \notin {"begin", "done"} => tx[r].began > 0

(* Before its first write, and after its transaction, a call has no writes *)
(* of its own; the loop over the selected reviewers has not started.       *)
Unwritten(r) ==
  /\ pc[r] \notin {"count", "assign", "reload", "reloaded", "commit",
                   "rollback", "orphan", "orphanCommit"} => Clean(r)
  /\ Is(r, "GetPR") \/ Is(r, "UpdateUserActive") => Clean(r)
  /\ pc[r] \notin {"count", "assign", "reload", "reloaded", "commit",
                   "rollback", "orphan", "orphanCommit", "done"} => mem[r].next = 1

Fresh(u) == [author |-> u, status |-> "OPEN", merged_at |-> None]

(* CreatePR: the chosen reviewers, and after the INSERT those of them that *)
(* are already written.                                                    *)
Creating(r) ==
  Is(r, "CreatePR") /\ pc[r] \in {"insert", "count", "assign", "commit"} =>
    /\ mem[r].selected \in Seq(Users \ {op[r].user})
    /\ Len(mem[r].selected) <= 2
    /\ mem[r].reviewers = mem[r].selected
    /\ pc[r] # "insert" =>
         /\ prLock[op[r].pr] = r
         /\ prs[op[r].pr] = NoPR
         /\ tx[r].row = Fresh(op[r].user) /\ mem[r].row = tx[r].row
         /\ tx[r].removed = {}
    /\ pc[r] \in {"count", "assign"} =>
         /\ mem[r].next \in 1 .. Len(mem[r].selected)
         /\ tx[r].added = {mem[r].selected[i] : i \in 1 .. mem[r].next - 1}
    /\ pc[r] = "commit" => tx[r].added = Range(mem[r].selected)

(* ReassignReviewer: it holds the row, what it read is still so, and its   *)
(* choice is somebody new.                                                 *)
Replacing(r) ==
  LET p == op[r].pr
      current == Reviewers(pr_reviewers[p])
  IN  Is(r, "ReassignReviewer") /\ pc[r] \in Path.ReassignReviewer \union {"commit"}
          /\ pc[r] # "lock" =>
        /\ prLock[p] = r
        /\ prs[p].status # "NONE" /\ mem[r].row = prs[p] /\ tx[r].row = NoPR
        /\ pc[r] # "reviewers" => prs[p].status = "OPEN" /\ op[r].user \in current
        /\ pc[r] \notin {"reviewers", "commit"} => Range(mem[r].reviewers) = current
        /\ pc[r] = "commit" => Range(mem[r].reviewers) = Reviewers(Assigned(r))
        /\ pc[r] \notin {"reviewers", "team", "candidates"} =>
             /\ mem[r].next = 1 /\ Len(mem[r].selected) = 1
             /\ mem[r].selected[1] \in Users \ (current \union {prs[p].author})
        /\ pc[r] \in {"count", "assign"} =>
             tx[r].added = {} /\ tx[r].removed = {op[r].user}
        /\ pc[r] \in {"reload", "reloaded", "commit"} =>
             tx[r].added = {mem[r].selected[1]} /\ tx[r].removed = {op[r].user}

Merged(row, r) == [row EXCEPT !.status = "MERGED", !.merged_at = r]

(* MergePR: the same, and it writes only over an open pull request. *)
Merging(r) ==
  LET p == op[r].pr
  IN  Is(r, "MergePR") /\ pc[r] \in {"reviewers", "update", "commit"} =>
        /\ prLock[p] = r
        /\ prs[p].status # "NONE" /\ mem[r].row = Row(r)
        /\ tx[r].added = {} /\ tx[r].removed = {}
        /\ pc[r] # "reviewers" => Range(mem[r].reviewers) = Reviewers(pr_reviewers[p])
        /\ pc[r] = "update" => prs[p].status = "OPEN"
        /\ tx[r].row # NoPR =>
             prs[p].status = "OPEN" /\ tx[r].row = Merged(prs[p], r)

(* What a transaction that may be committed contains: nothing, or one of   *)
(* the three changes of a pull request whose row it holds.                 *)
Creation(r) ==
  /\ prs[op[r].pr] = NoPR
  /\ tx[r].row = Fresh(op[r].user) /\ tx[r].removed = {}
  /\ tx[r].added \subseteq Users \ {op[r].user} /\ Cardinality(tx[r].added) <= 2

Replacement(r) ==
  LET p == op[r].pr
      current == Reviewers(pr_reviewers[p])
  IN  /\ prs[p].status = "OPEN" /\ tx[r].row = NoPR
      /\ op[r].user \in current /\ tx[r].removed = {op[r].user}
      /\ \E new \in Users \ (current \union {prs[p].author}) : tx[r].added = {new}

Merger(r) ==
  LET p == op[r].pr
  IN  /\ prs[p].status = "OPEN" /\ tx[r].row = Merged(prs[p], r)
      /\ tx[r].added = {} /\ tx[r].removed = {}

Shape(r) ==
  \/ Clean(r)
  \/ prLock[op[r].pr] = r /\ (Creation(r) \/ Replacement(r) \/ Merger(r))

(* A COMMIT in doubt. *)
Doubtful(r) == pc[r] = "orphanCommit" => Shape(r)

CallOK(r) ==
  /\ OnPath(r) /\ Begun(r) /\ Unwritten(r)
  /\ Creating(r) /\ Replacing(r) /\ Merging(r) /\ Doubtful(r)

(* A pull request that does not exist has no reviewers. *)
TablesOK ==
  \A p \in PRs : prs[p].status = "NONE" =>
    prs[p] = NoPR /\ Reviewers(pr_reviewers[p]) = {}

(* The inductive invariant. *)
IInv == TypeOK /\ TablesOK /\ \A r \in Requests : CallOK(r)

-----------------------------------------------------------------------------
(* The second layer: what calls have answered.                             *)

(* Only GetPR ends in its Rollback, or breaks off in it, without an error. *)
Told(r) ==
  pc[r] \in {"rollback", "orphan", "orphanCommit"} /\ ~Is(r, "GetPR") => err[r] # "nil"

(* UpdateUserActive answers no pull request. *)
NoRow(r) == Is(r, "UpdateUserActive") => mem[r].row = NoPR

(* An answer, or one that GetPR is putting together, that says MERGED is   *)
(* what the tables say.                                                    *)
FinalAnswer(r) ==
  LET reading == Is(r, "GetPR") /\ pc[r] \in {"reloaded", "rollback"}
  IN  (Answered(r) \/ reading) /\ err[r] = "nil" /\ mem[r].row.status = "MERGED" =>
        /\ mem[r].row = prs[op[r].pr]
        /\ pc[r] # "reloaded" =>
             Range(mem[r].reviewers) = Reviewers(pr_reviewers[op[r].pr])

HasCreated(r) == Is(r, "CreatePR") /\ Answered(r) /\ err[r] = "nil"

(* A pull request that was created is there, by the one who created it.    *)
Created(r) ==
  HasCreated(r) =>
    /\ op[r].pr \notin Existing
    /\ prs[op[r].pr].status # "NONE" /\ prs[op[r].pr].author = op[r].user
    /\ \A q \in Requests \ {r} : ~(HasCreated(q) /\ op[q].pr = op[r].pr)

(* Pull requests do not disappear. *)
Born == \A p \in Existing \intersect PRs : prs[p].status # "NONE"

AnswersInv ==
  /\ IInv /\ Born
  /\ \A r \in Requests : Told(r) /\ NoRow(r) /\ FinalAnswer(r) /\ Created(r)

-----------------------------------------------------------------------------
(* The third layer: which errors calls return.                             *)

(* The list of reviewers is never longer than AddReviewer allows. *)
Few == \A p \in PRs : Cardinality(Reviewers(pr_reviewers[p])) <= 2

(* CreatePR inserts nobody twice. *)
Distinct(r) ==
  Is(r, "CreatePR") /\ pc[r] \in {"insert", "count", "assign"} =>
    IsInjective(mem[r].selected)

(* No step follows an error but the end of the transaction. *)
Quiet(r) == pc[r] \notin {"rollback", "orphan", "orphanCommit", "done"} => err[r] = "nil"

ErrorsInv ==
  /\ IInv /\ Few /\ NoSpuriousError
  /\ \A r \in Requests : Distinct(r) /\ Quiet(r)

-----------------------------------------------------------------------------
(* The fourth layer: on whom calls decide.                                 *)

Author(r) == IF Is(r, "CreatePR") THEN op[r].user ELSE Row(r).author

(* The team is one of the author's, and whoever was selected from it, or   *)
(* inserted, may review for the author of the row that is inserted or      *)
(* locked.                                                                 *)
Chosen(r) ==
  /\ pc[r] = "candidates" => <<mem[r].team, Author(r)>> \in team_members
  /\ pc[r] \in {"insert", "remove", "count", "assign"} =>
       \A u \in Range(mem[r].selected) : Eligible(u, Author(r))
  /\ \A u \in tx[r].added : Row(r).status # "NONE" /\ Eligible(u, Row(r).author)

(* Only UpdateUserActive writes to users, over a row that it has found. *)
UserWrites(r) ==
  tx[r].user # "absent" =>
    /\ Is(r, "UpdateUserActive") /\ pc[r] # "begin" /\ users[op[r].user] # "absent"
    /\ tx[r].user = IF op[r].active THEN "active" ELSE "inactive"

EligibleInv ==
  /\ IInv /\ ReviewersAreEligible
  /\ \A r \in Requests : Chosen(r) /\ UserWrites(r)

-----------------------------------------------------------------------------
(* The fifth layer: the errors the handlers are given, by endpoint.        *)

Given ==
  [CreatePR |-> {"ErrUserNotFound", "ErrUserNoTeam", "ErrPRExists"},
   MergePR |-> {"ErrPRNotFound"},
   ReassignReviewer |-> {"ErrPRNotFound", "ErrUserNotFound", "ErrAlreadyMerged",
                         "ErrReviewerNotAssigned", "ErrNoReplacementCandidates"}]

GivenOK(r) ==
  op[r].kind \in Routed =>
    /\ err[r] \in {"nil", "ErrInternal"} \union Given[op[r].kind]
    /\ err[r] = "ErrUserNoTeam" => NewInTeams(op[r].user)

GivenInv == EligibleInv /\ ErrorsInv /\ \A r \in Requests : GivenOK(r)

-----------------------------------------------------------------------------
(* The sixth layer: who has put the reviewers there, and when.             *)

(* No two transactions have begun at the same instant, and none at that of *)
(* the creations before the start.                                         *)
Dated(r) ==
  /\ tx[r].began <= clock /\ tx[r].began # 1
  /\ \A q \in Requests \ {r} : tx[q].began = tx[r].began => tx[r].began = 0

(* Only these calls insert reviewers, and a COMMIT in doubt is answered    *)
(* with a failure.                                                         *)
Inserting(r) ==
  /\ tx[r].added # {} => Is(r, "CreatePR") \/ Is(r, "ReassignReviewer")
  /\ pc[r] = "orphanCommit" => err[r] = "ErrInternal"

(* replaced_by in the answer that r has put together. *)
Named(r) ==
  Is(r, "ReassignReviewer") /\ (pc[r] = "commit" \/ Answered(r)) /\ err[r] = "nil" =>
    \/ ReplacedBy(r) = mem[r].selected[1]
    \/ \E q \in Requests : HasAssigned(q, op[r].pr) /\ tx[q].began > tx[r].began

(* The date in a row of pr_reviewers is that of the request that wrote it. *)
Signed ==
  \A p \in PRs : \A u \in Users : pr_reviewers[p][u] > 1 =>
    \E q \in Requests : HasAssigned(q, p) /\ tx[q].began = pr_reviewers[p][u]

DatesInv ==
  /\ AnswersInv /\ ErrorsInv /\ Signed /\ clock > 0
  /\ \A r \in Requests : Dated(r) /\ Inserting(r) /\ Named(r)

-----------------------------------------------------------------------------
(* The seventh layer: who holds what.                                      *)

(* A request locks the row, or the key, of its own pull request, or the    *)
(* row of a user with its last statement; not before it begins and not     *)
(* after its end.  It writes to pr_reviewers under the lock of the PR.     *)
HeldOK(r) ==
  /\ \A p \in PRs : prLock[p] = r =>
       p = op[r].pr /\ ~Is(r, "UpdateUserActive") /\ pc[r] \notin {"begin", "done"}
  /\ \A u \in Users : userLock[u] = r =>
       Is(r, "UpdateUserActive") /\ pc[r] \in {"commit", "orphanCommit"}
  /\ tx[r].added \union tx[r].removed # {} => prLock[op[r].pr] = r

LocksInv == IInv /\ \A r \in Requests : HeldOK(r)
==============================================================================
