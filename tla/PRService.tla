------------------------------- MODULE PRService -------------------------------
(***************************************************************************)
(* internal/application/pr/service.go: CreatePR, ReassignReviewer, MergePR *)
(* and GetPR, cut into steps at their SQL statements.  The Go code between *)
(* two statements belongs to the step of the first.                        *)
(*                                                                         *)
(*   CreatePR:  author, team, candidates, insert, (count, assign)*, commit *)
(*   Reassign:  lock, reviewers, team, candidates, remove, count, assign,  *)
(*              reload, reloaded, commit                                   *)
(*   MergePR:   lock, reviewers, [update,] commit                          *)
(*   GetPR:     reload, reloaded, rollback                                 *)
(***************************************************************************)
EXTENDS Repositories, Selection

Is(r, kind) == op[r].kind = kind

(* CreatePR: the author must exist; whether he is active is not asked. *)
FindAuthor(r) ==
  At(r, "author") /\ GetUserByID(r, op[r].user, "team")

(* Both services take a team of the AUTHOR. *)
FindTeam(r) ==
  LET author == IF Is(r, "CreatePR") THEN op[r].user ELSE mem[r].row.author
  IN  At(r, "team") /\ GetTeamIDByUserID(r, author, "candidates")

(* Mutation: the author is not excluded. *)
ChooseAnyReviewers(r) ==
  /\ At(r, "candidates") /\ Is(r, "CreatePR")
  /\ \E s \in Select(ListActiveMembersByTeamID(mem[r].team), 2) :
       mem' = [mem EXCEPT ![r].selected = s, ![r].reviewers = s]
  /\ Goto(r, "insert") /\ ReadOnly

(* CreatePR: up to two active members of the team other than the author. *)
ChooseReviewers(r) ==
  LET candidates == ListActiveMembersByTeamID(mem[r].team)
  IN  /\ At(r, "candidates") /\ Is(r, "CreatePR")
      /\ \E s \in Select(FilterStrings(candidates, {op[r].user}), 2) :
           mem' = [mem EXCEPT ![r].selected = s, ![r].reviewers = s]
      /\ Goto(r, "insert") /\ ReadOnly

(* PRRepository.CreatePR: the row, then the selected reviewers in a loop.  *)
InsertRow(r) ==
  /\ At(r, "insert")
  /\ InsertPR(r, op[r].user, IF mem[r].selected = <<>> THEN "commit" ELSE "count")

CountAssigned(r) ==
  At(r, "count") /\ CountReviewersByPRID(r, "assign")

(* AddReviewer, called in that loop or once by ReassignReviewer. *)
AssignNext(r) ==
  LET more == mem[r].next < Len(mem[r].selected)
  IN  /\ At(r, "assign")
      /\ AddReviewer(r, mem[r].selected[mem[r].next],
                     IF more THEN "count"
                     ELSE IF Is(r, "CreatePR") THEN "commit" ELSE "reload")
      /\ mem' = IF more THEN [mem EXCEPT ![r].next = @ + 1] ELSE mem

(* Mutation: GetPRByID in place of LockPRByID. *)
ReadRowUnlocked(r) ==
  At(r, "lock") /\ SelectPR(r, "reviewers")

(* Mutation: FOR UPDATE NOWAIT, and a new transaction when the row is held. *)
LockOrRetry(r) ==
  /\ At(r, "lock")
  /\ IF prLock[op[r].pr] \in {None, r} THEN SelectPRForUpdate(r, "reviewers")
     ELSE Goto(r, "begin") /\ ReadOnly /\ UNCHANGED mem

(* LockPRByID, the first call of ReassignReviewer and of MergePR. *)
LockRow(r) ==
  At(r, "lock") /\ SelectPRForUpdate(r, "reviewers")

(* Mutation: the early return for a merged PR forgets its Commit.          *)
MergedReturnsInTx(r) ==
  /\ At(r, "reviewers") /\ Is(r, "MergePR")
  /\ \E s \in LoadReviewers(r) : mem' = [mem EXCEPT ![r].reviewers = s]
  /\ Goto(r, IF mem[r].row.status = "MERGED" THEN "done" ELSE "update")
  /\ ReadOnly

(* Its second statement, in MergePR: a merged PR is answered as it is. *)
MergeLoadsReviewers(r) ==
  /\ At(r, "reviewers") /\ Is(r, "MergePR")
  /\ \E s \in LoadReviewers(r) : mem' = [mem EXCEPT ![r].reviewers = s]
  /\ Goto(r, IF mem[r].row.status = "MERGED" THEN "commit" ELSE "update")
  /\ ReadOnly

(* Mutation: no test for MERGED. *)
ReassignMerged(r) ==
  /\ At(r, "reviewers") /\ Is(r, "ReassignReviewer")
  /\ \E s \in LoadReviewers(r) :
       /\ mem' = [mem EXCEPT ![r].reviewers = s]
       /\ Verdict(r, IF ~ContainsString(s, op[r].user) THEN "ErrReviewerNotAssigned"
                     ELSE "nil", "team")
  /\ ReadOnly

(* In ReassignReviewer, with the two tests that follow it. *)
ReassignLoadsReviewers(r) ==
  /\ At(r, "reviewers") /\ Is(r, "ReassignReviewer")
  /\ \E s \in LoadReviewers(r) :
       /\ mem' = [mem EXCEPT ![r].reviewers = s]
       /\ Verdict(r, IF mem[r].row.status = "MERGED" THEN "ErrAlreadyMerged"
                     ELSE IF ~ContainsString(s, op[r].user) THEN "ErrReviewerNotAssigned"
                     ELSE "nil", "team")
  /\ ReadOnly

(* Mutation: the current reviewers are not excluded. *)
ChooseAmongReviewers(r) ==
  LET members == ListActiveMembersByTeamID(mem[r].team)
      pool == FilterStrings(members, {mem[r].row.author, op[r].user})
  IN  /\ At(r, "candidates") /\ Is(r, "ReassignReviewer")
      /\ \E s \in Select(pool, 1) : mem' = [mem EXCEPT ![r].selected = s]
      /\ Verdict(r, IF pool = {} THEN "ErrNoReplacementCandidates" ELSE "nil", "remove")
      /\ ReadOnly

(* ReassignReviewer: one active member of the team who is neither the      *)
(* author nor a reviewer.                                                  *)
ChooseReplacement(r) ==
  LET members == ListActiveMembersByTeamID(mem[r].team)
      pool == FilterStrings(members, {mem[r].row.author} \union Range(mem[r].reviewers))
  IN  /\ At(r, "candidates") /\ Is(r, "ReassignReviewer")
      /\ \E s \in Select(pool, 1) : mem' = [mem EXCEPT ![r].selected = s]
      /\ Verdict(r, IF pool = {} THEN "ErrNoReplacementCandidates" ELSE "nil", "remove")
      /\ ReadOnly

RemoveOld(r) ==
  At(r, "remove") /\ RemoveReviewer(r, op[r].user, "count")

(* Mutation: the answer does not get the new merged_at. *)
SetMergedOnlyStatus(r) ==
  /\ At(r, "update")
  /\ UpdateStatus(r, "commit")
  /\ mem' = [mem EXCEPT ![r].row.status = "MERGED"]

(* MergePR: the timestamp is taken by the service and goes both to the row *)
(* and to the answer.                                                      *)
SetMerged(r) ==
  /\ At(r, "update")
  /\ UpdateStatus(r, "commit")
  /\ mem' = [mem EXCEPT ![r].row = [@ EXCEPT !.status = "MERGED", !.merged_at = r]]

(* GetPRByID: the whole of GetPR, and the answer of ReassignReviewer. *)
Reload(r) ==
  At(r, "reload") /\ SelectPR(r, "reloaded")

ReloadReviewers(r) ==
  /\ At(r, "reloaded")
  /\ \E s \in LoadReviewers(r) : mem' = [mem EXCEPT ![r].reviewers = s]
  /\ Goto(r, IF Is(r, "GetPR") THEN "rollback" ELSE "commit")
  /\ ReadOnly

PRStep(r) ==
  \/ FindAuthor(r)          \/ FindTeam(r)
  \/ ChooseReviewers(r)     \/ InsertRow(r)
  \/ CountAssigned(r)       \/ AssignNext(r)
  \/ LockRow(r)             \/ MergeLoadsReviewers(r)
  \/ ReassignLoadsReviewers(r)
  \/ ChooseReplacement(r)   \/ RemoveOld(r)
  \/ SetMerged(r)
  \/ Reload(r)              \/ ReloadReviewers(r)
==============================================================================
