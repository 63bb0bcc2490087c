-------------------------- MODULE ReviewServiceProofs --------------------------
(***************************************************************************)
(* Theorems about ReviewService for any users, teams, pull requests,       *)
(* requests, workload, directory and pool size.  IInv is inductive: a step *)
(* of a request keeps the types, establishes CallOK for that request, and  *)
(* by its locks cannot disturb CallOK of another one.                      *)
(***************************************************************************)
EXTENDS ReviewServiceTypes

(* What a step of r may change, seen from the other requests: nothing of   *)
(* theirs, and nothing under a lock of theirs.                             *)
Frame(r) ==
  /\ op' = op
  /\ \A q \in Requests \ {r} :
       /\ tx'[q] = tx[q] /\ pc'[q] = pc[q] /\ mem'[q] = mem[q]
       /\ \A p \in PRs : prLock[p] = q =>
            prLock'[p] = q /\ prs'[p] = prs[p] /\ pr_reviewers'[p] = pr_reviewers[p]

(* A framed step of r keeps what CallOK says of another request. *)
LEMMA FrameKeepsCall ==
  ASSUME TypeOK, NEW r \in Requests, Frame(r), NEW q \in Requests \ {r}, CallOK(q)
  PROVE  CallOK(q)'
<1> DEFINE p == op[q].pr
<1>1. p \in PRs
  BY DEF TypeOK, Calls
<1>2. op' = op /\ tx'[q] = tx[q] /\ pc'[q] = pc[q] /\ mem'[q] = mem[q]
  BY DEF Frame
<1>3. prLock[p] = q => prLock'[p] = q /\ prs'[p] = prs[p] /\ pr_reviewers'[p] = pr_reviewers[p]
  BY <1>1 DEF Frame
<1>4. OnPath(q)' /\ Begun(q)' /\ Unwritten(q)'
  BY <1>2 DEF CallOK, OnPath, Begun, Unwritten, Is, Clean
<1>5. Creating(q)'
  BY <1>2, <1>3 DEF CallOK, Creating, Is
<1>6. prLock[p] = q => Row(q)' = Row(q) /\ Assigned(q)' = Assigned(q)
  BY <1>2, <1>3 DEF Row, Assigned
<1>7. Replacing(q)'
  BY <1>2, <1>3, <1>6 DEF CallOK, Replacing, Is, Reviewers
<1>8. Merging(q)'
  BY <1>2, <1>3, <1>6 DEF CallOK, Merging, Is, Reviewers
<1>9. Doubtful(q)'
  BY <1>2, <1>3 DEF CallOK, Doubtful, Shape, Clean, Creation, Replacement, Merger, Reviewers
<1> QED
  BY <1>4, <1>5, <1>7, <1>8, <1>9 DEF CallOK

(* A step that publishes nothing, and locks at most a row that was free.   *)
Local(r) ==
  /\ op' = op /\ prs' = prs /\ pr_reviewers' = pr_reviewers
  /\ \A q \in Requests \ {r} : tx'[q] = tx[q] /\ pc'[q] = pc[q] /\ mem'[q] = mem[q]
  /\ \/ prLock' = prLock
     \/ prLock[op[r].pr] \in {None, r} /\ prLock' = [prLock EXCEPT ![op[r].pr] = r]

(* A local step is framed: the row it locks was held by nobody else. *)
LEMMA LocalIsFramed ==
  ASSUME TypeOK, NEW r \in Requests, Local(r)
  PROVE  Frame(r)
BY NullAssumption DEF Local, Frame, TypeOK

(* Every statement of the pull-request service is local. *)
LEMMA PRStepIsLocal ==
  ASSUME TypeOK, NEW r \in Requests, PRStep(r)
  PROVE  Local(r)
<1>1. CASE FindAuthor(r)
  BY <1>1 DEF FindAuthor, GetUserByID, Verdict, ReadOnly, Local, TypeOK
<1>2. CASE FindTeam(r)
  BY <1>2 DEF FindTeam, GetTeamIDByUserID, Verdict, ReadOnly, Local, TypeOK
<1>3. CASE ChooseReviewers(r)
  BY <1>3 DEF ChooseReviewers, Goto, ReadOnly, Local, TypeOK
<1>4. CASE InsertRow(r)
  BY <1>4 DEF InsertRow, InsertPR, Verdict, Private, Local, TypeOK
<1>5. CASE CountAssigned(r)
  BY <1>5 DEF CountAssigned, CountReviewersByPRID, Verdict, ReadOnly, Local, TypeOK
<1>6. CASE AssignNext(r)
  BY <1>6 DEF AssignNext, AddReviewer, Verdict, Private, Local, TypeOK
<1>7. CASE LockRow(r)
  BY <1>7 DEF LockRow, SelectPRForUpdate, Verdict, Private, Local, TypeOK
<1>8. CASE MergeLoadsReviewers(r)
  BY <1>8 DEF MergeLoadsReviewers, Goto, ReadOnly, Local, TypeOK
<1>9. CASE ReassignLoadsReviewers(r)
  BY <1>9 DEF ReassignLoadsReviewers, Verdict, ReadOnly, Local, TypeOK
<1>10. CASE ChooseReplacement(r)
  BY <1>10 DEF ChooseReplacement, Verdict, ReadOnly, Local, TypeOK
<1>11. CASE RemoveOld(r)
  BY <1>11 DEF RemoveOld, RemoveReviewer, Verdict, Private, Local, TypeOK
<1>12. CASE SetMerged(r)
  BY <1>12 DEF SetMerged, UpdateStatus, Verdict, Private, Local, TypeOK
<1>13. CASE Reload(r)
  BY <1>13 DEF Reload, SelectPR, Verdict, ReadOnly, Local, TypeOK
<1>14. CASE ReloadReviewers(r)
  BY <1>14 DEF ReloadReviewers, Goto, ReadOnly, Local, TypeOK
<1> QED
  BY <1>1, <1>2, <1>3, <1>4, <1>5, <1>6, <1>7, <1>8, <1>9, <1>10, <1>11, <1>12, <1>13, <1>14 DEF PRStep

(* None of them locks a row of users. *)
LEMMA PRStepLocksNoUser ==
  ASSUME NEW r, PRStep(r)
  PROVE  userLock' = userLock
<1>1. CASE FindAuthor(r) \/ FindTeam(r) \/ ChooseReviewers(r) \/ InsertRow(r)
  BY <1>1 DEF FindAuthor, GetUserByID, FindTeam, GetTeamIDByUserID, ChooseReviewers,
     InsertRow, InsertPR, ReadOnly
<1>2. CASE CountAssigned(r) \/ AssignNext(r) \/ LockRow(r) \/ MergeLoadsReviewers(r)
  BY <1>2 DEF CountAssigned, CountReviewersByPRID, AssignNext, AddReviewer, LockRow,
     SelectPRForUpdate, MergeLoadsReviewers, ReadOnly
<1>3. CASE ReassignLoadsReviewers(r) \/ ChooseReplacement(r) \/ RemoveOld(r)
  BY <1>3 DEF ReassignLoadsReviewers, ChooseReplacement, RemoveOld, RemoveReviewer, ReadOnly
<1>4. CASE SetMerged(r) \/ Reload(r) \/ ReloadReviewers(r)
  BY <1>4 DEF SetMerged, UpdateStatus, Reload, SelectPR, ReloadReviewers, ReadOnly
<1> QED
  BY <1>1, <1>2, <1>3, <1>4 DEF PRStep

-----------------------------------------------------------------------------
(* CallOK of the request that makes the step, action by action.            *)

(* A transaction that has written nothing sees the committed tables.       *)
LEMMA CleanView ==
  ASSUME TypeOK, NEW r \in Requests, Clean(r)
  PROVE  Row(r) = prs[op[r].pr] /\ Assigned(r) = pr_reviewers[op[r].pr]
<1>1. op[r].pr \in PRs
  BY DEF TypeOK, Calls
<1>2. pr_reviewers[op[r].pr] \in [Users -> Nat]
  BY <1>1 DEF TypeOK
<1> QED
  BY <1>2 DEF Clean, Row, Assigned

(* Whatever fails, a call may go to its end.                               *)
LEMMA EndOK ==
  ASSUME TypeOK, NEW r \in Requests, CallOK(r), op' = op,
         pc'[r] \in {"rollback", "orphan", "done"},
         pc'[r] # "done" => pc[r] \notin {"begin", "done"} /\ tx'[r].began = tx[r].began,
         pc'[r] = "done" \/ Is(r, "GetPR") \/ Is(r, "UpdateUserActive") => Clean(r)'
  PROVE  CallOK(r)'
<1>1. OnPath(r)' /\ Begun(r)' /\ Unwritten(r)'
  BY DEF CallOK, OnPath, Ends, Begun, Unwritten, Is
<1>2. Creating(r)' /\ Merging(r)' /\ Doubtful(r)'
  BY DEF Creating, Merging, Doubtful
<1>3. Replacing(r)'
  BY DEF Replacing, Path
<1> QED
  BY <1>1, <1>2, <1>3 DEF CallOK

(* The outcome of a statement that fails.                                  *)
LEMMA RollbackOK ==
  ASSUME TypeOK, NEW r \in Requests, CallOK(r), op' = op, tx'[r] = tx[r],
         pc[r] \notin {"begin", "done"}, pc'[r] = "rollback"
  PROVE  CallOK(r)'
BY EndOK DEF CallOK, Unwritten, Clean

(* Begin starts a call at the first step of its path. *)
LEMMA BeginOK ==
  ASSUME TypeOK, NEW r \in Requests, CallOK(r), Begin(r, FirstStep[op[r].kind])
  PROVE  CallOK(r)'
<1>1. op[r].kind \in Kinds
  BY DEF TypeOK, Calls
<1>2. /\ pc[r] = "begin" /\ pc'[r] = FirstStep[op[r].kind]
      /\ op' = op /\ mem' = mem
  BY DEF Begin, TypeOK
<1>3. tx'[r] = [tx[r] EXCEPT !.began = clock + 1] /\ clock + 1 > 0
  BY DEF Begin, TypeOK
<1>4. Clean(r)' /\ tx'[r].began > 0 /\ mem[r].next = 1
  BY <1>2, <1>3 DEF CallOK, Unwritten, Clean, TypeOK
<1>5. /\ pc'[r] \in {"author", "lock", "reload", "user"}
      /\ pc'[r] = "lock" => Is(r, "ReassignReviewer") \/ Is(r, "MergePR")
      /\ pc'[r] = "reload" => Is(r, "GetPR")
  BY <1>1, <1>2 DEF Kinds, FirstStep, Is
<1>6. OnPath(r)'
  BY <1>1, <1>2 DEF OnPath, Path, Kinds, FirstStep
<1>7. Begun(r)' /\ Unwritten(r)'
  BY <1>2, <1>4 DEF Begun, Unwritten
<1>8. Creating(r)' /\ Merging(r)' /\ Doubtful(r)'
  BY <1>5 DEF Creating, Merging, Doubtful
<1>9. Replacing(r)'
  BY <1>2, <1>5 DEF Replacing, Path, Is
<1> QED
  BY <1>6, <1>7, <1>8, <1>9 DEF CallOK

(* Which call a step belongs to. *)
LEMMA KindAt ==
  ASSUME TypeOK, NEW r \in Requests, CallOK(r)
  PROVE  /\ op[r].kind \in Kinds
         /\ pc[r] \in {"author", "insert"} => op[r].kind = "CreatePR"
         /\ pc[r] \in {"team", "candidates", "count", "assign"} =>
              op[r].kind \in {"CreatePR", "ReassignReviewer"}
         /\ pc[r] \in {"lock", "reviewers"} => op[r].kind \in {"ReassignReviewer", "MergePR"}
         /\ pc[r] = "remove" => op[r].kind = "ReassignReviewer"
         /\ pc[r] = "update" => op[r].kind = "MergePR"
         /\ pc[r] \in {"reload", "reloaded"} => op[r].kind \in {"ReassignReviewer", "GetPR"}
         /\ pc[r] \in {"user", "setActive"} => op[r].kind = "UpdateUserActive"
         /\ pc[r] = "commit" => op[r].kind # "GetPR"
<1>1. op[r].kind \in Kinds
  BY DEF TypeOK, Calls
<1>2. pc[r] \in Path[op[r].kind] \union Ends /\ (pc[r] = "commit" => op[r].kind # "GetPR")
  BY DEF CallOK, OnPath, Is
<1> QED
  BY <1>1, <1>2 DEF Kinds, Path, Ends

(* CreatePR has found its author, or goes back. *)
LEMMA FindAuthorOK ==
  ASSUME TypeOK, NEW r \in Requests, CallOK(r), FindAuthor(r)
  PROVE  CallOK(r)'
<1>1. pc[r] = "author" /\ pc'[r] \in {"team", "rollback"} /\ op' = op /\ tx' = tx /\ mem' = mem
  BY DEF FindAuthor, At, GetUserByID, Verdict, ReadOnly, TypeOK
<1>2. op[r].kind = "CreatePR"
  BY <1>1, KindAt
<1>3. CASE pc'[r] = "rollback"
  BY <1>1, <1>3, RollbackOK
<1>4. CASE pc'[r] = "team"
  BY <1>1, <1>2, <1>4 DEF CallOK, OnPath, Path, Begun, Unwritten, Clean, Is,
     Creating, Replacing, Merging, Doubtful
<1> QED
  BY <1>1, <1>3, <1>4

(* The team of the author: nothing that CallOK speaks of changes but pc.   *)
LEMMA FindTeamOK ==
  ASSUME TypeOK, NEW r \in Requests, CallOK(r), FindTeam(r)
  PROVE  CallOK(r)'
<1>1. /\ pc[r] = "team" /\ pc'[r] \in {"candidates", "rollback"}
      /\ op' = op /\ tx' = tx /\ prs' = prs /\ pr_reviewers' = pr_reviewers /\ prLock' = prLock
  BY DEF FindTeam, At, GetTeamIDByUserID, Verdict, ReadOnly, TypeOK
<1>2. op[r].kind \in {"CreatePR", "ReassignReviewer"}
  BY <1>1, KindAt
<1>3. /\ mem'[r].row = mem[r].row /\ mem'[r].reviewers = mem[r].reviewers
      /\ mem'[r].next = mem[r].next
  <2>1. PICK t \in Teams \union {None} : mem' = [mem EXCEPT ![r].team = t]
    BY Zenon DEF FindTeam, GetTeamIDByUserID
  <2> QED
    BY <2>1 DEF TypeOK
<1>4. CASE pc'[r] = "rollback"
  BY <1>1, <1>4, RollbackOK
<1>5. CASE pc'[r] = "candidates"
  <2>1. OnPath(r)' /\ Begun(r)' /\ Unwritten(r)'
    BY <1>1, <1>2, <1>3, <1>5 DEF CallOK, OnPath, Path, Begun, Unwritten, Clean, Is
  <2>2. Replacing(r)'
    BY <1>1, <1>2, <1>3, <1>5 DEF CallOK, Replacing, Path, Is, Reviewers
  <2> QED
    BY <1>5, <2>1, <2>2 DEF CallOK, Creating, Merging, Doubtful
<1> QED
  BY <1>1, <1>4, <1>5

(* CreatePR has chosen at most two reviewers, none of them the author. *)
LEMMA ChooseReviewersOK ==
  ASSUME TypeOK, NEW r \in Requests, CallOK(r), ChooseReviewers(r)
  PROVE  CallOK(r)'
<1> DEFINE pool == FilterStrings(ListActiveMembersByTeamID(mem[r].team), {op[r].user})
<1>1. /\ pc[r] = "candidates" /\ pc'[r] = "insert" /\ op[r].kind = "CreatePR"
      /\ op' = op /\ tx' = tx
  BY DEF ChooseReviewers, At, Goto, ReadOnly, TypeOK, Is
<1>2. PICK s \in Select(pool, 2) : mem' = [mem EXCEPT ![r].selected = s, ![r].reviewers = s]
  BY DEF ChooseReviewers
<1>3. mem'[r].selected = s /\ mem'[r].reviewers = s /\ mem'[r].next = mem[r].next
  BY <1>2 DEF TypeOK
<1>4. s \in Seq(Users \ {op[r].user}) /\ Len(s) <= 2
  <2>1. pool \subseteq Users \ {op[r].user} /\ IsFiniteSet(pool)
    BY ListActiveType DEF FilterStrings
  <2>2. s \in Seq(pool) /\ Len(s) <= 2
    BY <2>1, SelectIsSeq
  <2> HIDE DEF pool
  <2> QED
    BY <2>1, <2>2
<1>5. OnPath(r)' /\ Begun(r)' /\ Unwritten(r)'
  BY <1>1, <1>3 DEF CallOK, OnPath, Path, Begun, Unwritten, Clean, Is
<1>6. Creating(r)'
  BY <1>1, <1>3, <1>4 DEF Creating
<1> QED
  BY <1>1, <1>5, <1>6 DEF CallOK, Replacing, Merging, Doubtful, Is

(* CreatePR has inserted its row: the pull request did not exist and is    *)
(* now locked.                                                             *)
LEMMA InsertRowOK ==
  ASSUME TypeOK, TablesOK, NEW r \in Requests, CallOK(r), InsertRow(r)
  PROVE  CallOK(r)'
<1> DEFINE p == op[r].pr
           more == mem[r].selected # <<>>
<1>1. /\ pc[r] = "insert" /\ pc'[r] \in {"commit", "count", "rollback"}
      /\ pc'[r] # "rollback" => (pc'[r] = "count" <=> more)
      /\ op' = op /\ prs' = prs
  BY DEF InsertRow, At, InsertPR, Verdict, Private, TypeOK
<1>2. op[r].kind = "CreatePR" /\ p \in PRs
  BY <1>1, KindAt DEF TypeOK, Calls
<1>3. CASE pc'[r] = "rollback"
  <2>1. tx' = tx
    BY <1>3 DEF InsertRow, InsertPR, Verdict, TypeOK
  <2> QED
    BY <1>1, <1>3, <2>1, RollbackOK
<1>4. CASE pc'[r] # "rollback"
  <2> DEFINE row == [author |-> op[r].user, status |-> "OPEN", merged_at |-> None]
  <2>1. /\ prs[p].status = "NONE" /\ tx' = [tx EXCEPT ![r].row = row]
        /\ mem' = [mem EXCEPT ![r].row = row] /\ prLock' = [prLock EXCEPT ![p] = r]
    BY <1>4 DEF InsertRow, InsertPR, Verdict, TypeOK
  <2>2. prs[p] = NoPR /\ prLock'[p] = r
    BY <1>2, <2>1 DEF TablesOK, TypeOK
  <2>3. /\ tx'[r].row = row /\ tx'[r].added = {} /\ tx'[r].removed = {}
        /\ tx'[r].began = tx[r].began
    BY <1>1, <2>1 DEF TypeOK, CallOK, Unwritten, Clean
  <2>4. /\ mem'[r].row = row /\ mem'[r].selected = mem[r].selected
        /\ mem'[r].reviewers = mem[r].reviewers /\ mem'[r].next = 1
    BY <1>1, <2>1 DEF TypeOK, CallOK, Unwritten
  <2>5. OnPath(r)' /\ Begun(r)' /\ Unwritten(r)'
    BY <1>1, <1>2, <1>4, <2>3 DEF CallOK, OnPath, Path, Ends, Begun, Unwritten, Is
  <2>6. /\ mem[r].selected \in Seq(Users \ {op[r].user}) /\ Len(mem[r].selected) <= 2
        /\ mem[r].reviewers = mem[r].selected
    BY <1>1, <1>2 DEF CallOK, Creating, Is
  <2>7. more => 1 \in 1 .. Len(mem[r].selected)
    BY <2>6
  <2>8. ~more => Range(mem[r].selected) = {}
    BY DEF Range
  <2>9. Creating(r)'
    BY <1>1, <1>2, <1>4, <2>2, <2>3, <2>4, <2>6, <2>7, <2>8 DEF Creating, Fresh, Is
  <2> QED
    BY <1>1, <1>2, <1>4, <2>5, <2>9 DEF CallOK, Replacing, Merging, Doubtful, Is
<1> QED
  BY <1>3, <1>4

(* A query that changes nothing but pc: CountReviewersByPRID.              *)
LEMMA CountAssignedOK ==
  ASSUME TypeOK, NEW r \in Requests, CallOK(r), CountAssigned(r)
  PROVE  CallOK(r)'
<1>1. /\ pc[r] = "count" /\ pc'[r] \in {"assign", "rollback"}
      /\ op' = op /\ tx' = tx /\ mem' = mem
      /\ prs' = prs /\ pr_reviewers' = pr_reviewers /\ prLock' = prLock
  BY DEF CountAssigned, At, CountReviewersByPRID, Verdict, ReadOnly, TypeOK
<1>2. op[r].kind \in {"CreatePR", "ReassignReviewer"}
  BY <1>1, KindAt
<1>3. CASE pc'[r] = "rollback"
  BY <1>1, <1>3, RollbackOK
<1>4. CASE pc'[r] = "assign"
  <2>1. OnPath(r)' /\ Begun(r)' /\ Unwritten(r)'
    BY <1>1, <1>2, <1>4 DEF CallOK, OnPath, Path, Begun, Unwritten, Is
  <2>2. Creating(r)'
    BY <1>1, <1>2, <1>4 DEF CallOK, Creating, Is
  <2>3. Replacing(r)'
    BY <1>1, <1>2, <1>4 DEF CallOK, Replacing, Path, Is, Reviewers
  <2> QED
    BY <1>4, <2>1, <2>2, <2>3 DEF CallOK, Merging, Doubtful
<1> QED
  BY <1>1, <1>3, <1>4

(* AddReviewer has added the next reviewer; after the last one all chosen  *)
(* ones are written.                                                       *)
LEMMA AssignNextOK ==
  ASSUME TypeOK, NEW r \in Requests, CallOK(r), AssignNext(r)
  PROVE  CallOK(r)'
<1> DEFINE n == mem[r].next
           S == mem[r].selected
           u == S[n]
           more == n < Len(S)
<1>1. /\ pc[r] = "assign" /\ pc'[r] \in {"count", "commit", "reload", "rollback"}
      /\ op' = op /\ prs' = prs /\ pr_reviewers' = pr_reviewers /\ prLock' = prLock
  BY DEF AssignNext, At, AddReviewer, Verdict, Private, TypeOK
<1>2. op[r].kind \in {"CreatePR", "ReassignReviewer"} /\ n \in 1 .. Len(S) /\ u \in Users
  BY <1>1, KindAt, NextSelected
<1>3. CASE pc'[r] = "rollback"
  <2>1. tx' = tx \/ tx' = [tx EXCEPT ![r].added = @ \union {u}]
    BY DEF AssignNext, AddReviewer
  <2>2. tx'[r].began = tx[r].began
    BY <2>1 DEF TypeOK
  <2> QED
    BY <1>1, <1>2, <1>3, <2>2, EndOK DEF Is
<1>4. CASE pc'[r] # "rollback"
  <2>1. tx' = [tx EXCEPT ![r].added = @ \union {u}]
    BY <1>4 DEF AssignNext, AddReviewer, Verdict, TypeOK
  <2>2. /\ tx'[r].row = tx[r].row /\ tx'[r].removed = tx[r].removed
        /\ tx'[r].added = tx[r].added \union {u} /\ tx'[r].began = tx[r].began
    BY <2>1 DEF TypeOK
  <2>3. /\ mem'[r].row = mem[r].row /\ mem'[r].selected = S
        /\ mem'[r].reviewers = mem[r].reviewers
        /\ mem'[r].next = IF more THEN n + 1 ELSE n
    BY DEF AssignNext, TypeOK
  <2>4. pc'[r] = IF more THEN "count"
                 ELSE IF Is(r, "CreatePR") THEN "commit" ELSE "reload"
    BY <1>4 DEF AssignNext, AddReviewer, Verdict, TypeOK
  <2>5. CASE op[r].kind = "CreatePR"
    <3>1. /\ S \in Seq(Users \ {op[r].user}) /\ Len(S) <= 2 /\ mem[r].reviewers = S
          /\ prLock[op[r].pr] = r /\ prs[op[r].pr] = NoPR
          /\ tx[r].row = Fresh(op[r].user) /\ mem[r].row = tx[r].row /\ tx[r].removed = {}
          /\ tx[r].added = {S[i] : i \in 1 .. n - 1}
      BY <1>1, <2>5 DEF CallOK, Creating, Is
    <3>2. tx'[r].added = {S[i] : i \in 1 .. n}
      BY <1>2, <2>2, <3>1
    <3>3. ~more => tx'[r].added = Range(S)
      BY <1>2, <3>1, <3>2 DEF Range
    <3>4. Creating(r)'
      <4>1. CASE more
        <5>1. /\ mem'[r].next \in 1 .. Len(S)
              /\ tx'[r].added = {S[i] : i \in 1 .. mem'[r].next - 1}
          BY <1>2, <2>3, <3>1, <3>2, <4>1
        <5>2. pc'[r] = "count"
          BY <2>4, <4>1
        <5>3. /\ mem'[r].selected \in Seq(Users \ {op'[r].user})
              /\ Len(mem'[r].selected) <= 2
              /\ mem'[r].reviewers = mem'[r].selected
          BY <1>1, <2>3, <3>1
        <5>4. /\ prLock'[op'[r].pr] = r /\ prs'[op'[r].pr] = NoPR'
              /\ tx'[r].row = Fresh(op[r].user)' /\ mem'[r].row = tx'[r].row
              /\ tx'[r].removed = {}
          BY <1>1, <2>2, <2>3, <3>1 DEF NoPR, Fresh
        <5>5. /\ mem'[r].next \in 1 .. Len(mem'[r].selected)
              /\ tx'[r].added = {mem'[r].selected[i] : i \in 1 .. mem'[r].next - 1}
          BY <2>3, <5>1
        <5> QED
          BY <5>2, <5>3, <5>4, <5>5 DEF Creating
      <4>2. CASE ~more
        <5>1. pc'[r] = "commit"
          BY <2>4, <2>5, <4>2 DEF Is
        <5> QED
          BY <1>1, <2>2, <2>3, <3>1, <3>3, <4>2, <5>1 DEF Creating
      <4> QED
        BY <4>1, <4>2
    <3>5. OnPath(r)' /\ Begun(r)' /\ Unwritten(r)'
      BY <1>1, <2>2, <2>4, <2>5 DEF CallOK, OnPath, Path, Ends, Begun, Unwritten, Is
    <3> QED
      BY <1>1, <2>4, <2>5, <3>4, <3>5 DEF CallOK, Replacing, Merging, Doubtful, Is
  <2>6. CASE op[r].kind = "ReassignReviewer"
    <3>1. n = 1 /\ Len(S) = 1 /\ tx[r].added = {} /\ tx[r].removed = {op[r].user}
      BY <1>1, <2>6 DEF CallOK, Replacing, Path, Is
    <3>2. pc'[r] = "reload" /\ tx'[r].added = {S[1]}
      BY <2>2, <2>4, <2>6, <3>1 DEF Is
    <3>3. Replacing(r)'
      BY <1>1, <2>2, <2>3, <2>6, <3>1, <3>2 DEF CallOK, Replacing, Path, Is, Reviewers
    <3>4. OnPath(r)' /\ Begun(r)' /\ Unwritten(r)'
      BY <1>1, <2>2, <2>6, <3>2 DEF CallOK, OnPath, Path, Begun, Unwritten, Is
    <3> QED
      BY <1>1, <2>6, <3>2, <3>3, <3>4 DEF CallOK, Creating, Merging, Doubtful, Is
  <2> QED
    BY <1>2, <2>5, <2>6
<1> QED
  BY <1>3, <1>4

(* LockPRByID has locked the row and read what is committed. *)
LEMMA LockRowOK ==
  ASSUME TypeOK, NEW r \in Requests, CallOK(r), LockRow(r)
  PROVE  CallOK(r)'
<1> DEFINE p == op[r].pr
<1>1. /\ pc[r] = "lock" /\ pc'[r] \in {"reviewers", "rollback"}
      /\ op' = op /\ tx' = tx /\ prs' = prs /\ pr_reviewers' = pr_reviewers
  BY DEF LockRow, At, SelectPRForUpdate, Verdict, Private, TypeOK
<1>2. op[r].kind \in {"ReassignReviewer", "MergePR"} /\ p \in PRs
  BY <1>1, KindAt DEF TypeOK, Calls
<1>3. CASE pc'[r] = "rollback"
  BY <1>1, <1>3, RollbackOK
<1>4. CASE pc'[r] = "reviewers"
  <2>1. prs[p].status # "NONE" /\ prLock' = [prLock EXCEPT ![p] = r]
    BY <1>4 DEF LockRow, SelectPRForUpdate, Verdict, TypeOK
  <2>2. mem' = [mem EXCEPT ![r].row = prs[p]]
    BY DEF LockRow, SelectPRForUpdate
  <2>3. prLock'[p] = r /\ mem'[r].row = prs[p] /\ mem'[r].next = mem[r].next
    BY <1>2, <2>1, <2>2 DEF TypeOK
  <2>4. Clean(r) /\ Row(r) = prs[p]
    BY <1>1, CleanView DEF CallOK, Unwritten
  <2>5. Row(r)' = prs[p]
    BY <1>1, <2>4 DEF Row
  <2>6. OnPath(r)' /\ Begun(r)' /\ Unwritten(r)'
    BY <1>1, <1>2, <1>4, <2>3, <2>4 DEF CallOK, OnPath, Path, Begun, Unwritten, Clean, Is
  <2>7. Replacing(r)'
    BY <1>1, <1>4, <2>1, <2>3, <2>4 DEF Replacing, Clean
  <2>8. Merging(r)'
    BY <1>1, <1>4, <2>1, <2>3, <2>4, <2>5 DEF Merging, Clean
  <2> QED
    BY <1>4, <2>6, <2>7, <2>8 DEF CallOK, Creating, Doubtful
<1> QED
  BY <1>1, <1>3, <1>4

(* What the second statement of LockPRByID finds under the lock.           *)
LEMMA ReviewersLoaded ==
  ASSUME TypeOK, NEW r \in Requests, CallOK(r), pc[r] = "reviewers",
         NEW s \in LoadReviewers(r), mem' = [mem EXCEPT ![r].reviewers = s]
  PROVE  /\ Clean(r) /\ Row(r) = prs[op[r].pr]
         /\ Range(s) = Reviewers(pr_reviewers[op[r].pr])
         /\ mem'[r].row = mem[r].row /\ mem'[r].next = mem[r].next
         /\ mem'[r].reviewers = s
<1>1. Clean(r)
  BY DEF CallOK, Unwritten
<1>2. Row(r) = prs[op[r].pr] /\ Range(s) = Reviewers(pr_reviewers[op[r].pr])
  BY <1>1, CleanView, LoadReviewersIsSeq
<1>3. mem'[r].row = mem[r].row /\ mem'[r].next = mem[r].next /\ mem'[r].reviewers = s
  BY DEF TypeOK
<1> QED
  BY <1>1, <1>2, <1>3

(* MergePR has read the reviewers, and goes on to update an open pull      *)
(* request only.                                                           *)
LEMMA MergeLoadsReviewersOK ==
  ASSUME TypeOK, NEW r \in Requests, CallOK(r), MergeLoadsReviewers(r)
  PROVE  CallOK(r)'
<1> DEFINE p == op[r].pr
<1>1. /\ pc[r] = "reviewers" /\ op[r].kind = "MergePR" /\ p \in PRs
      /\ pc'[r] = IF mem[r].row.status = "MERGED" THEN "commit" ELSE "update"
      /\ op' = op /\ tx' = tx /\ prs' = prs /\ pr_reviewers' = pr_reviewers /\ prLock' = prLock
  BY DEF MergeLoadsReviewers, At, Is, Goto, ReadOnly, TypeOK, Calls
<1>2. PICK s \in LoadReviewers(r) : mem' = [mem EXCEPT ![r].reviewers = s]
  BY DEF MergeLoadsReviewers
<1>3. /\ Clean(r) /\ Row(r) = prs[p] /\ Range(s) = Reviewers(pr_reviewers[p])
      /\ mem'[r].row = mem[r].row /\ mem'[r].next = mem[r].next /\ mem'[r].reviewers = s
  BY <1>1, <1>2, ReviewersLoaded
<1>4. prLock[p] = r /\ prs[p].status # "NONE" /\ mem[r].row = prs[p]
  BY <1>1, <1>3 DEF CallOK, Merging, Is
<1>5. pc'[r] = "update" => prs[p].status = "OPEN"
  BY <1>1, <1>4 DEF TypeOK, PRRows
<1>6. Row(r)' = prs[p]
  BY <1>1, <1>3 DEF Row
<1>7. OnPath(r)' /\ Begun(r)' /\ Unwritten(r)'
  BY <1>1, <1>3 DEF CallOK, OnPath, Path, Ends, Begun, Unwritten, Clean, Is
<1>8. Merging(r)'
  BY <1>1, <1>3, <1>4, <1>5, <1>6 DEF Merging, Clean, Reviewers
<1> QED
  BY <1>1, <1>7, <1>8 DEF CallOK, Creating, Replacing, Doubtful, Is

(* ReassignReviewer has read the reviewers, and goes on only for a         *)
(* reviewer of an open pull request.                                       *)
LEMMA ReassignLoadsReviewersOK ==
  ASSUME TypeOK, NEW r \in Requests, CallOK(r), ReassignLoadsReviewers(r)
  PROVE  CallOK(r)'
<1> DEFINE p == op[r].pr
<1>1. /\ pc[r] = "reviewers" /\ op[r].kind = "ReassignReviewer" /\ p \in PRs
      /\ op[r].user \in Users /\ pc'[r] \in {"team", "rollback"}
      /\ op' = op /\ tx' = tx /\ prs' = prs /\ pr_reviewers' = pr_reviewers /\ prLock' = prLock
  BY DEF ReassignLoadsReviewers, At, Is, Verdict, ReadOnly, TypeOK, Calls
<1>2. PICK s \in LoadReviewers(r) :
        /\ mem' = [mem EXCEPT ![r].reviewers = s]
        /\ pc'[r] = "team" => mem[r].row.status # "MERGED" /\ op[r].user \in Range(s)
  BY DEF ReassignLoadsReviewers, Verdict, ContainsString, TypeOK
<1>3. /\ Clean(r) /\ Row(r) = prs[p] /\ Range(s) = Reviewers(pr_reviewers[p])
      /\ mem'[r].row = mem[r].row /\ mem'[r].next = mem[r].next /\ mem'[r].reviewers = s
  BY <1>1, <1>2, ReviewersLoaded
<1>4. CASE pc'[r] = "rollback"
  BY <1>1, <1>4, RollbackOK
<1>5. CASE pc'[r] = "team"
  <2>1. prLock[p] = r /\ prs[p].status # "NONE" /\ mem[r].row = prs[p]
    BY <1>1 DEF CallOK, Replacing, Path, Is
  <2>2. prs[p].status = "OPEN"
    BY <1>1, <1>2, <1>5, <2>1 DEF TypeOK, PRRows
  <2>3. OnPath(r)' /\ Begun(r)' /\ Unwritten(r)'
    BY <1>1, <1>3, <1>5 DEF CallOK, OnPath, Path, Begun, Unwritten, Clean, Is
  <2>4. Replacing(r)'
    BY <1>1, <1>2, <1>3, <1>5, <2>1, <2>2 DEF Replacing, Clean, Reviewers
  <2> QED
    BY <1>1, <1>5, <2>3, <2>4 DEF CallOK, Creating, Merging, Doubtful, Is
<1> QED
  BY <1>1, <1>4, <1>5

(* ReassignReviewer has chosen somebody who is neither the author nor a    *)
(* reviewer.                                                               *)
LEMMA ChooseReplacementOK ==
  ASSUME TypeOK, NEW r \in Requests, CallOK(r), ChooseReplacement(r)
  PROVE  CallOK(r)'
<1> DEFINE p == op[r].pr
           current == Reviewers(pr_reviewers[p])
           pool == FilterStrings(ListActiveMembersByTeamID(mem[r].team),
                                 {mem[r].row.author} \union Range(mem[r].reviewers))
<1>1. /\ pc[r] = "candidates" /\ op[r].kind = "ReassignReviewer"
      /\ pc'[r] = IF pool = {} THEN "rollback" ELSE "remove"
      /\ op' = op /\ tx' = tx /\ prs' = prs /\ pr_reviewers' = pr_reviewers /\ prLock' = prLock
  BY DEF ChooseReplacement, At, Is, Verdict, ReadOnly, TypeOK
<1>2. PICK s \in Select(pool, 1) : mem' = [mem EXCEPT ![r].selected = s]
  BY DEF ChooseReplacement
<1>3. CASE pool = {}
  BY <1>1, <1>3, RollbackOK
<1>4. CASE pool # {}
  <2>1. /\ prLock[p] = r /\ prs[p].status = "OPEN" /\ mem[r].row = prs[p]
        /\ tx[r].row = NoPR /\ op[r].user \in current /\ Range(mem[r].reviewers) = current
    BY <1>1 DEF CallOK, Replacing, Path, Is
  <2>2. pool \subseteq Users \ (current \union {prs[p].author}) /\ IsFiniteSet(pool)
    BY <2>1, ListActiveType DEF FilterStrings
  <2>3. s \in Seq(pool) /\ Len(s) = 1
    BY <1>4, <2>2, SelectOne
  <2>4. s[1] \in Users \ (current \union {prs[p].author})
    <3> HIDE DEF pool
    <3> QED
      BY <2>2, <2>3
  <2>5. /\ mem'[r].row = mem[r].row /\ mem'[r].reviewers = mem[r].reviewers
        /\ mem'[r].selected = s /\ mem'[r].next = mem[r].next /\ mem[r].next = 1
    BY <1>1, <1>2 DEF TypeOK, CallOK, Unwritten
  <2>6. pc'[r] = "remove"
    BY <1>1, <1>4
  <2>7. OnPath(r)' /\ Begun(r)' /\ Unwritten(r)'
    BY <1>1, <2>5, <2>6 DEF CallOK, OnPath, Path, Begun, Unwritten, Clean, Is
  <2>8. Replacing(r)'
    BY <1>1, <2>1, <2>3, <2>4, <2>5, <2>6 DEF Replacing, Reviewers
  <2> QED
    BY <1>1, <2>6, <2>7, <2>8 DEF CallOK, Creating, Merging, Doubtful, Is
<1> QED
  BY <1>3, <1>4

(* RemoveReviewer finds the row it deletes. *)
LEMMA RemoveOldOK ==
  ASSUME TypeOK, NEW r \in Requests, CallOK(r), RemoveOld(r)
  PROVE  CallOK(r)'
<1> DEFINE p == op[r].pr
           u == op[r].user
<1>1. /\ pc[r] = "remove" /\ pc'[r] \in {"count", "rollback"} /\ u \in Users
      /\ op' = op /\ mem' = mem /\ prs' = prs /\ pr_reviewers' = pr_reviewers /\ prLock' = prLock
  BY DEF RemoveOld, At, RemoveReviewer, Verdict, Private, TypeOK, Calls
<1>2. op[r].kind = "ReassignReviewer" /\ Clean(r)
  BY <1>1, KindAt DEF CallOK, Unwritten
<1>3. u \in Reviewers(pr_reviewers[p])
  BY <1>1, <1>2 DEF CallOK, Replacing, Path, Is
<1>4. Assigned(r)[u] # 0
  BY <1>2, <1>3, CleanView DEF Reviewers
<1>5. tx' = [tx EXCEPT ![r] = Deleted(tx[r], u)] /\ pc'[r] = "count"
  BY <1>4 DEF RemoveOld, RemoveReviewer, Verdict, TypeOK
<1>6. /\ tx'[r].row = tx[r].row /\ tx'[r].began = tx[r].began
      /\ tx'[r].added = {} /\ tx'[r].removed = {u}
  <2>1. tx'[r] = Deleted(tx[r], u) /\ tx[r] \in Txs
    BY <1>5 DEF TypeOK, Txs
  <2> QED
    BY <1>2, <2>1 DEF Deleted, Txs, Clean
<1>7. OnPath(r)' /\ Begun(r)' /\ Unwritten(r)'
  BY <1>1, <1>2, <1>5, <1>6 DEF CallOK, OnPath, Path, Begun, Unwritten, Is
<1>8. Replacing(r)'
  BY <1>1, <1>2, <1>5, <1>6 DEF CallOK, Replacing, Path, Is, Reviewers
<1> QED
  BY <1>1, <1>2, <1>5, <1>7, <1>8 DEF CallOK, Creating, Merging, Doubtful, Is

(* UpdateStatus finds the pull request open and merges it. *)
LEMMA SetMergedOK ==
  ASSUME TypeOK, NEW r \in Requests, CallOK(r), SetMerged(r)
  PROVE  CallOK(r)'
<1> DEFINE p == op[r].pr
<1>1. /\ pc[r] = "update" /\ pc'[r] \in {"commit", "rollback"} /\ p \in PRs
      /\ op' = op /\ prs' = prs /\ pr_reviewers' = pr_reviewers
  BY DEF SetMerged, At, UpdateStatus, Verdict, Private, TypeOK, Calls
<1>2. op[r].kind = "MergePR" /\ Clean(r) /\ Row(r) = prs[p]
  BY <1>1, KindAt, CleanView DEF CallOK, Unwritten
<1>3. /\ prLock[p] = r /\ prs[p].status = "OPEN" /\ mem[r].row = prs[p]
      /\ Range(mem[r].reviewers) = Reviewers(pr_reviewers[p])
  BY <1>1, <1>2 DEF CallOK, Merging, Is
<1> DEFINE row == [Row(r) EXCEPT !.status = "MERGED", !.merged_at = r]
<1>4. /\ tx' = [tx EXCEPT ![r].row = row] /\ prLock' = [prLock EXCEPT ![p] = r]
      /\ pc'[r] = "commit"
  BY <1>2, <1>3 DEF SetMerged, UpdateStatus, Verdict, TypeOK
<1>5. row = Merged(prs[p], r) /\ row # NoPR /\ row \in PRRows
  <2>1. prs[p] \in PRRows
    BY <1>1 DEF TypeOK
  <2>2. row = Merged(prs[p], r)
    BY <1>2 DEF Merged
  <2>3. row \in PRRows /\ row.status = "MERGED"
    BY <1>2, <2>1 DEF PRRows
  <2> HIDE DEF row
  <2> QED
    BY <2>2, <2>3 DEF NoPR
<1>6. /\ tx'[r].row = row /\ tx'[r].added = {} /\ tx'[r].removed = {}
      /\ tx'[r].began = tx[r].began /\ prLock'[p] = r
  <2> HIDE DEF row
  <2> QED
    BY <1>1, <1>2, <1>4 DEF TypeOK, Clean
<1>7. mem'[r].row = row /\ mem'[r].reviewers = mem[r].reviewers
  <2> DEFINE w == [mem[r].row EXCEPT !.status = "MERGED", !.merged_at = r]
  <2>1. mem' = [mem EXCEPT ![r].row = w]
    BY Zenon DEF SetMerged
  <2>2. w = row
    BY <1>2, <1>3
  <2> HIDE DEF w, row
  <2> QED
    BY <2>1, <2>2 DEF TypeOK
<1>8. Row(r)' = row
  BY <1>5, <1>6 DEF Row
<1> HIDE DEF row
<1>9. OnPath(r)' /\ Begun(r)' /\ Unwritten(r)'
  BY <1>1, <1>2, <1>4, <1>6 DEF CallOK, OnPath, Ends, Begun, Unwritten, Is
<1>10. Merging(r)'
  BY <1>1, <1>3, <1>4, <1>5, <1>6, <1>7, <1>8 DEF Merging, Reviewers
<1> QED
  BY <1>1, <1>2, <1>4, <1>9, <1>10 DEF CallOK, Creating, Replacing, Doubtful, Is

(* GetPRByID reads the row, through the own writes of a reassignment. *)
LEMMA ReloadOK ==
  ASSUME TypeOK, NEW r \in Requests, CallOK(r), Reload(r)
  PROVE  CallOK(r)'
<1> DEFINE p == op[r].pr
<1>1. /\ pc[r] = "reload" /\ pc'[r] \in {"reloaded", "rollback"}
      /\ op' = op /\ tx' = tx /\ prs' = prs /\ pr_reviewers' = pr_reviewers /\ prLock' = prLock
  BY DEF Reload, At, SelectPR, Verdict, ReadOnly, TypeOK
<1>2. op[r].kind \in {"ReassignReviewer", "GetPR"}
  BY <1>1, KindAt
<1>3. CASE pc'[r] = "rollback"
  BY <1>1, <1>3, RollbackOK
<1>4. CASE pc'[r] = "reloaded"
  <2>1. mem' = [mem EXCEPT ![r].row = Row(r)]
    BY DEF Reload, SelectPR
  <2>2. /\ mem'[r].row = Row(r) /\ mem'[r].reviewers = mem[r].reviewers
        /\ mem'[r].selected = mem[r].selected /\ mem'[r].next = mem[r].next
    BY <2>1 DEF TypeOK
  <2>3. OnPath(r)' /\ Begun(r)' /\ Unwritten(r)'
    BY <1>1, <1>2, <1>4 DEF CallOK, OnPath, Path, Begun, Unwritten, Clean, Is
  <2>4. Is(r, "ReassignReviewer") => tx[r].row = NoPR /\ Row(r) = prs[p]
    BY <1>1 DEF CallOK, Replacing, Path, Row
  <2>5. Replacing(r)'
    BY <1>1, <1>4, <2>2, <2>4 DEF CallOK, Replacing, Path, Is, Reviewers
  <2> QED
    BY <1>4, <2>3, <2>5 DEF CallOK, Creating, Merging, Doubtful
<1> QED
  BY <1>1, <1>3, <1>4

(* A reassignment has read the reviewers it is about to commit. *)
LEMMA ReloadReviewersOK ==
  ASSUME TypeOK, NEW r \in Requests, CallOK(r), ReloadReviewers(r)
  PROVE  CallOK(r)'
<1>1. /\ pc[r] = "reloaded" /\ pc'[r] = IF Is(r, "GetPR") THEN "rollback" ELSE "commit"
      /\ op' = op /\ tx' = tx /\ prs' = prs /\ pr_reviewers' = pr_reviewers /\ prLock' = prLock
  BY DEF ReloadReviewers, At, Goto, ReadOnly, TypeOK
<1>2. op[r].kind \in {"ReassignReviewer", "GetPR"}
  BY <1>1, KindAt
<1>3. CASE Is(r, "GetPR")
  BY <1>1, <1>3, RollbackOK
<1>4. CASE Is(r, "ReassignReviewer")
  <2>1. PICK s \in LoadReviewers(r) : mem' = [mem EXCEPT ![r].reviewers = s]
    BY DEF ReloadReviewers
  <2>2. /\ mem'[r].row = mem[r].row /\ mem'[r].reviewers = s
        /\ mem'[r].selected = mem[r].selected /\ mem'[r].next = mem[r].next
    BY <2>1 DEF TypeOK
  <2>3. Range(s) = Reviewers(Assigned(r)) /\ Assigned(r)' = Assigned(r)
    BY <1>1, LoadReviewersIsSeq DEF Assigned
  <2>4. OnPath(r)' /\ Begun(r)' /\ Unwritten(r)'
    BY <1>1, <1>4 DEF CallOK, OnPath, Ends, Begun, Unwritten, Is
  <2>5. Replacing(r)'
    BY <1>1, <1>4, <2>2, <2>3 DEF CallOK, Replacing, Path, Is, Reviewers
  <2> QED
    BY <1>1, <1>4, <2>4, <2>5 DEF CallOK, Creating, Merging, Doubtful, Is
<1> QED
  BY <1>2, <1>3, <1>4 DEF Is

(* CallOK after any statement of the pull-request service. *)
LEMMA PRStepOK ==
  ASSUME TypeOK, TablesOK, NEW r \in Requests, CallOK(r), PRStep(r)
  PROVE  CallOK(r)'
BY FindAuthorOK, FindTeamOK, ChooseReviewersOK, InsertRowOK, CountAssignedOK, AssignNextOK,
   LockRowOK, MergeLoadsReviewersOK, ReassignLoadsReviewersOK, ChooseReplacementOK,
   RemoveOldOK, SetMergedOK, ReloadOK, ReloadReviewersOK DEF PRStep

(* UpdateUserActive writes no pull request. *)
LEMMA UserStepOK ==
  ASSUME TypeOK, NEW r \in Requests, CallOK(r), UserStep(r)
  PROVE  Local(r) /\ CallOK(r)'
<1>1. /\ pc[r] \in {"user", "setActive"} /\ pc'[r] \in {"setActive", "commit", "rollback"}
      /\ pc'[r] = "setActive" => pc[r] = "user"
      /\ op' = op /\ mem' = mem /\ prs' = prs /\ pr_reviewers' = pr_reviewers /\ prLock' = prLock
  BY DEF UserStep, FindUser, SetActive, At, GetUserByID, UpdateUserActive, Verdict,
     ReadOnly, Private, TypeOK
<1>2. op[r].kind = "UpdateUserActive" /\ Clean(r)
  BY <1>1, KindAt DEF CallOK, Unwritten
<1>3. \/ tx' = tx
      \/ \E v \in UserRows : tx' = [tx EXCEPT ![r].user = v]
  BY DEF UserStep, FindUser, SetActive, GetUserByID, UpdateUserActive, ReadOnly, UserRows
<1>4. /\ Clean(r)' /\ tx'[r].began = tx[r].began
      /\ \A q \in Requests \ {r} : tx'[q] = tx[q]
  <2>1. CASE tx' = tx
    BY <1>1, <1>2, <2>1 DEF Clean
  <2>2. CASE \E v \in UserRows : tx' = [tx EXCEPT ![r].user = v]
    <3>1. PICK v \in UserRows : tx' = [tx EXCEPT ![r].user = v]
      BY <2>2
    <3> QED
      BY <1>2, <3>1 DEF TypeOK, Clean
  <2> QED
    BY <1>3, <2>1, <2>2
<1>5. \A q \in Requests \ {r} : pc'[q] = pc[q]
  BY DEF UserStep, FindUser, SetActive, GetUserByID, UpdateUserActive, Verdict, TypeOK
<1>6. Local(r)
  BY <1>1, <1>4, <1>5 DEF Local
<1>7. OnPath(r)' /\ Begun(r)' /\ Unwritten(r)'
  BY <1>1, <1>2, <1>4 DEF CallOK, OnPath, Path, Ends, Begun, Unwritten, Is
<1>8. Creating(r)' /\ Replacing(r)' /\ Merging(r)' /\ Doubtful(r)'
  BY <1>1, <1>2 DEF Creating, Replacing, Merging, Doubtful, Is
<1> QED
  BY <1>6, <1>7, <1>8 DEF CallOK

-----------------------------------------------------------------------------
(* The ends of transactions.                                               *)

(* No more than two reviewers are chosen for a creation.                   *)
LEMMA RangeOfTwo ==
  ASSUME NEW S, NEW s \in Seq(S), Len(s) <= 2
  PROVE  Cardinality(Range(s)) <= 2
<1>1. Range(s) = {s[i] : i \in 1 .. Len(s)}
  BY DEF Range
<1>2. Len(s) = 0 \/ Len(s) = 1 \/ Len(s) = 2
  <2>1. Len(s) \in Nat
    OBVIOUS
  <2>2. \A n \in Nat : n <= 2 => n = 0 \/ n = 1 \/ n = 2
    OBVIOUS
  <2> QED
    BY <2>1, <2>2, Zenon
<1>3. CASE Len(s) = 0
  BY <1>1, <1>3, FS_EmptySet
<1>4. CASE Len(s) = 1
  <2>1. Range(s) = {s[1]}
    BY <1>1, <1>4
  <2>2. Cardinality({s[1]}) = 1
    BY FS_Singleton
  <2> QED
    BY <2>1, <2>2
<1>5. CASE Len(s) = 2
  <2>1. Range(s) = {s[1]} \union {s[2]}
    BY <1>1, <1>5
  <2>2. IsFiniteSet({s[1]}) /\ Cardinality({s[1]}) = 1
    BY FS_Singleton
  <2>3. Cardinality({s[1]} \union {s[2]})
          = IF s[2] \in {s[1]} THEN Cardinality({s[1]}) ELSE Cardinality({s[1]}) + 1
    BY <2>2, FS_AddElement, Zenon
  <2>4. Cardinality({s[1]} \union {s[2]}) <= 2
    BY <2>2, <2>3
  <2> QED
    BY <2>1, <2>4
<1> QED
  BY <1>2, <1>3, <1>4, <1>5

(* What a call is about to commit.                                         *)
LEMMA CommitShape ==
  ASSUME TypeOK, NEW r \in Requests, CallOK(r), pc[r] = "commit"
  PROVE  Shape(r)
<1>1. op[r].kind \in {"CreatePR", "ReassignReviewer", "MergePR", "UpdateUserActive"}
  BY KindAt DEF Kinds
<1>2. CASE op[r].kind = "UpdateUserActive"
  BY <1>2 DEF CallOK, Unwritten, Is, Shape
<1>3. CASE op[r].kind = "CreatePR"
  <2> DEFINE S == mem[r].selected
  <2>1. /\ S \in Seq(Users \ {op[r].user}) /\ Len(S) <= 2 /\ prLock[op[r].pr] = r
        /\ prs[op[r].pr] = NoPR /\ tx[r].row = Fresh(op[r].user) /\ tx[r].removed = {}
        /\ tx[r].added = Range(S)
    BY <1>3 DEF CallOK, Creating, Is
  <2>2. Range(S) \subseteq Users \ {op[r].user}
    BY <2>1 DEF Range
  <2>3. Cardinality(Range(S)) <= 2
    BY <2>1, RangeOfTwo
  <2> QED
    BY <2>1, <2>2, <2>3 DEF Shape, Creation
<1>4. CASE op[r].kind = "ReassignReviewer"
  BY <1>4 DEF CallOK, Replacing, Is, Shape, Replacement
<1>5. CASE op[r].kind = "MergePR"
  BY <1>5 DEF CallOK, Merging, Is, Shape, Merger, Clean
<1> QED
  BY <1>1, <1>2, <1>3, <1>4, <1>5

(* A call that breaks off at its COMMIT leaves one of the shapes in doubt. *)
LEMMA CallFailsOK ==
  ASSUME TypeOK, NEW r \in Requests, CallOK(r), CallFails(r)
  PROVE  Local(r) /\ CallOK(r)'
<1>1. /\ pc[r] \notin {"done", "orphan", "orphanCommit"}
      /\ pc'[r] = IF pc[r] = "begin" THEN "done"
                  ELSE IF pc[r] = "commit" THEN "orphanCommit" ELSE "orphan"
      /\ op' = op /\ tx' = tx /\ prs' = prs /\ pr_reviewers' = pr_reviewers /\ prLock' = prLock
  BY DEF CallFails, TypeOK
<1>2. Local(r)
  BY <1>1 DEF CallFails, TypeOK, Local
<1>3. Clean(r)' <=> Clean(r)
  BY <1>1 DEF Clean
<1>4. CASE pc[r] = "commit"
  <2>0. pc'[r] = "orphanCommit"
    BY <1>1, <1>4
  <2>1. Shape(r)'
    BY <1>1, <1>4, CommitShape DEF Shape, Clean, Creation, Replacement, Merger, Reviewers
  <2>2. OnPath(r)' /\ Begun(r)' /\ Unwritten(r)'
    BY <1>1, <1>4 DEF CallOK, OnPath, Ends, Begun, Unwritten, Is, Clean
  <2> QED
    BY <1>2, <2>0, <2>1, <2>2 DEF CallOK, Creating, Replacing, Path, Merging, Doubtful
<1>5. CASE pc[r] # "commit"
  <2>1. pc'[r] \in {"orphan", "done"} /\ (pc'[r] = "done" => pc[r] = "begin")
    BY <1>1, <1>5
  <2>2. pc[r] = "begin" \/ Is(r, "GetPR") \/ Is(r, "UpdateUserActive") => Clean(r)
    BY DEF CallOK, Unwritten
  <2>3. pc'[r] # "done" => pc[r] \notin {"begin", "done"}
    BY <1>1
  <2> QED
    BY <1>1, <1>2, <1>3, <2>1, <2>2, <2>3, EndOK
<1> QED
  BY <1>2, <1>4, <1>5

(* Publishing what has a Shape changes no pull request somebody else holds *)
(* and keeps those that do not exist without reviewers.                    *)
LEMMA PublishOK ==
  ASSUME TypeOK, TablesOK, NEW r \in Requests, Shape(r), Publish(r), NEW p \in PRs
  PROVE  /\ prLock[p] # r => prs'[p] = prs[p] /\ pr_reviewers'[p] = pr_reviewers[p]
         /\ prs'[p].status = "NONE" => prs'[p] = NoPR /\ Reviewers(pr_reviewers'[p]) = {}
<1>1. /\ prs' = [prs EXCEPT ![op[r].pr] = Row(r)]
      /\ pr_reviewers' = [pr_reviewers EXCEPT ![op[r].pr] = Assigned(r)]
      /\ op[r].pr \in PRs
  BY DEF Publish, TypeOK, Calls
<1>2. CASE p # op[r].pr
  BY <1>1, <1>2 DEF TypeOK, TablesOK
<1>3. CASE p = op[r].pr /\ Clean(r)
  BY <1>1, <1>3, CleanView DEF TypeOK, TablesOK
<1>4. CASE p = op[r].pr /\ ~Clean(r)
  <2>1. prLock[p] = r /\ (Creation(r) \/ Replacement(r) \/ Merger(r))
    BY <1>4 DEF Shape
  <2>2. prs'[p] = Row(r)
    BY <1>1, <1>4 DEF TypeOK
  <2>3. Row(r).status # "NONE"
    <3>1. CASE Creation(r)
      BY <3>1 DEF Creation, Fresh, Row, NoPR
    <3>2. CASE Replacement(r)
      BY <3>2 DEF Replacement, Row
    <3>3. CASE Merger(r)
      <4>1. prs[p] \in PRRows
        BY DEF TypeOK
      <4>2. Merged(prs[p], r).status = "MERGED"
        BY <4>1 DEF Merged, PRRows
      <4> QED
        BY <1>4, <3>3, <4>2 DEF Merger, Row, NoPR
    <3> QED
      BY <2>1, <3>1, <3>2, <3>3
  <2> QED
    BY <2>1, <2>2, <2>3
<1> QED
  BY <1>2, <1>3, <1>4

(* The end of a transaction is framed and leaves the tables in order. *)
LEMMA EndTxOK ==
  ASSUME TypeOK, TablesOK, NEW r \in Requests, CallOK(r), EndTx(r),
         Discard \/ (Publish(r) /\ Shape(r))
  PROVE  Frame(r) /\ CallOK(r)' /\ TablesOK'
<1>1. /\ op' = op /\ prLock' = Released(prLock, r)
      /\ \A q \in Requests \ {r} : tx'[q] = tx[q] /\ pc'[q] = pc[q] /\ mem'[q] = mem[q]
  BY DEF EndTx, TypeOK
<1>2. \A p \in PRs :
        /\ prLock[p] # r => prs'[p] = prs[p] /\ pr_reviewers'[p] = pr_reviewers[p]
        /\ prs'[p].status = "NONE" => prs'[p] = NoPR /\ Reviewers(pr_reviewers'[p]) = {}
  <2>1. CASE Discard
    BY <2>1 DEF Discard, TablesOK
  <2>2. CASE Publish(r) /\ Shape(r)
    BY <2>2, PublishOK
  <2> QED
    BY <2>1, <2>2
<1>3. \A p \in PRs : \A q \in Requests \ {r} : prLock[p] = q => prLock'[p] = q
  BY <1>1 DEF Released, TypeOK
<1>4. Frame(r)
  BY <1>1, <1>2, <1>3 DEF Frame
<1>5. TablesOK'
  BY <1>2 DEF TablesOK, Reviewers
<1>6. pc'[r] = "done" /\ Clean(r)'
  <2> DEFINE t == [NoTx EXCEPT !.began = tx[r].began]
  <2>1. tx' = [tx EXCEPT ![r] = t] /\ pc'[r] = "done"
    BY DEF EndTx, TypeOK
  <2>2. t.row = NoPR /\ t.added = {} /\ t.removed = {}
    BY DEF NoTx
  <2>3. tx'[r] = t
    <3> HIDE DEF t
    <3> QED
      BY <2>1 DEF TypeOK
  <2> QED
    BY <2>1, <2>2, <2>3 DEF Clean
<1>7. CallOK(r)'
  BY <1>1, <1>6, EndOK
<1> QED
  BY <1>4, <1>5, <1>7

-----------------------------------------------------------------------------
(* The inductive invariant.                                                *)

(* The invariant holds at the start. *)
LEMMA InitOK == Init => IInv
<1> SUFFICES ASSUME Init PROVE IInv
  OBVIOUS
<1>1. TypeOK
  BY InitType
<1>2. TablesOK
  <2> SUFFICES ASSUME NEW p \in PRs, prs[p].status = "NONE"
               PROVE  prs[p] = NoPR /\ Reviewers(pr_reviewers[p]) = {}
    BY DEF TablesOK
  <2>1. prs[p] \in {NoPR} \union {[author |-> u, status |-> "OPEN", merged_at |-> None] : u \in Users}
    BY DEF Init
  <2>2. prs[p] = NoPR
    BY <2>1
  <2>3. p \notin Existing
    BY <2>2 DEF Init
  <2> QED
    BY <2>2, <2>3 DEF Init
<1>3. ASSUME NEW r \in Requests PROVE CallOK(r)
  <2>1. pc[r] = "begin" /\ tx[r] = NoTx /\ mem[r] = Locals
    BY DEF Init
  <2>2. Clean(r) /\ mem[r].next = 1
    BY <2>1 DEF Clean, NoTx, Locals
  <2>3. OnPath(r) /\ Begun(r) /\ Unwritten(r)
    BY <2>1, <2>2 DEF OnPath, Ends, Begun, Unwritten
  <2> QED
    BY <2>1, <2>3 DEF CallOK, Creating, Replacing, Path, Merging, Doubtful
<1> QED
  BY <1>1, <1>2, <1>3 DEF IInv

(* A step of one request: framed, and in order for that request and the    *)
(* tables.                                                                 *)
LEMMA StepOK ==
  ASSUME IInv, NEW r \in Requests, Step(r) \/ Settle(r) \/ CallFails(r)
  PROVE  Frame(r) /\ CallOK(r)' /\ TablesOK'
<1>1. TypeOK /\ TablesOK /\ CallOK(r)
  BY DEF IInv
<1>2. Local(r) => Frame(r) /\ TablesOK'
  BY <1>1, LocalIsFramed DEF Local, TablesOK, Reviewers
<1>3. CASE Begin(r, FirstStep[op[r].kind])
  <2>1. tx' = [tx EXCEPT ![r].began = clock + 1] /\ pc' = [pc EXCEPT ![r] = FirstStep[op[r].kind]]
    BY <1>3 DEF Begin
  <2>2. \A q \in Requests \ {r} : tx'[q] = tx[q] /\ pc'[q] = pc[q]
    BY <1>1, <2>1, Zenon DEF TypeOK
  <2>3. Local(r)
    BY <1>3, <2>2 DEF Begin, Local
  <2> QED
    BY <1>1, <1>2, <1>3, <2>3, BeginOK
<1>4. CASE PRStep(r)
  BY <1>1, <1>2, <1>4, PRStepIsLocal, PRStepOK
<1>5. CASE UserStep(r)
  BY <1>1, <1>2, <1>5, UserStepOK
<1>6. CASE Commit(r)
  BY <1>1, <1>6, CommitShape, EndTxOK DEF Commit
<1>7. CASE Rollback(r) \/ ServerAborts(r)
  BY <1>1, <1>7, EndTxOK DEF Rollback, ServerAborts
<1>8. CASE ServerCommits(r)
  <2>1. Shape(r)
    BY <1>1, <1>8 DEF ServerCommits, CallOK, Doubtful
  <2> QED
    BY <1>1, <1>8, <2>1, EndTxOK DEF ServerCommits
<1>9. CASE CallFails(r)
  BY <1>1, <1>2, <1>9, CallFailsOK
<1> QED
  BY <1>3, <1>4, <1>5, <1>6, <1>7, <1>8, <1>9 DEF Step, Settle

(* What an added team leaves alone, and all that CallOK speaks of. *)
calls == <<prs, pr_reviewers, prLock, userLock, tx, clock, op, pc, err, mem>>

(* Every step keeps the invariant. *)
LEMMA NextOK ==
  ASSUME IInv, [Next]_vars
  PROVE  IInv'
<1>1. TypeOK /\ TablesOK /\ \A r \in Requests : CallOK(r)
  BY DEF IInv
<1>2. ASSUME NEW r \in Requests, Step(r) \/ Settle(r) \/ CallFails(r)
      PROVE  IInv'
  <2>1. TypeOK'
    BY <1>1, <1>2, StepType
  <2>2. Frame(r) /\ CallOK(r)' /\ TablesOK'
    BY <1>2, StepOK
  <2>3. \A q \in Requests \ {r} : CallOK(q)'
    BY <1>1, <2>2, FrameKeepsCall
  <2> QED
    BY <2>1, <2>2, <2>3 DEF IInv
<1>3. ASSUME UNCHANGED calls, TypeOK'
      PROVE  IInv'
  <2>2. TablesOK'
    BY <1>1, <1>3 DEF calls, TablesOK, Reviewers
  <2>3. ASSUME NEW r \in Requests PROVE CallOK(r)'
    <3>1. CallOK(r)
      BY <1>1
    <3>2. OnPath(r)' /\ Begun(r)' /\ Unwritten(r)' /\ Creating(r)'
      BY <1>3, <3>1 DEF calls, CallOK, OnPath, Begun, Unwritten, Clean, Creating, Is
    <3>3. Row(r)' = Row(r) /\ Assigned(r)' = Assigned(r)
      BY <1>3 DEF calls, Row, Assigned
    <3>4. Replacing(r)'
      BY <1>3, <3>1, <3>3 DEF calls, CallOK, Replacing, Is, Reviewers
    <3>5. Merging(r)'
      BY <1>3, <3>1, <3>3 DEF calls, CallOK, Merging, Is, Reviewers
    <3>6. Doubtful(r)'
      BY <1>3, <3>1 DEF calls, CallOK, Doubtful, Shape, Clean, Creation, Replacement, Merger,
         Reviewers
    <3> QED
      BY <3>2, <3>4, <3>5, <3>6 DEF CallOK
  <2> QED
    BY <1>3, <2>2, <2>3 DEF IInv
<1>4. CASE UNCHANGED vars
  BY <1>1, <1>3, <1>4 DEF vars, calls, TypeOK
<1>5. ASSUME NEW new \in NewTeams, TeamAdded(new)
      PROVE  IInv'
  BY <1>1, <1>3, <1>5, TeamAddedType DEF TeamAdded, calls
<1> QED
  BY <1>2, <1>4, <1>5 DEF Next

(* What every call has read, chosen, locked and written is at each of its  *)
(* steps as the code's comments and tests assume, in every interleaving.   *)
THEOREM Invariance == Spec => []IInv
<1>1. Init => IInv
  BY InitOK
<1>2. IInv /\ [Next]_vars => IInv'
  BY NextOK
<1> QED
  BY <1>1, <1>2, PTL DEF Spec

(* No variable of the service or of the database ever leaves its type; in  *)
(* particular the loop over the chosen reviewers stays inside its slice.   *)
THEOREM TypeCorrect == Spec => []TypeOK
<1>1. IInv => TypeOK
  BY DEF IInv
<1> QED
  BY <1>1, Invariance, PTL

(* What a call that holds a pull request has read is still so. *)
LEMMA RememberedOK == IInv => RememberedIsCurrent
<1> SUFFICES ASSUME IInv, NEW r \in Requests, Holding(r)
             PROVE  /\ mem[r].row = Row(r)
                    /\ pc[r] = "commit" => Range(mem[r].reviewers) = Reviewers(Assigned(r))
                    /\ Is(r, "ReassignReviewer") /\ pc[r] \notin {"reviewers", "commit"} =>
                         Range(mem[r].reviewers) = Reviewers(pr_reviewers[op[r].pr])
  BY DEF RememberedIsCurrent
<1> DEFINE p == op[r].pr
<1>1. TypeOK /\ TablesOK /\ CallOK(r) /\ p \in PRs
  BY DEF IInv, TypeOK, Calls
<1>2. CASE Is(r, "ReassignReviewer")
  BY <1>1, <1>2 DEF Holding, CallOK, Replacing, Path, Row, Is
<1>3. CASE Is(r, "MergePR")
  <2>1. /\ mem[r].row = Row(r) /\ tx[r].added = {} /\ tx[r].removed = {}
        /\ pc[r] = "commit" => Range(mem[r].reviewers) = Reviewers(pr_reviewers[p])
    BY <1>1, <1>3 DEF Holding, CallOK, Merging, Is
  <2>2. Reviewers(Assigned(r)) = Reviewers(pr_reviewers[p])
    BY <2>1 DEF Assigned, Reviewers
  <2> QED
    BY <1>3, <2>1, <2>2 DEF Is
<1>4. CASE Is(r, "CreatePR")
  <2>1. /\ prs[p] = NoPR /\ mem[r].row = tx[r].row /\ tx[r].row = Fresh(op[r].user)
        /\ mem[r].reviewers = mem[r].selected /\ tx[r].removed = {}
        /\ pc[r] = "commit" => tx[r].added = Range(mem[r].selected)
    BY <1>1, <1>4 DEF Holding, CallOK, Creating, Is
  <2>2. mem[r].row = Row(r)
    BY <2>1 DEF Row, Fresh, NoPR
  <2>3. Reviewers(pr_reviewers[p]) = {} /\ tx[r].began > 0 /\ tx[r].added \subseteq Users
    <3>1. prs[p].status = "NONE"
      BY <2>1 DEF NoPR
    <3>2. Reviewers(pr_reviewers[p]) = {}
      BY <1>1, <3>1 DEF TablesOK
    <3>3. pc[r] \notin {"begin", "done"}
      BY <1>4 DEF Holding, Is
    <3> QED
      BY <1>1, <3>2, <3>3 DEF CallOK, Begun, TypeOK
  <2>4. Reviewers(Assigned(r)) = tx[r].added
    BY <2>1, <2>3 DEF Reviewers, Assigned
  <2> QED
    BY <1>4, <2>1, <2>2, <2>4 DEF Is
<1> QED
  BY <1>2, <1>3, <1>4 DEF Holding

(* A call that works on a pull request decides from what is still in the   *)
(* tables, and answers what it commits.                                    *)
THEOREM Remembered == Spec => []RememberedIsCurrent
BY RememberedOK, Invariance, PTL

(* Only a transaction with one of the three shapes is ever published.      *)
LEMMA PublishedShape ==
  ASSUME IInv, NEW r \in Requests, Publish(r), Commit(r) \/ ServerCommits(r)
  PROVE  Shape(r)
BY CommitShape DEF IInv, Commit, ServerCommits, CallOK, Doubtful

(* The tables of pull requests change by the end of a transaction only.    *)
LEMMA OnlyPublished ==
  ASSUME IInv, [Next]_vars
  PROVE  \/ prs' = prs /\ pr_reviewers' = pr_reviewers
         \/ \E r \in Requests : Publish(r) /\ Shape(r) /\ tx[r].began > 0
<1>1. ASSUME NEW r \in Requests, Step(r) \/ Settle(r) \/ CallFails(r)
      PROVE  \/ prs' = prs /\ pr_reviewers' = pr_reviewers
             \/ Publish(r) /\ Shape(r) /\ tx[r].began > 0
  <2>1. TypeOK /\ CallOK(r)
    BY DEF IInv
  <2>2. CASE Begin(r, FirstStep[op[r].kind])
    BY <2>2 DEF Begin
  <2>3. CASE PRStep(r) \/ UserStep(r)
    BY <2>1, <2>3, PRStepIsLocal, UserStepOK DEF Local
  <2>4. CASE Commit(r) \/ ServerCommits(r)
    <3>1. Publish(r) /\ pc[r] \in {"commit", "orphanCommit"}
      BY <2>4 DEF Commit, ServerCommits
    <3>2. tx[r].began > 0
      BY <2>1, <3>1 DEF CallOK, Begun
    <3> QED
      BY <2>4, <3>1, <3>2, PublishedShape
  <2>5. CASE Rollback(r) \/ ServerAborts(r)
    BY <2>5 DEF Rollback, ServerAborts, Discard
  <2>6. CASE CallFails(r)
    BY <2>6 DEF CallFails
  <2> QED
    BY <1>1, <2>2, <2>3, <2>4, <2>5, <2>6 DEF Step, Settle
<1>2. CASE UNCHANGED vars
  BY <1>2 DEF vars
<1>3. CASE \E new \in NewTeams : TeamAdded(new)
  BY <1>3 DEF TeamAdded
<1> QED
  BY <1>1, <1>2, <1>3 DEF Next

(* What becomes of a pull request: it stays, its author stays, and once    *)
(* merged all of it stays.                                                 *)
LEMMA RowsStay ==
  ASSUME IInv, [Next]_vars, NEW p \in PRs
  PROVE  /\ prs[p].status # "NONE" => prs'[p].status # "NONE" /\ prs'[p].author = prs[p].author
         /\ prs[p].status = "MERGED" => prs'[p] = prs[p] /\ pr_reviewers'[p] = pr_reviewers[p]
<1>1. TypeOK /\ TablesOK
  BY DEF IInv
<1>2. ASSUME NEW r \in Requests, Publish(r), Shape(r)
      PROVE  /\ prs[p].status # "NONE" =>
                  prs'[p].status # "NONE" /\ prs'[p].author = prs[p].author
             /\ prs[p].status = "MERGED" =>
                  prs'[p] = prs[p] /\ pr_reviewers'[p] = pr_reviewers[p]
  <2>1. CASE p # op[r].pr
    BY <1>1, <1>2, <2>1 DEF Publish, TypeOK
  <2>2. CASE p = op[r].pr
    <3>1. prs'[p] = Row(r) /\ pr_reviewers'[p] = Assigned(r)
      BY <1>1, <1>2, <2>2 DEF Publish, TypeOK
    <3>2. CASE Clean(r)
      BY <1>1, <2>2, <3>1, <3>2, CleanView
    <3>3. CASE Creation(r)
      BY <2>2, <3>3 DEF Creation, NoPR
    <3>4. CASE Replacement(r)
      BY <2>2, <3>1, <3>4 DEF Replacement, Row
    <3>5. CASE Merger(r)
      <4>1. prs[p] \in PRRows
        BY <1>1 DEF TypeOK
      <4>2. Merged(prs[p], r).status = "MERGED" /\ Merged(prs[p], r).author = prs[p].author
        BY <4>1 DEF Merged, PRRows
      <4>3. Row(r) = Merged(prs[p], r)
        BY <2>2, <3>5, <4>2 DEF Merger, Row, NoPR
      <4> QED
        BY <2>2, <3>1, <3>5, <4>2, <4>3 DEF Merger
    <3> QED
      BY <1>2, <3>2, <3>3, <3>4, <3>5 DEF Shape
  <2> QED
    BY <2>1, <2>2
<1> QED
  BY <1>2, OnlyPublished

(* A merged pull request never changes again, whatever was in progress     *)
(* when it was merged and whatever is repeated later.                      *)
THEOREM MergedStays == Spec => MergedIsFinal
<1> DEFINE Final == \A p \in PRs : prs[p].status = "MERGED" =>
                      /\ prs'[p] = prs[p]
                      /\ pr_reviewers'[p] = pr_reviewers[p]
<1>1. IInv /\ [Next]_vars => [Final]_vars
  BY RowsStay
<1> QED
  BY <1>1, Invariance, PTL DEF Spec, MergedIsFinal
==============================================================================
