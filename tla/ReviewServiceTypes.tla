-------------------------- MODULE ReviewServiceTypes ---------------------------
(***************************************************************************)
(* Lemmas about ReviewService for any users, teams, pull requests,         *)
(* requests, workload, directory and pool size: what its operators return, *)
(* and that every action keeps the types of the variables.                 *)
(***************************************************************************)
EXTENDS ReviewInvariant, FiniteSetTheorems, TLAPS

(* The record of the Go variables of one call. *)
Mems == [row : PRRows, reviewers : Seq(Users), team : Teams \union {None},
         selected : Seq(Users), next : Nat]

Txs == [began : Nat, row : PRRows, added : SUBSET Users,
        removed : SUBSET Users, user : UserRows]

-----------------------------------------------------------------------------
(* Lemmas about the operators the model is built from.                     *)

(* Select returns sequences of candidates, no more than count. *)
LEMMA SelectIsSeq ==
  ASSUME NEW C, IsFiniteSet(C), NEW n \in Nat, NEW s \in Select(C, n)
  PROVE  /\ s \in Seq(C)
         /\ Len(s) <= n /\ Len(s) <= Cardinality(C)
         /\ IsInjective(s)
<1>1. Cardinality(C) \in Nat
  BY FS_CardinalityType
<1>2. PICK k \in Nat : /\ k <= n /\ k <= Cardinality(C)
                       /\ s \in [1 .. k -> C] /\ IsInjective(s)
  BY <1>1 DEF Select, Injection
<1> QED
  BY <1>2

(* The first element of a selection from a set that is not empty.          *)
LEMMA SelectOne ==
  ASSUME NEW C, IsFiniteSet(C), C # {}, NEW s \in Select(C, 1)
  PROVE  s \in Seq(C) /\ Len(s) = 1
<1>1. Cardinality(C) \in Nat /\ Cardinality(C) # 0
  BY FS_CardinalityType, FS_EmptySet
<1>2. /\ s \in Seq(C) /\ Len(s) <= 1
      /\ s \in [1 .. 1 -> C]
  BY <1>1, SelectIsSeq DEF Select, Injection
<1>3. 1 \in DOMAIN s
  BY <1>2
<1> QED
  BY <1>2, <1>3

(* LoadReviewers returns the reviewers, every one of them. *)
LEMMA LoadReviewersIsSeq ==
  ASSUME NEW r, NEW s \in LoadReviewers(r)
  PROVE  s \in Seq(Users) /\ Range(s) = Reviewers(Assigned(r))
<1> DEFINE ids == Reviewers(Assigned(r))
<1>1. IsFiniteSet(ids) /\ ids \subseteq Users
  BY FiniteAssumption, FS_Subset DEF Reviewers
<1>2. Cardinality(ids) \in Nat
  BY <1>1, FS_CardinalityType
<1>3. s \in [1 .. Cardinality(ids) -> ids] /\ \A t \in ids : \E i \in 1 .. Cardinality(ids) : s[i] = t
  BY DEF LoadReviewers, Surjection
<1>4. s \in Seq(Users)
  BY <1>1, <1>2, <1>3
<1>5. Range(s) = ids
  BY <1>2, <1>3 DEF Range
<1> QED
  BY <1>4, <1>5

(* A row as a transaction sees it is a row. *)
LEMMA RowType ==
  ASSUME TypeOK, NEW r \in Requests
  PROVE  Row(r) \in PRRows
<1>1. tx[r] \in Txs /\ op[r] \in Calls
  BY DEF TypeOK, Txs
<1> QED
  BY <1>1 DEF Row, TypeOK, Txs, Calls

(* The reviewers as a transaction sees them are instants, 0 for no row. *)
LEMMA AssignedType ==
  ASSUME TypeOK, NEW r \in Requests
  PROVE  Assigned(r) \in [Users -> Nat]
<1>1. tx[r] \in Txs /\ op[r] \in Calls
  BY DEF TypeOK, Txs
<1>2. pr_reviewers[op[r].pr] \in [Users -> Nat] /\ tx[r].began \in Nat
  BY <1>1 DEF TypeOK, Txs, Calls
<1> QED
  BY <1>2 DEF Assigned

-----------------------------------------------------------------------------
(* Type correctness, action by action.  Verdict and Goto set err and pc,   *)
(* the rest of an action the tables, the locks and the Go variables.       *)

Typed(r) == /\ err' \in [Requests -> Errors]
            /\ pc' \in [Requests -> Steps]

(* Verdict and Goto keep err and pc in their types. *)
LEMMA VerdictType ==
  ASSUME TypeOK, NEW r \in Requests, NEW e \in Errors, NEW l \in Steps, Verdict(r, e, l)
  PROVE  Typed(r)
BY DEF TypeOK, Verdict, Typed, Steps

(* The same for a step that cannot fail. *)
LEMMA GotoType ==
  ASSUME TypeOK, NEW r \in Requests, NEW l \in Steps, Goto(r, l)
  PROVE  Typed(r)
BY DEF TypeOK, Goto, Typed

(* A SELECT leaves only the Go variables to be checked. *)
LEMMA ReadOnlyType ==
  ASSUME TypeOK, NEW r \in Requests, ReadOnly, Typed(r), mem' \in [Requests -> Mems]
  PROVE  TypeOK'
BY DEF TypeOK, ReadOnly, Typed, Mems

(* Assignments to one field of one request's record. *)
LEMMA TxRowType ==
  ASSUME TypeOK, NEW r \in Requests, NEW w \in PRRows, tx' = [tx EXCEPT ![r].row = w]
  PROVE  tx' \in [Requests -> Txs]
<1>1. tx \in [Requests -> Txs]
  BY DEF TypeOK, Txs
<1>2. [tx[r] EXCEPT !.row = w] \in Txs
  BY <1>1 DEF Txs
<1>3. tx' = [tx EXCEPT ![r] = [tx[r] EXCEPT !.row = w]]
  BY <1>1
<1> QED
  BY <1>1, <1>2, <1>3

(* The row a call has read. *)
LEMMA MemRowType ==
  ASSUME TypeOK, NEW r \in Requests, NEW w \in PRRows, mem' = [mem EXCEPT ![r].row = w]
  PROVE  mem' \in [Requests -> Mems]
BY DEF TypeOK, Mems

(* The reviewers it has read. *)
LEMMA MemReviewersType ==
  ASSUME TypeOK, NEW r \in Requests, NEW s \in Seq(Users),
         mem' = [mem EXCEPT ![r].reviewers = s]
  PROVE  mem' \in [Requests -> Mems]
BY DEF TypeOK, Mems

(* The index of its loop. *)
LEMMA MemNextType ==
  ASSUME TypeOK, NEW r \in Requests, NEW n \in Nat, mem' = [mem EXCEPT ![r].next = n]
  PROVE  mem' \in [Requests -> Mems]
BY DEF TypeOK, Mems

(* The rows of pr_reviewers a transaction has inserted. *)
LEMMA TxAddedType ==
  ASSUME TypeOK, NEW r \in Requests, NEW A \in SUBSET Users, tx' = [tx EXCEPT ![r].added = A]
  PROVE  tx' \in [Requests -> Txs]
<1>1. tx \in [Requests -> Txs]
  BY DEF TypeOK, Txs
<1>2. [tx[r] EXCEPT !.added = A] \in Txs
  BY <1>1 DEF Txs
<1>3. tx' = [tx EXCEPT ![r] = [tx[r] EXCEPT !.added = A]]
  BY <1>1
<1> QED
  BY <1>1, <1>2, <1>3

(* Everything a transaction has written. *)
LEMMA TxValueType ==
  ASSUME TypeOK, NEW r \in Requests, NEW t \in Txs, tx' = [tx EXCEPT ![r] = t]
  PROVE  tx' \in [Requests -> Txs]
BY DEF TypeOK, Txs

(* The instant it began. *)
LEMMA TxBeganType ==
  ASSUME TypeOK, NEW r \in Requests, NEW n \in Nat, tx' = [tx EXCEPT ![r].began = n]
  PROVE  tx' \in [Requests -> Txs]
<1>1. tx \in [Requests -> Txs]
  BY DEF TypeOK, Txs
<1>2. [tx[r] EXCEPT !.began = n] \in Txs
  BY <1>1 DEF Txs
<1>3. tx' = [tx EXCEPT ![r] = [tx[r] EXCEPT !.began = n]]
  BY <1>1
<1> QED
  BY <1>1, <1>2, <1>3

(* The is_active it has written. *)
LEMMA TxUserType ==
  ASSUME TypeOK, NEW r \in Requests, NEW s \in UserRows, tx' = [tx EXCEPT ![r].user = s]
  PROVE  tx' \in [Requests -> Txs]
<1>1. tx \in [Requests -> Txs]
  BY DEF TypeOK, Txs
<1>2. [tx[r] EXCEPT !.user = s] \in Txs
  BY <1>1 DEF Txs
<1>3. tx' = [tx EXCEPT ![r] = [tx[r] EXCEPT !.user = s]]
  BY <1>1
<1> QED
  BY <1>1, <1>2, <1>3

(* CreatePR looks its author up. *)
LEMMA FindAuthorType ==
  ASSUME TypeOK, NEW r \in Requests, FindAuthor(r)
  PROVE  TypeOK'
<1>1. Typed(r)
  BY VerdictType DEF FindAuthor, GetUserByID, Errors, Steps
<1>2. mem' \in [Requests -> Mems]
  BY DEF FindAuthor, GetUserByID, TypeOK, Mems
<1> QED
  BY <1>1, <1>2, ReadOnlyType DEF FindAuthor, GetUserByID

(* A team of the author is looked up. *)
LEMMA FindTeamType ==
  ASSUME TypeOK, NEW r \in Requests, FindTeam(r)
  PROVE  TypeOK'
<1>1. Typed(r)
  BY VerdictType DEF FindTeam, GetTeamIDByUserID, Errors, Steps
<1>2. mem' \in [Requests -> Mems]
  <2>1. PICK t \in Teams \union {None} : mem' = [mem EXCEPT ![r].team = t]
    BY Zenon DEF FindTeam, GetTeamIDByUserID
  <2> QED
    BY <2>1 DEF TypeOK, Mems
<1> QED
  BY <1>1, <1>2, ReadOnlyType DEF FindTeam, GetTeamIDByUserID

(* The active members of a team, and what is left of them after the        *)
(* exclusions, are finitely many users.                                    *)
LEMMA ListActiveType ==
  ASSUME NEW t
  PROVE  /\ ListActiveMembersByTeamID(t) \subseteq Users
         /\ \A X : /\ FilterStrings(ListActiveMembersByTeamID(t), X) \subseteq Users
                   /\ IsFiniteSet(FilterStrings(ListActiveMembersByTeamID(t), X))
<1>1. ListActiveMembersByTeamID(t) \subseteq Users
  BY DEF ListActiveMembersByTeamID
<1>2. ASSUME NEW X
      PROVE  /\ FilterStrings(ListActiveMembersByTeamID(t), X) \subseteq Users
             /\ IsFiniteSet(FilterStrings(ListActiveMembersByTeamID(t), X))
  BY <1>1, FiniteAssumption, FS_Subset DEF FilterStrings
<1> QED
  BY <1>1, <1>2

(* CreatePR chooses reviewers. *)
LEMMA ChooseReviewersType ==
  ASSUME TypeOK, NEW r \in Requests, ChooseReviewers(r)
  PROVE  TypeOK'
<1>1. Typed(r)
  BY GotoType DEF ChooseReviewers, Steps
<1>2. mem' \in [Requests -> Mems]
  <2> DEFINE pool == FilterStrings(ListActiveMembersByTeamID(mem[r].team), {op[r].user})
  <2>1. PICK s \in Select(pool, 2) : mem' = [mem EXCEPT ![r].selected = s, ![r].reviewers = s]
    BY DEF ChooseReviewers
  <2>2. s \in Seq(Users)
    BY SelectIsSeq, ListActiveType
  <2>3. ASSUME NEW v \in Mems
        PROVE  [v EXCEPT !.selected = s, !.reviewers = s] \in Mems
    BY <2>2, <2>3 DEF Mems
  <2>4. mem \in [Requests -> Mems]
    BY DEF TypeOK, Mems
  <2>5. mem' = [mem EXCEPT ![r] = [mem[r] EXCEPT !.selected = s, !.reviewers = s]]
    BY <2>1, <2>4
  <2> HIDE DEF Mems
  <2> QED
    BY <2>3, <2>4, <2>5
<1> QED
  BY <1>1, <1>2, ReadOnlyType DEF ChooseReviewers

(* CreatePR inserts its row. *)
LEMMA InsertRowType ==
  ASSUME TypeOK, NEW r \in Requests, InsertRow(r)
  PROVE  TypeOK'
<1> DEFINE row == [author |-> op[r].user, status |-> "OPEN", merged_at |-> None]
<1>1. Typed(r)
  BY VerdictType DEF InsertRow, InsertPR, Errors, Steps
<1>2. op[r].user \in Users /\ op[r].pr \in PRs /\ row \in PRRows
  BY DEF TypeOK, Calls, PRRows
<1>3. tx' = tx \/ tx' = [tx EXCEPT ![r].row = row]
  BY DEF InsertRow, InsertPR
<1>4. mem' = mem \/ mem' = [mem EXCEPT ![r].row = row]
  BY DEF InsertRow, InsertPR
<1>5. prLock' = prLock \/ prLock' = [prLock EXCEPT ![op[r].pr] = r]
  BY DEF InsertRow, InsertPR
<1>6. UNCHANGED <<users, team_members, prs, pr_reviewers, clock, op, userLock>>
  BY DEF InsertRow, InsertPR, Private
<1>7. tx' \in [Requests -> Txs]
  BY <1>2, <1>3, TxRowType DEF TypeOK, Txs
<1>8. mem' \in [Requests -> Mems]
  BY <1>2, <1>4, MemRowType DEF TypeOK, Mems
<1>9. prLock' \in [PRs -> Requests \union {None}]
  BY <1>2, <1>5 DEF TypeOK
<1> QED
  BY <1>1, <1>6, <1>7, <1>8, <1>9 DEF TypeOK, Typed, Txs, Mems

(* AddReviewer counts the reviewers. *)
LEMMA CountAssignedType ==
  ASSUME TypeOK, NEW r \in Requests, CountAssigned(r)
  PROVE  TypeOK'
<1>1. Typed(r)
  BY VerdictType DEF CountAssigned, CountReviewersByPRID, Errors, Steps
<1>2. mem' \in [Requests -> Mems]
  BY DEF CountAssigned, CountReviewersByPRID, TypeOK, Mems
<1> QED
  BY <1>1, <1>2, ReadOnlyType DEF CountAssigned, CountReviewersByPRID

(* The loop over the selected reviewers stays inside the slice. *)
LEMMA NextSelected ==
  ASSUME TypeOK, NEW r \in Requests, CallOK(r), pc[r] = "assign"
  PROVE  /\ mem[r].next \in 1 .. Len(mem[r].selected)
         /\ mem[r].selected[mem[r].next] \in Users
<1>1. op[r].kind \in Kinds /\ mem[r] \in Mems
  BY DEF TypeOK, Calls, Mems
<1>2. Is(r, "CreatePR") \/ Is(r, "ReassignReviewer")
  BY <1>1 DEF CallOK, OnPath, Path, Ends, Kinds, Is
<1>3. mem[r].next \in 1 .. Len(mem[r].selected)
  BY <1>2 DEF CallOK, Creating, Replacing, Path
<1> QED
  BY <1>1, <1>3 DEF Mems

(* AddReviewer inserts a reviewer, who is a user because the index is      *)
(* inside the slice.                                                       *)
LEMMA AssignNextType ==
  ASSUME TypeOK, NEW r \in Requests, CallOK(r), AssignNext(r)
  PROVE  TypeOK'
<1> DEFINE u == mem[r].selected[mem[r].next]
<1>1. Typed(r)
  BY VerdictType DEF AssignNext, AddReviewer, Errors, Steps
<1>2. u \in Users
  BY NextSelected DEF AssignNext, At
<1>3. mem' = mem \/ mem' = [mem EXCEPT ![r].next = @ + 1]
  BY DEF AssignNext
<1>4. mem' \in [Requests -> Mems]
  <2>1. mem[r].next + 1 \in Nat /\ mem \in [Requests -> Mems]
    BY DEF TypeOK, Mems
  <2> QED
    BY <1>3, <2>1, MemNextType
<1>5. tx' = tx \/ tx' = [tx EXCEPT ![r].added = @ \union {u}]
  BY DEF AssignNext, AddReviewer
<1>6. tx' \in [Requests -> Txs]
  <2>1. tx[r].added \union {u} \in SUBSET Users /\ tx \in [Requests -> Txs]
    BY <1>2 DEF TypeOK, Txs
  <2> QED
    BY <1>5, <2>1, TxAddedType
<1>7. UNCHANGED <<users, team_members, prs, pr_reviewers, clock, op, prLock, userLock>>
  BY DEF AssignNext, AddReviewer, Private
<1> QED
  BY <1>1, <1>4, <1>6, <1>7 DEF TypeOK, Typed, Txs, Mems

(* LockPRByID locks and reads the row. *)
LEMMA LockRowType ==
  ASSUME TypeOK, NEW r \in Requests, LockRow(r)
  PROVE  TypeOK'
<1>1. Typed(r)
  BY VerdictType DEF LockRow, SelectPRForUpdate, Errors, Steps
<1>2. op[r].pr \in PRs /\ prs[op[r].pr] \in PRRows
  BY DEF TypeOK, Calls
<1>3. mem' \in [Requests -> Mems]
  BY <1>2, MemRowType DEF LockRow, SelectPRForUpdate
<1>4. prLock' = prLock \/ prLock' = [prLock EXCEPT ![op[r].pr] = r]
  BY DEF LockRow, SelectPRForUpdate
<1>5. UNCHANGED <<users, team_members, prs, pr_reviewers, clock, op, tx, userLock>>
  BY DEF LockRow, SelectPRForUpdate, Private
<1> QED
  BY <1>1, <1>2, <1>3, <1>4, <1>5 DEF TypeOK, Typed, Mems

(* The steps whose only effect, besides err and pc, is to load reviewers. *)
LEMMA LoadsType ==
  ASSUME TypeOK, NEW r \in Requests,
         MergeLoadsReviewers(r) \/ ReassignLoadsReviewers(r) \/ ReloadReviewers(r)
  PROVE  TypeOK'
<1>1. PICK s \in LoadReviewers(r) : mem' = [mem EXCEPT ![r].reviewers = s]
  BY DEF MergeLoadsReviewers, ReassignLoadsReviewers, ReloadReviewers
<1>2. mem' \in [Requests -> Mems]
  BY <1>1, LoadReviewersIsSeq, MemReviewersType
<1>3. Typed(r)
  <2>1. CASE MergeLoadsReviewers(r)
    BY <2>1, GotoType DEF MergeLoadsReviewers, Steps
  <2>2. CASE ReassignLoadsReviewers(r)
    BY <2>2, VerdictType DEF ReassignLoadsReviewers, Errors, Steps
  <2>3. CASE ReloadReviewers(r)
    BY <2>3, GotoType DEF ReloadReviewers, Steps
  <2> QED
    BY <2>1, <2>2, <2>3
<1>4. ReadOnly
  BY DEF MergeLoadsReviewers, ReassignLoadsReviewers, ReloadReviewers
<1> QED
  BY <1>2, <1>3, <1>4, ReadOnlyType

(* ReassignReviewer chooses a replacement. *)
LEMMA ChooseReplacementType ==
  ASSUME TypeOK, NEW r \in Requests, ChooseReplacement(r)
  PROVE  TypeOK'
<1> DEFINE pool == FilterStrings(ListActiveMembersByTeamID(mem[r].team),
                                 {mem[r].row.author} \union Range(mem[r].reviewers))
<1>1. PICK s \in Select(pool, 1) : mem' = [mem EXCEPT ![r].selected = s]
  BY DEF ChooseReplacement
<1>2. s \in Seq(Users)
  BY SelectIsSeq, ListActiveType
<1>3. mem' \in [Requests -> Mems]
  BY <1>1, <1>2 DEF TypeOK, Mems
<1>4. Typed(r)
  BY VerdictType DEF ChooseReplacement, Errors, Steps
<1> QED
  BY <1>3, <1>4, ReadOnlyType DEF ChooseReplacement

(* RemoveReviewer deletes a row. *)
LEMMA RemoveOldType ==
  ASSUME TypeOK, NEW r \in Requests, RemoveOld(r)
  PROVE  TypeOK'
<1>1. Typed(r)
  BY VerdictType DEF RemoveOld, RemoveReviewer, Errors, Steps
<1>2. op[r].user \in Users
  BY DEF TypeOK, Calls
<1>3. tx' = tx \/ tx' = [tx EXCEPT ![r] = Deleted(tx[r], op[r].user)]
  BY DEF RemoveOld, RemoveReviewer
<1>4. tx' \in [Requests -> Txs]
  <2>1. tx \in [Requests -> Txs]
    BY DEF TypeOK, Txs
  <2>2. tx[r].added \ {op[r].user} \in SUBSET Users /\ tx[r].removed \union {op[r].user} \in SUBSET Users
    BY <1>2, <2>1 DEF Txs
  <2>3. Deleted(tx[r], op[r].user) \in Txs
    BY <2>1, <2>2 DEF Txs, Deleted
  <2> QED
    BY <1>3, <2>1, <2>3, TxValueType
<1>5. UNCHANGED <<users, team_members, prs, pr_reviewers, clock, op, prLock, userLock, mem>>
  BY DEF RemoveOld, RemoveReviewer, Private
<1> QED
  BY <1>1, <1>4, <1>5 DEF TypeOK, Typed, Txs

(* UpdateStatus writes MERGED. *)
LEMMA SetMergedType ==
  ASSUME TypeOK, NEW r \in Requests, SetMerged(r)
  PROVE  TypeOK'
<1> DEFINE row == [Row(r) EXCEPT !.status = "MERGED", !.merged_at = r]
<1>1. Typed(r)
  BY VerdictType DEF SetMerged, UpdateStatus, Errors, Steps
<1>2. op[r].pr \in PRs /\ row \in PRRows
  BY RowType DEF TypeOK, Calls, PRRows
<1>3. tx' = tx \/ tx' = [tx EXCEPT ![r].row = row]
  BY DEF SetMerged, UpdateStatus
<1>4. tx' \in [Requests -> Txs]
  BY <1>2, <1>3, TxRowType DEF TypeOK, Txs
<1>5. mem' \in [Requests -> Mems]
  <2> DEFINE w == [mem[r].row EXCEPT !.status = "MERGED", !.merged_at = r]
  <2> mem[r].row \in PRRows
    BY DEF TypeOK
  <2>1. w \in PRRows
    BY DEF PRRows
  <2>2. mem' = [mem EXCEPT ![r].row = w]
    BY Zenon DEF SetMerged
  <2> HIDE DEF w
  <2> QED
    BY <2>1, <2>2, MemRowType
<1>6. prLock' = prLock \/ prLock' = [prLock EXCEPT ![op[r].pr] = r]
  BY DEF SetMerged, UpdateStatus
<1>7. UNCHANGED <<users, team_members, prs, pr_reviewers, clock, op, userLock>>
  BY DEF SetMerged, UpdateStatus, Private
<1> QED
  BY <1>1, <1>2, <1>4, <1>5, <1>6, <1>7 DEF TypeOK, Typed, Txs, Mems

(* GetPRByID reads the row. *)
LEMMA ReloadType ==
  ASSUME TypeOK, NEW r \in Requests, Reload(r)
  PROVE  TypeOK'
<1>1. Typed(r)
  BY VerdictType DEF Reload, SelectPR, Errors, Steps
<1>2. mem' \in [Requests -> Mems]
  BY RowType, MemRowType DEF Reload, SelectPR
<1> QED
  BY <1>1, <1>2, ReadOnlyType DEF Reload, SelectPR

(* Both statements of UpdateUserActive. *)
LEMMA UserStepType ==
  ASSUME TypeOK, NEW r \in Requests, UserStep(r)
  PROVE  TypeOK'
<1>1. CASE FindUser(r)
  <2>1. Typed(r)
    BY <1>1, VerdictType DEF FindUser, GetUserByID, Errors, Steps
  <2>2. mem' \in [Requests -> Mems]
    BY <1>1 DEF FindUser, GetUserByID, TypeOK, Mems
  <2> QED
    BY <1>1, <2>1, <2>2, ReadOnlyType DEF FindUser, GetUserByID
<1>2. CASE SetActive(r)
  <2>1. Typed(r)
    BY <1>2, VerdictType DEF SetActive, UpdateUserActive, Errors, Steps
  <2>2. op[r].user \in Users
    BY DEF TypeOK, Calls
  <2>3. tx' = tx \/ \E s \in UserRows : tx' = [tx EXCEPT ![r].user = s]
    BY <1>2 DEF SetActive, UpdateUserActive, UserRows
  <2>4. tx' \in [Requests -> Txs]
    BY <2>3, TxUserType DEF TypeOK, Txs
  <2>5. userLock' = userLock \/ userLock' = [userLock EXCEPT ![op[r].user] = r]
    BY <1>2 DEF SetActive, UpdateUserActive
  <2>6. UNCHANGED <<users, team_members, prs, pr_reviewers, clock, op, prLock, mem>>
    BY <1>2 DEF SetActive, UpdateUserActive, Private
  <2>7. userLock' \in [Users -> Requests \union {None}]
    BY <2>2, <2>5 DEF TypeOK
  <2> QED
    BY <2>1, <2>4, <2>6, <2>7 DEF TypeOK, Typed, Txs
<1> QED
  BY <1>1, <1>2 DEF UserStep

(* A transaction begins. *)
LEMMA BeginType ==
  ASSUME TypeOK, NEW r \in Requests, Begin(r, FirstStep[op[r].kind])
  PROVE  TypeOK'
<1>1. op[r].kind \in Kinds
  BY DEF TypeOK, Calls
<1>2. FirstStep[op[r].kind] \in Steps
  BY <1>1 DEF FirstStep, Kinds, Steps
<1>3. clock' \in Nat
  BY DEF Begin, TypeOK
<1>4. tx' \in [Requests -> Txs]
  <2>1. clock + 1 \in Nat /\ tx' = [tx EXCEPT ![r].began = clock + 1]
    BY DEF Begin, TypeOK
  <2> QED
    BY <2>1, TxBeganType
<1>5. pc' \in [Requests -> Steps]
  BY <1>2 DEF Begin, TypeOK
<1>6. UNCHANGED <<users, team_members, prs, pr_reviewers, prLock, userLock, op, err, mem>>
  BY DEF Begin
<1> QED
  BY <1>3, <1>4, <1>5, <1>6 DEF TypeOK, Txs

(* A transaction ends, with or without its writes. *)
LEMMA EndTxType ==
  ASSUME TypeOK, NEW r \in Requests, EndTx(r), Publish(r) \/ Discard
  PROVE  TypeOK'
<1>1. op[r].pr \in PRs /\ op[r].user \in Users /\ tx[r] \in Txs
  BY DEF TypeOK, Txs, Calls
<1>2. users' \in [Users -> UserRows]
  BY <1>1 DEF Publish, Discard, TypeOK, Txs
<1>3. prs' \in [PRs -> PRRows]
  <2>1. prs \in [PRs -> PRRows] /\ Row(r) \in PRRows
    BY RowType DEF TypeOK
  <2>2. prs' = prs \/ prs' = [prs EXCEPT ![op[r].pr] = Row(r)]
    BY DEF Publish, Discard
  <2> QED
    BY <2>1, <2>2
<1>4. pr_reviewers' \in [PRs -> [Users -> Nat]]
  <2>1. pr_reviewers \in [PRs -> [Users -> Nat]] /\ Assigned(r) \in [Users -> Nat]
    BY AssignedType DEF TypeOK
  <2>2. pr_reviewers' = pr_reviewers \/ pr_reviewers' = [pr_reviewers EXCEPT ![op[r].pr] = Assigned(r)]
    BY DEF Publish, Discard
  <2> QED
    BY <2>1, <2>2
<1>5. /\ prLock' \in [PRs -> Requests \union {None}]
      /\ userLock' \in [Users -> Requests \union {None}]
  BY DEF EndTx, Released, TypeOK
<1>6. tx' \in [Requests -> Txs]
  <2> DEFINE t == [NoTx EXCEPT !.began = tx[r].began]
  <2>1. NoTx \in Txs
    BY DEF NoTx, Txs, NoPR, PRRows, UserRows
  <2>2. t \in Txs
    BY <1>1, <2>1 DEF Txs
  <2>3. tx' = [tx EXCEPT ![r] = t]
    BY DEF EndTx
  <2> HIDE DEF t
  <2> QED
    BY <2>2, <2>3, TxValueType
<1>7. mem' \in [Requests -> Mems]
  <2>1. Locals \in Mems
    BY DEF Locals, Mems, NoPR, PRRows
  <2>2. mem' = [mem EXCEPT ![r] = IF err[r] = "nil" THEN @ ELSE Locals]
    BY DEF EndTx
  <2>3. mem \in [Requests -> Mems]
    BY DEF TypeOK, Mems
  <2> QED
    BY <2>1, <2>2, <2>3
<1>8. pc' \in [Requests -> Steps]
  BY DEF EndTx, TypeOK, Steps
<1>9. UNCHANGED <<team_members, clock, op, err>>
  BY DEF EndTx
<1> QED
  BY <1>2, <1>3, <1>4, <1>5, <1>6, <1>7, <1>8, <1>9 DEF TypeOK, Txs, Mems

(* A call breaks off. *)
LEMMA CallFailsType ==
  ASSUME TypeOK, NEW r \in Requests, CallFails(r)
  PROVE  TypeOK'
<1>1. err' \in [Requests -> Errors]
  BY DEF CallFails, TypeOK, Errors
<1>2. pc' \in [Requests -> Steps]
  BY DEF CallFails, TypeOK, Steps
<1>3. mem' \in [Requests -> Mems]
  <2>1. Locals \in Mems
    BY DEF Locals, Mems, NoPR, PRRows
  <2>2. mem' = [mem EXCEPT ![r] = IF err'[r] = "nil" THEN @ ELSE Locals]
    BY DEF CallFails
  <2>3. mem \in [Requests -> Mems]
    BY DEF TypeOK, Mems
  <2> QED
    BY <2>1, <2>2, <2>3
<1>4. UNCHANGED <<users, team_members, prs, pr_reviewers, prLock, userLock, tx, clock, op>>
  BY DEF CallFails
<1> QED
  BY <1>1, <1>2, <1>3, <1>4 DEF TypeOK, Txs, Mems

(* A team is added. *)
LEMMA TeamAddedType ==
  ASSUME TypeOK, NEW new \in NewTeams, TeamAdded(new)
  PROVE  TypeOK'
<1>1. /\ new.team \in Teams /\ new.members \subseteq Users
      /\ new.state \in [Users -> UserRows]
  BY NewTeamsAssumption DEF UserRows
<1>2. users' \in [Users -> UserRows] /\ team_members' \in SUBSET (Teams \X Users)
  BY <1>1 DEF TeamAdded, Shared!AddTeam, TypeOK
<1>3. UNCHANGED <<prs, pr_reviewers, prLock, userLock, tx, clock, op, pc, err, mem>>
  BY DEF TeamAdded
<1> QED
  BY <1>2, <1>3 DEF TypeOK

(* The types of the initial state. *)
LEMMA InitType == Init => TypeOK
<1> SUFFICES ASSUME Init PROVE TypeOK
  OBVIOUS
<1>1. users \in [Users -> UserRows] /\ team_members \in SUBSET (Teams \X Users)
  BY DirectoryAssumption DEF Init
<1>2. prs \in [PRs -> PRRows]
  BY DEF Init, PRRows, NoPR
<1>3. pr_reviewers \in [PRs -> [Users -> Nat]]
  BY DEF Init
<1>4. /\ prLock \in [PRs -> Requests \union {None}]
      /\ userLock \in [Users -> Requests \union {None}]
      /\ clock \in Nat
  BY DEF Init
<1>5. tx \in [Requests -> Txs]
  BY DEF Init, Txs, NoTx, NoPR, PRRows, UserRows
<1>6. op \in [Requests -> Calls]
  BY WorkloadAssumption DEF Init
<1>7. pc \in [Requests -> Steps] /\ err \in [Requests -> Errors]
  BY DEF Init, Steps, Errors
<1>8. mem \in [Requests -> Mems]
  BY DEF Init, Locals, Mems, NoPR, PRRows
<1> QED
  BY <1>1, <1>2, <1>3, <1>4, <1>5, <1>6, <1>7, <1>8 DEF TypeOK, Txs, Mems

(* A step of the calls and of the server, given CallOK for the index of    *)
(* the loop over the reviewers.                                            *)
LEMMA StepType ==
  ASSUME TypeOK, NEW r \in Requests, CallOK(r),
         Step(r) \/ Settle(r) \/ CallFails(r)
  PROVE  TypeOK'
<1>1. CASE Begin(r, FirstStep[op[r].kind])
  BY <1>1, BeginType
<1>2. CASE PRStep(r)
  BY <1>2, FindAuthorType, FindTeamType, ChooseReviewersType, InsertRowType,
     CountAssignedType, AssignNextType, LockRowType, LoadsType,
     ChooseReplacementType, RemoveOldType, SetMergedType, ReloadType DEF PRStep
<1>3. CASE UserStep(r)
  BY <1>3, UserStepType
<1>4. CASE Commit(r) \/ Rollback(r) \/ Settle(r)
  BY <1>4, EndTxType DEF Commit, Rollback, Settle, ServerAborts, ServerCommits
<1>5. CASE CallFails(r)
  BY <1>5, CallFailsType
<1> QED
  BY <1>1, <1>2, <1>3, <1>4, <1>5 DEF Step
==============================================================================
