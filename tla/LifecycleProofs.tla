---------------------------- MODULE LifecycleProofs ----------------------------
(***************************************************************************)
(* ReviewService implements the life cycle of PullRequests: the step that  *)
(* makes a transaction's writes visible maps to Create, Replace or Merge,  *)
(* every other step to a stutter.                                          *)
(* Then the invariants over IInv, one for each question that IInv does not *)
(* answer: what the calls that have ended told their clients (AnswersInv), *)
(* which errors they may meet (ErrorsInv), on whom those in progress have  *)
(* decided and what they show the other half (EligibleInv), what the       *)
(* handlers are given (GivenInv), who has put the reviewers there          *)
(* (DatesInv), and who keeps whom waiting (LocksInv), from which it        *)
(* follows that no call is ever stuck.                                     *)
(***************************************************************************)
EXTENDS ReviewServiceProofs, ReviewProgress

(* The refinement mapping of Lifecycle for the set of reviewers.           *)
Staffing == [p \in PRs |-> Reviewers(pr_reviewers[p])]

(* The instance has its own copy of FiniteSets; it means the same. *)
LEMMA SameCardinality == \A R : Lifecycle!Cardinality(R) = Cardinality(R)
  BY DEF Cardinality, Lifecycle!Cardinality

(* What an earlier creation left behind is a possible staff.               *)
LEMMA EarlierIsStaff ==
  ASSUME NEW assigned, NEW a \in Users, Earlier(assigned, a)
  PROVE  Reviewers(assigned) \in Lifecycle!Staff(a)
<1>1. PICK t \in Teams :
        \E s \in Select(FilterStrings(ListActiveMembersByTeamID(t), {a}), 2) :
          assigned = [u \in Users |-> IF ContainsString(s, u) THEN 1 ELSE 0]
  BY DEF Earlier
<1> DEFINE pool == FilterStrings(ListActiveMembersByTeamID(t), {a})
<1>2. PICK s \in Select(pool, 2) :
        assigned = [u \in Users |-> IF ContainsString(s, u) THEN 1 ELSE 0]
  BY <1>1
<1>3. pool \subseteq Users \ {a} /\ IsFiniteSet(pool)
  BY ListActiveType DEF FilterStrings
<1>4. s \in Seq(pool) /\ Len(s) <= 2
  BY <1>3, SelectIsSeq
<1> HIDE DEF pool
<1>5. Range(s) \subseteq pool /\ Cardinality(Range(s)) <= 2
  BY <1>4, RangeOfTwo DEF Range
<1>6. Reviewers(assigned) = Range(s)
  BY <1>2, <1>3, <1>5 DEF Reviewers, ContainsString
<1> QED
  BY <1>3, <1>5, <1>6, SameCardinality DEF Lifecycle!Staff

(* Initial states map to initial states. *)
LEMMA InitRefines == Init => Lifecycle!Init
<1> SUFFICES ASSUME Init PROVE Lifecycle!Init
  OBVIOUS
<1>1. prs \in [PRs -> {Lifecycle!Unborn} \union {Lifecycle!Fresh(u) : u \in Users}]
  BY DEF Init, NoPR, Lifecycle!Unborn, Lifecycle!Fresh
<1>2. Staffing \in [PRs -> SUBSET Users]
  BY DEF Staffing, Reviewers
<1>3. ASSUME NEW p \in PRs
      PROVE  IF prs[p] = Lifecycle!Unborn THEN Staffing[p] = {}
             ELSE Staffing[p] \in Lifecycle!Staff(prs[p].author)
  <2>1. CASE prs[p] = NoPR
    BY <2>1 DEF Init, Staffing, NoPR, Lifecycle!Unborn
  <2>2. CASE prs[p] # NoPR
    <3>1. p \in Existing /\ Earlier(pr_reviewers[p], prs[p].author)
      BY <2>2 DEF Init
    <3>2. prs[p].author \in Users
      <4>1. PICK u \in Users : prs[p] = [author |-> u, status |-> "OPEN", merged_at |-> None]
        BY <2>2 DEF Init
      <4> QED
        BY <4>1
    <3> QED
      BY <2>2, <3>1, <3>2, EarlierIsStaff DEF Staffing, NoPR, Lifecycle!Unborn
  <2> QED
    BY <2>1, <2>2
<1> QED
  BY <1>1, <1>2, <1>3 DEF Lifecycle!Init, Staffing

(* What a published transaction does to the pull request it works on.      *)
LEMMA PublishRefines ==
  ASSUME IInv, NEW r \in Requests, Publish(r), Shape(r), tx[r].began > 0
  PROVE  Lifecycle!Next \/ UNCHANGED Lifecycle!vars
<1> DEFINE p == op[r].pr
           current == Reviewers(pr_reviewers[p])
<1>1. TypeOK /\ TablesOK /\ p \in PRs /\ op[r].user \in Users
  BY DEF IInv, TypeOK, Calls
<1>2. prs' = [prs EXCEPT ![p] = Row(r)]
  BY DEF Publish
<1>3. Staffing' = [Staffing EXCEPT ![p] = Reviewers(Assigned(r))]
  BY <1>1 DEF Publish, Staffing, TypeOK, Reviewers
<1>4. Reviewers(Assigned(r)) = (current \ tx[r].removed) \union tx[r].added
  <2>1. tx[r].added \subseteq Users
    BY <1>1 DEF TypeOK
  <2> QED
    BY <2>1 DEF Reviewers, Assigned
<1>5. CASE Clean(r)
  <2>1. Row(r) = prs[p] /\ Reviewers(Assigned(r)) = current
    BY <1>1, <1>5, CleanView
  <2>2. prs' = prs /\ Staffing' = Staffing
    BY <1>1, <1>2, <1>3, <2>1 DEF TypeOK, Staffing
  <2> QED
    BY <2>2 DEF Lifecycle!vars, Staffing
<1>6. CASE Creation(r)
  <2>1. prs[p] = NoPR /\ current = {} /\ Row(r) = Fresh(op[r].user)
    BY <1>1, <1>6 DEF Creation, TablesOK, NoPR, Row, Fresh
  <2>2. Reviewers(Assigned(r)) = tx[r].added /\ tx[r].added \in Lifecycle!Staff(op[r].user)
    BY <1>4, <1>6, <2>1, SameCardinality DEF Creation, Lifecycle!Staff
  <2>3. Lifecycle!Create(p, op[r].user)
    BY <1>2, <1>3, <2>1, <2>2
       DEF Lifecycle!Create, Lifecycle!Unborn, Lifecycle!Fresh, NoPR, Fresh, Staffing
  <2> QED
    BY <1>1, <2>2, <2>3 DEF Lifecycle!Next
<1>7. CASE Replacement(r)
  <2>1. PICK new \in Users \ (current \union {prs[p].author}) : tx[r].added = {new}
    BY <1>7 DEF Replacement
  <2>2. prs[p].status = "OPEN" /\ op[r].user \in current /\ Row(r) = prs[p]
    BY <1>7 DEF Replacement, Row
  <2>3. Reviewers(Assigned(r)) = (current \ {op[r].user}) \union {new}
    BY <1>4, <1>7, <2>1 DEF Replacement
  <2>4. prs' = prs
    BY <1>1, <1>2, <2>2 DEF TypeOK
  <2>5. Staffing[p] = current
    BY <1>1 DEF Staffing
  <2>6. Lifecycle!Replace(p, op[r].user)
    BY <1>3, <2>1, <2>2, <2>3, <2>4, <2>5 DEF Lifecycle!Replace, Staffing
  <2> QED
    BY <1>1, <2>1, <2>6 DEF Lifecycle!Next
<1>8. CASE Merger(r)
  <2>1. prs[p].status = "OPEN" /\ tx[r].row = Merged(prs[p], r)
    BY <1>8 DEF Merger
  <2>2. Row(r) = Merged(prs[p], r)
    <3>1. prs[p] \in PRRows
      BY <1>1 DEF TypeOK
    <3>2. Merged(prs[p], r).status = "MERGED"
      BY <3>1 DEF Merged, PRRows
    <3> QED
      BY <2>1, <3>2 DEF Row, NoPR
  <2>3. Staffing' = Staffing
    BY <1>1, <1>3, <1>4, <1>8 DEF Merger, Staffing
  <2>4. prs' = [prs EXCEPT ![p].status = "MERGED", ![p].merged_at = r]
    BY <1>1, <1>2, <2>2 DEF Merged, TypeOK
  <2>5. Lifecycle!Merge(p, r)
    BY <2>1, <2>3, <2>4 DEF Lifecycle!Merge, Staffing
  <2> QED
    BY <1>1, <2>5 DEF Lifecycle!Next
<1> QED
  BY <1>5, <1>6, <1>7, <1>8 DEF Shape

(* Whatever runs at the same time and whichever calls fail or stay in      *)
(* doubt, what becomes visible is a creation, a one-for-one replacement or *)
(* a merge, each at one instant.                                           *)
THEOREM Refinement == Spec => ImplementsLifecycle
<1>1. Init => Lifecycle!Init
  BY InitRefines
<1>2. IInv /\ [Next]_vars => [Lifecycle!Next]_(Lifecycle!vars)
  <2> SUFFICES ASSUME IInv, [Next]_vars
               PROVE  Lifecycle!Next \/ UNCHANGED Lifecycle!vars
    OBVIOUS
  <2>1. CASE prs' = prs /\ pr_reviewers' = pr_reviewers
    BY <2>1 DEF Lifecycle!vars, Reviewers
  <2> QED
    BY <2>1, OnlyPublished, PublishRefines
<1> QED
  BY <1>1, <1>2, Invariance, PTL DEF Spec, ImplementsLifecycle, Lifecycle!Spec

-----------------------------------------------------------------------------
(* What calls have answered.                                               *)

(* A step of the request r. *)
Moves(r) == Step(r) \/ Settle(r) \/ CallFails(r)

(* A statement neither answers the client nor starts again, and only GetPR *)
(* goes to its Rollback without an error.                                  *)
Outcome(r) ==
  /\ \A q \in Requests \ {r} : err'[q] = err[q]
  /\ pc'[r] \notin {"begin", "done", "orphan", "orphanCommit"}
  /\ pc'[r] = "rollback" => err'[r] # "nil" \/ Is(r, "GetPR")

LEMMA VerdictOutcome ==
  ASSUME TypeOK, NEW r \in Requests, NEW e, NEW label \in Steps, Verdict(r, e, label),
         label \notin {"begin", "rollback", "done", "orphan", "orphanCommit"}
  PROVE  Outcome(r)
BY DEF Verdict, Outcome, TypeOK

LEMMA GotoOutcome ==
  ASSUME TypeOK, NEW r \in Requests, NEW label \in Steps, Goto(r, label),
         label \notin {"begin", "done", "orphan", "orphanCommit"},
         label = "rollback" => Is(r, "GetPR")
  PROVE  Outcome(r)
BY DEF Goto, Outcome, TypeOK

LEMMA StatementOutcome ==
  ASSUME TypeOK, NEW r \in Requests, PRStep(r) \/ UserStep(r)
  PROVE  Outcome(r)
<1>1. CASE FindAuthor(r) \/ FindTeam(r)
  BY <1>1, VerdictOutcome DEF FindAuthor, FindTeam, GetUserByID, GetTeamIDByUserID, Steps
<1>2. CASE ChooseReviewers(r)
  BY <1>2, GotoOutcome DEF ChooseReviewers, Steps
<1>3. CASE InsertRow(r)
  BY <1>3, VerdictOutcome DEF InsertRow, InsertPR, Steps
<1>4. CASE CountAssigned(r)
  BY <1>4, VerdictOutcome DEF CountAssigned, CountReviewersByPRID, Steps
<1>5. CASE AssignNext(r)
  <2>1. PICK label \in {"count", "commit", "reload"} :
          AddReviewer(r, mem[r].selected[mem[r].next], label)
    BY <1>5 DEF AssignNext
  <2> QED
    BY <2>1, VerdictOutcome DEF AddReviewer, Steps
<1>6. CASE LockRow(r) \/ Reload(r)
  BY <1>6, VerdictOutcome DEF LockRow, Reload, SelectPRForUpdate, SelectPR, Steps
<1>7. CASE MergeLoadsReviewers(r)
  BY <1>7, GotoOutcome DEF MergeLoadsReviewers, Steps
<1>8. CASE ReassignLoadsReviewers(r)
  BY <1>8, VerdictOutcome DEF ReassignLoadsReviewers, Steps
<1>9. CASE ChooseReplacement(r)
  BY <1>9, VerdictOutcome DEF ChooseReplacement, Steps
<1>10. CASE RemoveOld(r)
  BY <1>10, VerdictOutcome DEF RemoveOld, RemoveReviewer, Steps
<1>11. CASE SetMerged(r)
  BY <1>11, VerdictOutcome DEF SetMerged, UpdateStatus, Steps
<1>12. CASE ReloadReviewers(r)
  BY <1>12, GotoOutcome DEF ReloadReviewers, Steps
<1>13. CASE UserStep(r)
  BY <1>13, VerdictOutcome DEF UserStep, FindUser, SetActive, GetUserByID, UpdateUserActive, Steps
<1> QED
  BY <1>1, <1>2, <1>3, <1>4, <1>5, <1>6, <1>7, <1>8, <1>9, <1>10, <1>11, <1>12, <1>13 DEF PRStep

(* A step of r leaves the other requests where they are. *)
LEMMA OthersStay ==
  ASSUME IInv, NEW r \in Requests, Moves(r), NEW q \in Requests \ {r}
  PROVE  op' = op /\ pc'[q] = pc[q] /\ err'[q] = err[q] /\ mem'[q] = mem[q]
<1>1. op' = op /\ pc'[q] = pc[q] /\ mem'[q] = mem[q]
  BY StepOK DEF Moves, Frame
<1>2. err'[q] = err[q]
  <2>1. CASE PRStep(r) \/ UserStep(r)
    BY <2>1, StatementOutcome DEF IInv, Outcome
  <2>2. CASE Begin(r, FirstStep[op[r].kind])
    BY <2>2 DEF Begin
  <2>3. CASE Commit(r) \/ Rollback(r) \/ Settle(r)
    BY <2>3 DEF Commit, Rollback, Settle, ServerAborts, ServerCommits, EndTx
  <2>4. CASE CallFails(r)
    BY <2>4 DEF CallFails, IInv, TypeOK
  <2> QED
    BY <2>1, <2>2, <2>3, <2>4 DEF Moves, Step
<1> QED
  BY <1>1, <1>2

(* At a COMMIT the answer and what becomes visible are the same. *)
LEMMA CommittedAsAnswered ==
  ASSUME IInv, NEW r \in Requests, Commit(r), err[r] = "nil", ~Is(r, "UpdateUserActive")
  PROVE  /\ mem'[r] = mem[r] /\ mem[r].row = prs'[op[r].pr]
         /\ Range(mem[r].reviewers) = Reviewers(pr_reviewers[op[r].pr])'
<1>1. TypeOK /\ CallOK(r) /\ op[r].pr \in PRs
  BY DEF IInv, TypeOK, Calls
<1>2. op[r].kind \in {"CreatePR", "ReassignReviewer", "MergePR"}
  BY <1>1, KindAt DEF Commit, Kinds, Is
<1>3. /\ mem[r].row = Row(r)
      /\ Range(mem[r].reviewers) = Reviewers(Assigned(r))
  BY <1>2, RememberedOK DEF RememberedIsCurrent, Holding, Commit, Is
<1>4. prs'[op[r].pr] = Row(r) /\ pr_reviewers'[op[r].pr] = Assigned(r)
  BY <1>1 DEF Commit, Publish, TypeOK
<1>5. mem'[r] = mem[r] /\ op' = op
  BY DEF Commit, EndTx, IInv, TypeOK
<1> QED
  BY <1>3, <1>4, <1>5 DEF Reviewers

(* The part of AnswersInv that speaks of one request. *)
RequestOK(r) == Told(r) /\ NoRow(r) /\ FinalAnswer(r) /\ Created(r)

(* Nothing the others answered changes. *)
LEMMA FinalStays ==
  ASSUME IInv, [Next]_vars, NEW q \in Requests, FinalAnswer(q), op' = op, pc'[q] = pc[q],
         err'[q] = err[q], mem'[q] = mem[q]
  PROVE  FinalAnswer(q)'
<1>1. op[q].pr \in PRs
  BY DEF IInv, TypeOK, Calls
<1>2. prs[op[q].pr].status = "MERGED" =>
        prs'[op[q].pr] = prs[op[q].pr] /\ pr_reviewers'[op[q].pr] = pr_reviewers[op[q].pr]
  BY <1>1, RowsStay
<1> QED
  BY <1>2 DEF FinalAnswer, Answered, Is, Reviewers

(* The request that moves knows of its errors. *)
LEMMA ToldMoves ==
  ASSUME AnswersInv, NEW r \in Requests, Moves(r)
  PROVE  Told(r)' /\ NoRow(r)'
<1>1. TypeOK /\ CallOK(r) /\ Told(r) /\ NoRow(r)
  BY DEF AnswersInv, IInv
<1>2. op[r].kind \in Kinds
  BY <1>1, KindAt
<1>3. CASE Begin(r, FirstStep[op[r].kind])
  BY <1>1, <1>2, <1>3 DEF Begin, FirstStep, Kinds, Told, NoRow, Is, TypeOK
<1>4. CASE PRStep(r)
  <2>1. ~Is(r, "UpdateUserActive")
    BY <1>1, <1>4, KindAt DEF PRStep, FindAuthor, FindTeam, ChooseReviewers, InsertRow, At, Is,
       CountAssigned, AssignNext, LockRow, MergeLoadsReviewers, ReassignLoadsReviewers,
       ChooseReplacement, RemoveOld, SetMerged, Reload, ReloadReviewers
  <2>2. op' = op
    BY <1>1, <1>4, PRStepIsLocal DEF Local
  <2> QED
    BY <1>1, <1>4, <2>1, <2>2, StatementOutcome DEF Outcome, Told, NoRow, Is
<1>5. CASE UserStep(r)
  <2>1. op' = op /\ mem' = mem
    BY <1>5 DEF UserStep, FindUser, SetActive, GetUserByID, UpdateUserActive, ReadOnly, Private
  <2> QED
    BY <1>1, <1>5, <2>1, StatementOutcome DEF Outcome, Told, NoRow, Is
<1>6. CASE Commit(r) \/ Rollback(r) \/ Settle(r)
  BY <1>1, <1>6 DEF Commit, Rollback, Settle, ServerAborts, ServerCommits, EndTx, Told, NoRow, Is,
     TypeOK, Locals
<1>7. CASE CallFails(r)
  BY <1>1, <1>7 DEF CallFails, Told, NoRow, Is, TypeOK, Locals
<1> QED
  BY <1>3, <1>4, <1>5, <1>6, <1>7 DEF Moves, Step

(* The request that moves has answered what is final. *)
LEMMA FinalMoves ==
  ASSUME AnswersInv, NEW r \in Requests, Moves(r), [Next]_vars
  PROVE  FinalAnswer(r)'
<1> DEFINE p == op[r].pr
<1>1. TypeOK /\ CallOK(r) /\ Told(r) /\ NoRow(r) /\ FinalAnswer(r) /\ IInv /\ p \in PRs
  BY DEF AnswersInv, IInv, TypeOK, Calls
<1>2. op[r].kind \in Kinds /\ op' = op
  BY <1>1, KindAt, StepOK DEF Moves, Frame
<1>3. CASE Begin(r, FirstStep[op[r].kind])
  BY <1>1, <1>2, <1>3 DEF Begin, FirstStep, Kinds, FinalAnswer, Answered, Is, TypeOK
<1>4. CASE PRStep(r) \/ UserStep(r)
  <2>1. Outcome(r)
    BY <1>1, <1>4, StatementOutcome
  <2>2. CASE ~Is(r, "GetPR")
    BY <1>2, <2>1, <2>2 DEF Outcome, FinalAnswer, Answered, Is
  <2>3. CASE Is(r, "GetPR")
    <3>1. Reload(r) \/ ReloadReviewers(r)
      BY <1>1, <1>4, <2>3, KindAt DEF PRStep, FindAuthor, FindTeam, ChooseReviewers, InsertRow,
         CountAssigned, AssignNext, LockRow, MergeLoadsReviewers, ReassignLoadsReviewers, At, Is,
         ChooseReplacement, RemoveOld, SetMerged, UserStep, FindUser, SetActive
    <3>2. Row(r) = prs[p] /\ Assigned(r) = pr_reviewers[p]
      BY <1>1, <2>3, CleanView DEF CallOK, Unwritten
    <3>3. prs' = prs /\ pr_reviewers' = pr_reviewers
      BY <3>1 DEF Reload, ReloadReviewers, SelectPR, ReadOnly
    <3>4. CASE Reload(r)
      <4>1. mem'[r].row = prs[p] /\ (pc'[r] = "rollback" => err'[r] # "nil")
            /\ pc'[r] \in {"reloaded", "rollback"}
        BY <1>1, <3>2, <3>4 DEF Reload, SelectPR, Verdict, TypeOK
      <4> QED
        BY <1>2, <3>3, <4>1 DEF FinalAnswer, Answered, Is
    <3>5. CASE ReloadReviewers(r)
      <4>1. pc[r] = "reloaded" /\ err' = err
        BY <3>5 DEF ReloadReviewers, At, Goto
      <4>2. PICK s \in LoadReviewers(r) : mem' = [mem EXCEPT ![r].reviewers = s]
        BY <3>5 DEF ReloadReviewers
      <4>3. Range(s) = Reviewers(Assigned(r))
        BY <1>1, <4>2, LoadReviewersIsSeq
      <4>4. mem'[r].row = mem[r].row /\ mem'[r].reviewers = s
        BY <1>1, <4>2 DEF TypeOK
      <4> QED
        BY <1>1, <1>2, <2>3, <3>2, <3>3, <4>1, <4>3, <4>4
           DEF FinalAnswer, Answered, Is, Reviewers
    <3> QED
      BY <3>1, <3>4, <3>5
  <2> QED
    BY <2>2, <2>3
<1>5. CASE Commit(r)
  <2>1. CASE err[r] = "nil" /\ ~Is(r, "UpdateUserActive")
    BY <1>2, <1>5, <2>1, <1>1, CommittedAsAnswered DEF FinalAnswer, Reviewers
  <2>2. CASE err[r] # "nil" \/ Is(r, "UpdateUserActive")
    <3>1. err' = err /\ (Is(r, "UpdateUserActive") => NoRow(r)')
      BY <1>5, ToldMoves DEF Commit, EndTx, Moves, Step
    <3> QED
      BY <1>2, <2>2, <3>1 DEF FinalAnswer, NoRow, NoPR, Is
  <2> QED
    BY <2>1, <2>2
<1>6. CASE Rollback(r) \/ Settle(r)
  <2>1. err' = err /\ (err[r] = "nil" => mem'[r] = mem[r])
        /\ pc[r] \in {"rollback", "orphan", "orphanCommit"} /\ pc'[r] = "done"
    BY <1>1, <1>6 DEF Rollback, Settle, ServerAborts, ServerCommits, EndTx, TypeOK
  <2>2. CASE err[r] # "nil"
    BY <2>1, <2>2 DEF FinalAnswer
  <2>3. CASE err[r] = "nil"
    <3>1. Is(r, "GetPR")
      BY <1>1, <2>1, <2>3 DEF Told
    <3>2. prs[p].status = "MERGED" =>
            prs'[p] = prs[p] /\ pr_reviewers'[p] = pr_reviewers[p]
      BY <1>1, RowsStay
    <3> QED
      BY <1>1, <1>2, <2>1, <2>3, <3>1, <3>2 DEF FinalAnswer, Answered, Is, Reviewers
  <2> QED
    BY <2>2, <2>3
<1>7. CASE CallFails(r)
  <2>1. /\ err'[r] = (IF pc[r] = "rollback" THEN err[r] ELSE "ErrInternal")
        /\ err'[r] = "nil" => mem'[r] = mem[r]
        /\ prs' = prs /\ pr_reviewers' = pr_reviewers
    BY <1>1, <1>7 DEF CallFails, TypeOK
  <2>2. CASE err'[r] = "nil"
    <3>1. Is(r, "GetPR") /\ pc[r] = "rollback"
      BY <1>1, <2>1, <2>2 DEF Told
    <3> QED
      BY <1>1, <1>2, <2>1, <2>2, <3>1 DEF FinalAnswer, Answered, Is, Reviewers
  <2> QED
    BY <2>2 DEF FinalAnswer
<1> QED
  BY <1>3, <1>4, <1>5, <1>6, <1>7 DEF Moves, Step

(* A creation is answered when it has made the row. *)
LEMMA CreatesOnce ==
  ASSUME AnswersInv, NEW r \in Requests, Moves(r), [Next]_vars
  PROVE  \A q \in Requests : Created(q)'
<1>1. /\ TypeOK /\ IInv /\ op' = op
      /\ \A q \in Requests : op[q].pr \in PRs /\ Created(q) /\ Told(q)'
  <2>1. \A q \in Requests \ {r} : Told(q)'
    BY OthersStay DEF AnswersInv, Told, Is
  <2> QED
    BY <2>1, ToldMoves, StepOK DEF AnswersInv, IInv, TypeOK, Calls, Moves, Frame
<1>2. \A p \in PRs : prs[p].status # "NONE" =>
        prs'[p].status # "NONE" /\ prs'[p].author = prs[p].author
  BY <1>1, RowsStay
<1>3. \A q \in Requests \ {r} : HasCreated(q)' <=> HasCreated(q)
  BY <1>1, OthersStay DEF HasCreated, Answered, Is
<1>4. CASE HasCreated(r)' => HasCreated(r)
  BY <1>1, <1>2, <1>3, <1>4 DEF Created
<1>5. CASE HasCreated(r)' /\ ~HasCreated(r)
  <2>1. pc'[r] = "done" /\ err'[r] = "nil" /\ Is(r, "CreatePR")
    BY <1>1, <1>5 DEF HasCreated, Answered, Told, Is
  <2>2. CallOK(r) /\ op[r].kind \in Kinds /\ Told(r)
    BY <1>1, KindAt DEF AnswersInv, IInv
  <2>3. Commit(r)
    <3>1. CASE Begin(r, FirstStep[op[r].kind])
      BY <1>1, <2>1, <2>2, <3>1 DEF Begin, FirstStep, Kinds, TypeOK
    <3>2. CASE PRStep(r) \/ UserStep(r)
      BY <1>1, <2>1, <3>2, StatementOutcome DEF Outcome
    <3>3. CASE Rollback(r) \/ Settle(r)
      <4>1. err' = err /\ pc[r] \in {"rollback", "orphan", "orphanCommit"}
        BY <3>3 DEF Rollback, Settle, ServerAborts, ServerCommits, EndTx
      <4> QED
        BY <2>1, <2>2, <4>1 DEF Told, Is
    <3>4. CASE CallFails(r)
      <4>1. err'[r] = IF pc[r] = "rollback" THEN err[r] ELSE "ErrInternal"
        BY <1>1, <3>4 DEF CallFails, TypeOK
      <4> QED
        BY <2>1, <2>2, <4>1 DEF Told, Is
    <3> QED
      BY <3>1, <3>2, <3>3, <3>4 DEF Moves, Step
  <2>4. pc[r] = "commit" /\ prs[op[r].pr] = NoPR /\ tx[r].row = Fresh(op[r].user)
    BY <2>1, <2>2, <2>3 DEF Commit, CallOK, Creating
  <2>5. prs'[op[r].pr] = Fresh(op[r].user)
    BY <1>1, <2>3, <2>4 DEF Commit, Publish, Row, Fresh, NoPR, TypeOK
  <2>6. op[r].pr \notin Existing
    BY <1>1, <2>4 DEF AnswersInv, Born, NoPR
  <2>7. \A q \in Requests : HasCreated(q) => op[q].pr # op[r].pr
    BY <1>1, <2>4 DEF Created, NoPR
  <2>8. Created(r)'
    BY <1>1, <1>3, <2>5, <2>6, <2>7 DEF Created, Fresh
  <2>9. ASSUME NEW q \in Requests \ {r}
        PROVE  Created(q)'
    BY <1>1, <1>2, <1>3, <2>7 DEF Created
  <2> QED
    BY <2>8, <2>9
<1> QED
  BY <1>4, <1>5

(* Before anything is answered. *)
LEMMA AnswersInit == Init => AnswersInv
<1> SUFFICES ASSUME Init PROVE AnswersInv
  OBVIOUS
<1>1. IInv
  BY InitOK
<1>2. Born
  <2> SUFFICES ASSUME NEW p \in Existing \intersect PRs
               PROVE  prs[p].status # "NONE"
    BY DEF Born
  <2>1. prs[p] \in {NoPR} \union {[author |-> u, status |-> "OPEN", merged_at |-> None] : u \in Users}
    BY DEF Init
  <2>2. prs[p] # NoPR
    BY DEF Init
  <2> QED
    BY <2>1, <2>2
<1>3. ASSUME NEW r \in Requests
      PROVE  RequestOK(r)
  <2>1. pc[r] = "begin" /\ mem[r] = Locals
    BY DEF Init
  <2> QED
    BY <2>1 DEF RequestOK, Told, NoRow, FinalAnswer, Created, HasCreated, Answered, Locals
<1> QED
  BY <1>1, <1>2, <1>3 DEF AnswersInv, RequestOK

(* Every step keeps what was answered true. *)
LEMMA AnswersNext ==
  ASSUME AnswersInv, [Next]_vars
  PROVE  AnswersInv'
<1>1. IInv /\ IInv'
  BY NextOK DEF AnswersInv
<1>2. Born'
  BY <1>1, RowsStay DEF AnswersInv, Born
<1>3. ASSUME NEW r \in Requests, Moves(r)
      PROVE  \A q \in Requests : RequestOK(q)'
  <2>1. RequestOK(r)'
    BY <1>3, ToldMoves, FinalMoves, CreatesOnce DEF RequestOK
  <2>2. ASSUME NEW q \in Requests \ {r}
        PROVE  RequestOK(q)'
    <3>1. op' = op /\ pc'[q] = pc[q] /\ err'[q] = err[q] /\ mem'[q] = mem[q]
      BY <1>1, <1>3, OthersStay
    <3>2. Told(q)' /\ NoRow(q)'
      BY <3>1 DEF AnswersInv, Told, NoRow, Is
    <3>3. FinalAnswer(q)'
      BY <1>1, <3>1, FinalStays DEF AnswersInv
    <3> QED
      BY <1>3, <3>2, <3>3, CreatesOnce DEF RequestOK
  <2> QED
    BY <2>1, <2>2
<1>4. ASSUME UNCHANGED <<prs, pr_reviewers, op, pc, err, mem>>
      PROVE  \A q \in Requests : RequestOK(q)'
  BY <1>4 DEF AnswersInv, RequestOK, Told, NoRow, FinalAnswer, Created, HasCreated, Answered,
     Is, Reviewers
<1>5. \A q \in Requests : RequestOK(q)'
  BY <1>3, <1>4 DEF Next, Moves, TeamAdded, vars
<1> QED
  BY <1>1, <1>2, <1>5 DEF AnswersInv, RequestOK

(* The second layer holds throughout. *)
THEOREM AnswersInvariance == Spec => []AnswersInv
<1>1. Init => AnswersInv
  BY AnswersInit
<1>2. AnswersInv /\ [Next]_vars => AnswersInv'
  BY AnswersNext
<1> QED
  BY <1>1, <1>2, PTL DEF Spec

(* What a client was told of a merged pull request stays true, also when   *)
(* GetPR read it in two statements or the merge was repeated.              *)
THEOREM MergedAnswers == Spec => []MergedAnswersAreFinal
<1>1. AnswersInv => MergedAnswersAreFinal
  BY DEF AnswersInv, FinalAnswer, MergedAnswersAreFinal, Answered
<1> QED
  BY <1>1, AnswersInvariance, PTL

(* Of any number of creations of one pull request one succeeds at most,    *)
(* and the row is the one it answered with.                                *)
THEOREM CreationOnce == Spec => []CreatedOnce
<1>1. AnswersInv => CreatedOnce
  BY DEF AnswersInv, Created, HasCreated, CreatedOnce
<1> QED
  BY <1>1, AnswersInvariance, PTL

-----------------------------------------------------------------------------
(* The errors of calls.                                                    *)

(* What NoSpuriousError says of one request. *)
ErrorOK(r) ==
  /\ err[r] \notin {"ErrTooManyReviewers", "ErrReviewerAlreadyAssigned"}
  /\ Is(r, "MergePR") => err[r] # "ErrAlreadyMerged"
  /\ err[r] = "ErrReviewerNotAssigned" => op[r].user \notin Range(mem[r].reviewers)

(* No list of reviewers grows beyond two. *)
LEMMA FewStays ==
  ASSUME IInv, [Next]_vars, Few
  PROVE  Few'
<1>1. CASE prs' = prs /\ pr_reviewers' = pr_reviewers
  BY <1>1 DEF Few, Reviewers
<1>2. CASE Lifecycle!Next
  <2> SUFFICES ASSUME NEW p \in PRs
               PROVE  Cardinality(Staffing'[p]) <= 2
    BY DEF Few, Staffing
  <2>1. /\ Staffing[p] \subseteq Users /\ IsFiniteSet(Staffing[p])
        /\ Cardinality(Staffing[p]) <= 2
    BY FiniteAssumption, FS_Subset DEF Staffing, Reviewers, Few
  <2>2. ASSUME NEW q \in PRs, NEW u \in Users, Lifecycle!Create(q, u)
        PROVE  Cardinality(Staffing'[p]) <= 2
    <3>1. PICK R \in Lifecycle!Staff(u) : Staffing' = [Staffing EXCEPT ![q] = R]
      BY <2>2 DEF Lifecycle!Create, Staffing
    <3>3. Cardinality(R) <= 2
      BY <3>1, SameCardinality DEF Lifecycle!Staff
    <3>2. Staffing'[p] = IF p = q THEN R ELSE Staffing[p]
      BY <3>1 DEF Staffing
    <3> QED
      BY <2>1, <3>1, <3>2, <3>3
  <2>3. ASSUME NEW q \in PRs, NEW old \in Users, Lifecycle!Replace(q, old)
        PROVE  Cardinality(Staffing'[p]) <= 2
    <3>1. PICK new \in Users :
            /\ Staffing' = [Staffing EXCEPT ![q] = (Staffing[q] \ {old}) \union {new}]
            /\ old \in Staffing[q]
      BY <2>3 DEF Lifecycle!Replace, Staffing
    <3>2. Staffing'[p] = IF p = q THEN (Staffing[p] \ {old}) \union {new} ELSE Staffing[p]
      BY <3>1 DEF Staffing
    <3>3. CASE p = q
      <4>1. /\ IsFiniteSet(Staffing[p] \ {old})
            /\ Cardinality(Staffing[p] \ {old}) = Cardinality(Staffing[p]) - 1
        BY <2>1, <3>1, <3>3, FS_RemoveElement
      <4>2. Cardinality(Staffing[p]) \in Nat
        BY <2>1, FS_CardinalityType
      <4>3. Cardinality((Staffing[p] \ {old}) \union {new})
              = IF new \in Staffing[p] \ {old} THEN Cardinality(Staffing[p] \ {old})
                ELSE Cardinality(Staffing[p] \ {old}) + 1
        BY <4>1, FS_AddElement
      <4> QED
        BY <2>1, <3>2, <3>3, <4>1, <4>2, <4>3
    <3> QED
      BY <2>1, <3>2, <3>3
  <2>4. ASSUME NEW q \in PRs, NEW t, Lifecycle!Merge(q, t)
        PROVE  Cardinality(Staffing'[p]) <= 2
    <3>1. Staffing' = Staffing
      BY <2>4 DEF Lifecycle!Merge, Staffing
    <3> QED
      BY <2>1, <3>1
  <2> QED
    BY <1>2, <2>2, <2>3, <2>4 DEF Lifecycle!Next
<1>3. CASE UNCHANGED Lifecycle!vars
  <2>1. Staffing' = Staffing
    BY <1>3 DEF Lifecycle!vars, Staffing
  <2>2. ASSUME NEW p \in PRs
        PROVE  Reviewers(pr_reviewers'[p]) = Reviewers(pr_reviewers[p])
    BY <2>1, <2>2 DEF Staffing
  <2> QED
    BY <2>2 DEF Few, Reviewers
<1> QED
  BY <1>1, <1>2, <1>3, OnlyPublished, PublishRefines

(* CountReviewersByPRID finds room: CreatePR has inserted fewer than it    *)
(* selected, ReassignReviewer has removed one.                             *)
LEMMA RoomLeft ==
  ASSUME IInv, Few, NEW r \in Requests, pc[r] = "count"
  PROVE  Cardinality(Reviewers(Assigned(r))) < 2
<1> DEFINE p == op[r].pr
           current == Reviewers(pr_reviewers[p])
           n == mem[r].next
<1>1. TypeOK /\ CallOK(r) /\ TablesOK /\ p \in PRs /\ op[r].kind \in {"CreatePR", "ReassignReviewer"}
  BY KindAt DEF IInv, TypeOK, Calls
<1>2. Reviewers(Assigned(r)) = (current \ tx[r].removed) \union tx[r].added
  <2>1. tx[r].added \subseteq Users /\ tx[r].began > 0
    BY <1>1 DEF TypeOK, CallOK, Begun
  <2> QED
    BY <2>1 DEF Reviewers, Assigned
<1>3. IsFiniteSet(current) /\ Cardinality(current) \in Nat /\ Cardinality(current) <= 2
  BY <1>1, FiniteAssumption, FS_Subset, FS_CardinalityType DEF Reviewers, Few
<1>4. CASE Is(r, "CreatePR")
  <2>1. /\ mem[r].selected \in Seq(Users) /\ Len(mem[r].selected) <= 2
        /\ n \in 1 .. Len(mem[r].selected)
        /\ prs[p] = NoPR /\ tx[r].added = {mem[r].selected[i] : i \in 1 .. n - 1}
    BY <1>1, <1>4 DEF TypeOK, CallOK, Creating
  <2>2. current = {}
    BY <1>1, <2>1 DEF TablesOK, NoPR
  <2>3. tx[r].added = {} \/ tx[r].added = {mem[r].selected[1]}
    <3>1. n = 1 \/ n = 2
      BY <2>1
    <3>2. 1 .. 1 - 1 = {} /\ 1 .. 2 - 1 = {1}
      OBVIOUS
    <3> QED
      BY <2>1, <3>1, <3>2
  <2>4. Reviewers(Assigned(r)) = tx[r].added
    BY <1>2, <2>2
  <2>5. Cardinality({}) = 0 /\ Cardinality({mem[r].selected[1]}) = 1
    BY FS_EmptySet, FS_Singleton
  <2>6. Cardinality(Reviewers(Assigned(r))) = 0 \/ Cardinality(Reviewers(Assigned(r))) = 1
    BY <2>3, <2>4, <2>5, Zenon
  <2> QED
    BY <2>6
<1>5. CASE Is(r, "ReassignReviewer")
  <2>1. op[r].user \in current /\ tx[r].added = {} /\ tx[r].removed = {op[r].user}
    BY <1>1, <1>5 DEF CallOK, Replacing, Path
  <2>2. Cardinality(current \ {op[r].user}) = Cardinality(current) - 1
    BY <1>3, <2>1, FS_RemoveElement
  <2> QED
    BY <1>2, <1>3, <2>1, <2>2
<1> QED
  BY <1>1, <1>4, <1>5 DEF Is

(* AddReviewer inserts somebody who is not there.                          *)
LEMMA NotThereYet ==
  ASSUME IInv, NEW r \in Requests, pc[r] = "assign", Distinct(r)
  PROVE  Assigned(r)[mem[r].selected[mem[r].next]] = 0
<1> DEFINE p == op[r].pr
           n == mem[r].next
           u == mem[r].selected[n]
<1>1. TypeOK /\ CallOK(r) /\ TablesOK /\ p \in PRs /\ op[r].kind \in {"CreatePR", "ReassignReviewer"}
  BY KindAt DEF IInv, TypeOK, Calls
<1>2. u \in Users /\ n \in 1 .. Len(mem[r].selected) /\ mem[r].selected \in Seq(Users)
  BY <1>1, NextSelected DEF TypeOK
<1>3. u \notin tx[r].added /\ u \notin Reviewers(pr_reviewers[p])
  <2>1. CASE Is(r, "CreatePR")
    <3>1. /\ prs[p] = NoPR /\ tx[r].added = {mem[r].selected[i] : i \in 1 .. n - 1}
          /\ IsInjective(mem[r].selected)
      BY <1>1, <2>1 DEF CallOK, Creating, Distinct
    <3>2. \A i \in 1 .. n - 1 : i \in DOMAIN mem[r].selected /\ i # n
      BY <1>2
    <3>3. n \in DOMAIN mem[r].selected
      BY <1>2
    <3>4. \A i \in 1 .. n - 1 : mem[r].selected[i] # u
      BY <3>1, <3>2, <3>3 DEF IsInjective
    <3>5. Reviewers(pr_reviewers[p]) = {}
      BY <1>1, <3>1 DEF TablesOK, NoPR
    <3> QED
      BY <3>1, <3>4, <3>5
  <2>2. CASE Is(r, "ReassignReviewer")
    BY <1>1, <2>2 DEF CallOK, Replacing, Path
  <2> QED
    BY <1>1, <2>1, <2>2 DEF Is
<1> QED
  BY <1>2, <1>3 DEF Assigned, Reviewers

LEMMA VerdictErrors ==
  ASSUME TypeOK, NEW r \in Requests, NEW e, NEW label, Verdict(r, e, label), op' = op,
         e \notin {"ErrTooManyReviewers", "ErrReviewerAlreadyAssigned", "ErrReviewerNotAssigned"},
         Is(r, "MergePR") => e # "ErrAlreadyMerged"
  PROVE  ErrorOK(r)' /\ Quiet(r)'
<1>1. err'[r] = e /\ pc'[r] = IF e = "nil" THEN label ELSE "rollback"
  BY DEF Verdict, TypeOK
<1> QED
  BY <1>1 DEF ErrorOK, Quiet, Is

LEMMA GotoErrors ==
  ASSUME NEW r \in Requests, NEW label, Goto(r, label), err[r] = "nil"
  PROVE  ErrorOK(r)' /\ Quiet(r)'
<1>1. err'[r] = "nil"
  BY DEF Goto
<1> QED
  BY <1>1 DEF ErrorOK, Quiet, Is

(* The errors that NoSpuriousError excludes are those of tests whose       *)
(* answer the call already has.                                            *)
LEMMA StatementErrors ==
  ASSUME ErrorsInv, NEW r \in Requests, PRStep(r) \/ UserStep(r)
  PROVE  ErrorOK(r)' /\ Quiet(r)'
<1>1. TypeOK /\ CallOK(r) /\ IInv /\ Few /\ Distinct(r) /\ Quiet(r)
  BY DEF ErrorsInv, IInv
<1>2. CASE FindAuthor(r) \/ FindTeam(r)
  BY <1>1, <1>2, VerdictErrors DEF FindAuthor, FindTeam, GetUserByID, GetTeamIDByUserID, ReadOnly
<1>3. CASE ChooseReviewers(r) \/ MergeLoadsReviewers(r) \/ ReloadReviewers(r)
  BY <1>1, <1>3, GotoErrors DEF ChooseReviewers, MergeLoadsReviewers, ReloadReviewers, Quiet, At
<1>4. CASE InsertRow(r)
  BY <1>1, <1>4, VerdictErrors DEF InsertRow, InsertPR, Private
<1>5. CASE CountAssigned(r)
  <2>1. Cardinality(Reviewers(Assigned(r))) < 2
    BY <1>1, <1>5, RoomLeft DEF CountAssigned, At
  <2>2. Cardinality(Reviewers(Assigned(r))) \in Nat
    BY FiniteAssumption, FS_Subset, FS_CardinalityType DEF Reviewers
  <2>3. Verdict(r, "nil", "assign") /\ op' = op
    BY <1>5, <2>1, <2>2 DEF CountAssigned, CountReviewersByPRID, ReadOnly
  <2> QED
    BY <1>1, <2>3, VerdictErrors
<1>6. CASE AssignNext(r)
  <2>1. PICK label \in {"count", "commit", "reload"} :
          AddReviewer(r, mem[r].selected[mem[r].next], label)
    BY <1>6 DEF AssignNext
  <2>2. Assigned(r)[mem[r].selected[mem[r].next]] = 0
    BY <1>1, <1>6, NotThereYet DEF AssignNext, At
  <2> QED
    BY <1>1, <2>1, <2>2, VerdictErrors DEF AddReviewer, Private
<1>7. CASE LockRow(r) \/ Reload(r)
  BY <1>1, <1>7, VerdictErrors DEF LockRow, Reload, SelectPRForUpdate, SelectPR, Private, ReadOnly
<1>8. CASE ReassignLoadsReviewers(r)
  <2>1. PICK s \in LoadReviewers(r) :
          /\ mem' = [mem EXCEPT ![r].reviewers = s]
          /\ Verdict(r, IF mem[r].row.status = "MERGED" THEN "ErrAlreadyMerged"
                        ELSE IF ~ContainsString(s, op[r].user) THEN "ErrReviewerNotAssigned"
                        ELSE "nil", "team")
    BY <1>8 DEF ReassignLoadsReviewers
  <2>2. mem'[r].reviewers = s /\ op' = op /\ Is(r, "ReassignReviewer")
    BY <1>1, <1>8, <2>1 DEF TypeOK, ReassignLoadsReviewers, ReadOnly
  <2>3. /\ err'[r] \in {"nil", "ErrAlreadyMerged", "ErrReviewerNotAssigned"}
        /\ err'[r] = "ErrReviewerNotAssigned" => op[r].user \notin Range(s)
        /\ err'[r] # "nil" => pc'[r] = "rollback"
    BY <1>1, <2>1 DEF Verdict, TypeOK, ContainsString
  <2> QED
    BY <2>2, <2>3 DEF ErrorOK, Quiet, Is
<1>9. CASE ChooseReplacement(r)
  BY <1>1, <1>9, VerdictErrors DEF ChooseReplacement, ReadOnly
<1>10. CASE RemoveOld(r)
  <2>1. pc[r] = "remove" /\ Is(r, "ReassignReviewer") /\ op[r].user \in Users
    BY <1>1, <1>10, KindAt DEF RemoveOld, At, Is, TypeOK, Calls
  <2>2. Clean(r) /\ op[r].user \in Reviewers(pr_reviewers[op[r].pr])
    BY <1>1, <2>1 DEF CallOK, Unwritten, Replacing, Path
  <2>3. Assigned(r)[op[r].user] # 0
    BY <2>1, <2>2 DEF Assigned, Clean, Reviewers
  <2>4. Verdict(r, "nil", "count") /\ op' = op
    BY <1>10, <2>3 DEF RemoveOld, RemoveReviewer, Private
  <2> QED
    BY <1>1, <2>4, VerdictErrors
<1>11. CASE SetMerged(r)
  <2>1. pc[r] = "update" /\ Is(r, "MergePR")
    BY <1>1, <1>11, KindAt DEF SetMerged, At, Is
  <2>2. Clean(r) /\ prs[op[r].pr].status = "OPEN"
    BY <1>1, <2>1 DEF CallOK, Unwritten, Merging
  <2>3. Row(r) = prs[op[r].pr]
    BY <1>1, <2>2, CleanView
  <2>4. Verdict(r, "nil", "commit") /\ op' = op
    BY <1>11, <2>2, <2>3 DEF SetMerged, UpdateStatus, Private
  <2> QED
    BY <1>1, <2>4, VerdictErrors
<1>12. CASE UserStep(r)
  BY <1>1, <1>12, VerdictErrors
     DEF UserStep, FindUser, SetActive, GetUserByID, UpdateUserActive, ReadOnly, Private
<1> QED
  BY <1>2, <1>3, <1>4, <1>5, <1>6, <1>7, <1>8, <1>9, <1>10, <1>11, <1>12 DEF PRStep

(* The selector returns nobody twice, and the selection stays as it is. *)
LEMMA DistinctMoves ==
  ASSUME IInv, NEW r \in Requests, Moves(r), Distinct(r)
  PROVE  Distinct(r)'
<1>1. TypeOK /\ CallOK(r) /\ op' = op
  BY StepOK DEF IInv, Moves, Frame
<1>2. CASE ChooseReviewers(r)
  <2> DEFINE pool == FilterStrings(ListActiveMembersByTeamID(mem[r].team), {op[r].user})
  <2>1. PICK s \in Select(pool, 2) :
          mem' = [mem EXCEPT ![r].selected = s, ![r].reviewers = s]
    BY <1>2 DEF ChooseReviewers
  <2>2. IsFiniteSet(pool)
    BY <1>1, <1>2, ListActiveType
  <2>3. IsInjective(s)
    BY <2>2, SelectIsSeq
  <2>4. mem'[r].selected = s
    BY <1>1, <2>1 DEF TypeOK
  <2> QED
    BY <2>3, <2>4 DEF Distinct
<1>3. CASE /\ mem'[r].selected = mem[r].selected
           /\ pc'[r] \in {"insert", "count", "assign"} => pc[r] \in {"insert", "count", "assign"}
  BY <1>1, <1>3 DEF Distinct, Is
<1>4. CASE InsertRow(r) \/ CountAssigned(r) \/ AssignNext(r)
  <2>1. mem'[r].selected = mem[r].selected /\ pc[r] \in {"insert", "count", "assign"}
    BY <1>1, <1>4 DEF InsertRow, InsertPR, CountAssigned, CountReviewersByPRID, AssignNext, At,
       TypeOK
  <2> QED
    BY <1>3, <2>1
<1>5. CASE ~Is(r, "CreatePR")
  BY <1>1, <1>5 DEF Distinct, Is
<1>6. CASE Is(r, "CreatePR") /\ (Begin(r, FirstStep[op[r].kind]) \/ FindAuthor(r) \/ FindTeam(r)
           \/ Commit(r) \/ Rollback(r) \/ Settle(r) \/ CallFails(r))
  <2>1. pc'[r] \in {"author", "team", "candidates", "rollback", "done", "orphan", "orphanCommit"}
    BY <1>1, <1>6 DEF Begin, FirstStep, FindAuthor, FindTeam, GetUserByID, GetTeamIDByUserID,
       Verdict, Commit, Rollback, Settle, ServerAborts, ServerCommits, EndTx, CallFails, Is, TypeOK
  <2> QED
    BY <2>1 DEF Distinct
<1>7. CASE Is(r, "CreatePR") /\ (LockRow(r) \/ MergeLoadsReviewers(r) \/ ReassignLoadsReviewers(r)
           \/ ChooseReplacement(r) \/ RemoveOld(r) \/ SetMerged(r) \/ Reload(r)
           \/ ReloadReviewers(r) \/ UserStep(r))
  BY <1>1, <1>7, KindAt DEF LockRow, MergeLoadsReviewers, ReassignLoadsReviewers,
     ChooseReplacement, RemoveOld, SetMerged, Reload, ReloadReviewers, UserStep, FindUser,
     SetActive, At, Is
<1> QED
  BY <1>2, <1>4, <1>5, <1>6, <1>7 DEF Moves, Step, PRStep

(* What the request that moves returns. *)
LEMMA ErrorsMove ==
  ASSUME ErrorsInv, NEW r \in Requests, Moves(r)
  PROVE  ErrorOK(r)' /\ Quiet(r)'
<1>1. TypeOK /\ CallOK(r) /\ ErrorOK(r) /\ Quiet(r)
  BY DEF ErrorsInv, IInv, NoSpuriousError, ErrorOK
<1>2. CASE Begin(r, FirstStep[op[r].kind])
  BY <1>1, <1>2 DEF Begin, ErrorOK, Quiet, Is
<1>3. CASE PRStep(r) \/ UserStep(r)
  BY <1>3, StatementErrors
<1>4. CASE Commit(r) \/ Rollback(r) \/ Settle(r)
  <2>1. /\ err' = err /\ op' = op /\ pc'[r] = "done"
        /\ mem'[r] = IF err[r] = "nil" THEN mem[r] ELSE Locals
    BY <1>1, <1>4 DEF Commit, Rollback, Settle, ServerAborts, ServerCommits, EndTx, TypeOK
  <2> QED
    BY <1>1, <2>1 DEF ErrorOK, Quiet, Is, Locals, Range
<1>5. CASE CallFails(r)
  <2>1. /\ err'[r] = (IF pc[r] = "rollback" THEN err[r] ELSE "ErrInternal") /\ op' = op
        /\ pc'[r] \in {"done", "orphan", "orphanCommit"}
        /\ mem'[r] = IF err'[r] = "nil" THEN mem[r] ELSE Locals
    BY <1>1, <1>5 DEF CallFails, TypeOK
  <2> QED
    BY <1>1, <2>1 DEF ErrorOK, Quiet, Is, Locals, Range
<1> QED
  BY <1>2, <1>3, <1>4, <1>5 DEF Moves, Step

(* An earlier creation left two reviewers at most. *)
LEMMA ErrorsInit == Init => ErrorsInv
<1> SUFFICES ASSUME Init PROVE ErrorsInv
  OBVIOUS
<1>1. IInv
  BY InitOK
<1>2. Few
  <2> SUFFICES ASSUME NEW p \in PRs
               PROVE  Cardinality(Reviewers(pr_reviewers[p])) <= 2
    BY DEF Few
  <2>1. Staffing[p] = {} \/ \E u \in Users : Staffing[p] \in Lifecycle!Staff(u)
    BY InitRefines DEF Lifecycle!Init, Lifecycle!Unborn, Lifecycle!Fresh, Staffing
  <2>2. Cardinality(Staffing[p]) <= 2
    BY <2>1, SameCardinality, FS_EmptySet DEF Lifecycle!Staff
  <2> QED
    BY <2>2 DEF Staffing
<1>3. \A r \in Requests : Distinct(r) /\ Quiet(r) /\ ErrorOK(r)
  BY DEF Init, Distinct, Quiet, ErrorOK
<1> QED
  BY <1>1, <1>2, <1>3 DEF ErrorsInv, NoSpuriousError, ErrorOK

LEMMA ErrorsNext ==
  ASSUME ErrorsInv, [Next]_vars
  PROVE  ErrorsInv'
<1>1. IInv /\ IInv' /\ Few'
  BY NextOK, FewStays DEF ErrorsInv
<1>2. ASSUME NEW r \in Requests, Moves(r), NEW q \in Requests
      PROVE  Distinct(q)' /\ Quiet(q)' /\ ErrorOK(q)'
  <2>1. CASE q = r
    BY <1>1, <1>2, <2>1, DistinctMoves, ErrorsMove DEF ErrorsInv
  <2>2. CASE q # r
    <3>1. op' = op /\ pc'[q] = pc[q] /\ err'[q] = err[q] /\ mem'[q] = mem[q]
      BY <1>1, <1>2, <2>2, OthersStay
    <3> QED
      BY <3>1 DEF ErrorsInv, NoSpuriousError, Distinct, Quiet, ErrorOK, Is
  <2> QED
    BY <2>1, <2>2
<1>3. ASSUME UNCHANGED <<op, pc, err, mem>>, NEW q \in Requests
      PROVE  Distinct(q)' /\ Quiet(q)' /\ ErrorOK(q)'
  BY <1>3 DEF ErrorsInv, NoSpuriousError, Distinct, Quiet, ErrorOK, Is
<1>4. \A q \in Requests : Distinct(q)' /\ Quiet(q)' /\ ErrorOK(q)'
  BY <1>2, <1>3 DEF Next, Moves, TeamAdded, vars
<1> QED
  BY <1>1, <1>4 DEF ErrorsInv, NoSpuriousError, ErrorOK, Is

(* No call meets an error that its own tests have excluded, however many   *)
(* merges, reassignments and creations of one pull request run at once.    *)
THEOREM NoErrorIsSpurious == Spec => []NoSpuriousError
<1>1. Init => ErrorsInv
  BY ErrorsInit
<1>2. ErrorsInv /\ [Next]_vars => ErrorsInv'
  BY ErrorsNext
<1>3. ErrorsInv => NoSpuriousError
  BY DEF ErrorsInv
<1> QED
  BY <1>1, <1>2, <1>3, PTL DEF Spec

-----------------------------------------------------------------------------
(* Who becomes a reviewer.                                                 *)

(* Where is_active changes, somebody has asked for it.                     *)
LEMMA UsersChange ==
  ASSUME IInv, [Next]_vars
  PROVE  \/ users' = users /\ team_members' = team_members
         \/ team_members' = team_members /\ \E r \in Requests : Publish(r) /\ pc'[r] = "done"
         \/ \E new \in NewTeams : TeamAdded(new)
<1>1. ASSUME NEW r \in Requests, Moves(r)
      PROVE  /\ team_members' = team_members
             /\ users' # users => Publish(r) /\ pc'[r] = "done"
  <2>1. TypeOK
    BY DEF IInv
  <2>2. CASE Begin(r, FirstStep[op[r].kind]) \/ CallFails(r)
    BY <2>2 DEF Begin, CallFails
  <2>3. CASE Commit(r) \/ Rollback(r) \/ Settle(r)
    BY <2>1, <2>3 DEF Commit, Rollback, Settle, ServerAborts, ServerCommits, EndTx, Discard, TypeOK
  <2>4. CASE FindAuthor(r) \/ FindTeam(r) \/ ChooseReviewers(r) \/ InsertRow(r)
    BY <2>4 DEF FindAuthor, GetUserByID, FindTeam, GetTeamIDByUserID, ChooseReviewers,
       InsertRow, InsertPR, ReadOnly, Private
  <2>5. CASE CountAssigned(r) \/ AssignNext(r) \/ LockRow(r) \/ MergeLoadsReviewers(r)
    BY <2>5 DEF CountAssigned, CountReviewersByPRID, AssignNext, AddReviewer, LockRow,
       SelectPRForUpdate, MergeLoadsReviewers, ReadOnly, Private
  <2>6. CASE ReassignLoadsReviewers(r) \/ ChooseReplacement(r) \/ RemoveOld(r)
    BY <2>6 DEF ReassignLoadsReviewers, ChooseReplacement, RemoveOld, RemoveReviewer,
       ReadOnly, Private
  <2>7. CASE SetMerged(r) \/ Reload(r) \/ ReloadReviewers(r) \/ UserStep(r)
    BY <2>7 DEF SetMerged, UpdateStatus, Reload, SelectPR, ReloadReviewers, UserStep, FindUser,
       GetUserByID, SetActive, UpdateUserActive, ReadOnly, Private
  <2>8. CASE PRStep(r)
    BY <2>4, <2>5, <2>6, <2>7, <2>8 DEF PRStep
  <2> QED
    BY <1>1, <2>2, <2>3, <2>7, <2>8 DEF Moves, Step
<1> QED
  BY <1>1 DEF Next, Moves, vars

(* A request that has begun does not begin again. *)
LEMMA BegunStays ==
  ASSUME IInv, [Next]_vars, NEW q \in Requests, pc[q] # "begin"
  PROVE  pc'[q] # "begin"
<1>1. ASSUME NEW r \in Requests, Moves(r)
      PROVE  pc'[q] # "begin"
  <2>1. CASE q # r
    BY <1>1, <2>1, OthersStay
  <2>2. CASE PRStep(r) \/ UserStep(r)
    BY <2>1, <2>2, StatementOutcome DEF IInv, Outcome
  <2>3. CASE q = r /\ (Begin(r, FirstStep[op[r].kind]) \/ CallFails(r))
    BY <2>3 DEF Begin, CallFails, IInv, TypeOK
  <2>4. CASE q = r /\ (Commit(r) \/ Rollback(r) \/ Settle(r))
    BY <2>4 DEF Commit, Rollback, Settle, ServerAborts, ServerCommits, EndTx, IInv, TypeOK
  <2> QED
    BY <1>1, <2>1, <2>2, <2>3, <2>4 DEF Moves, Step
<1> QED
  BY <1>1 DEF Next, Moves, TeamAdded, vars

(* A user who is there stays. *)
LEMMA UsersStay ==
  ASSUME IInv, [Next]_vars, NEW u \in Users, users[u] # "absent"
  PROVE  users'[u] # "absent"
<1>1. TypeOK
  BY DEF IInv
<1>2. ASSUME NEW r \in Requests, Publish(r)
      PROVE  users'[u] # "absent"
  BY <1>1, <1>2 DEF Publish, TypeOK
<1>3. ASSUME NEW new \in NewTeams, TeamAdded(new)
      PROVE  users'[u] # "absent"
  <2>1. users'[u] \in {users[u], new.state[u]}
    BY <1>3 DEF TeamAdded, Shared!AddTeam
  <2>2. new.state[u] # "absent"
    BY NewTeamsAssumption
  <2> QED
    BY <2>1, <2>2
<1> QED
  BY <1>2, <1>3, UsersChange

(* Who may review for somebody may do so for ever. *)
LEMMA EligibleStays ==
  ASSUME EligibleInv, [Next]_vars, NEW u \in Users, NEW author, Eligible(u, author)
  PROVE  Eligible(u, author)'
<1>1. TypeOK /\ IInv /\ IInv'
  BY NextOK DEF EligibleInv, IInv
<1>2. team_members \subseteq team_members' /\ op' = op
  BY <1>1, UsersChange, StepOK DEF TeamAdded, Shared!AddTeam, Next, vars, Frame, Moves
<1>3. \A q \in Requests : pc[q] # "begin" => pc'[q] # "begin"
  BY <1>1, BegunStays
<1>4. CASE users[u] # "active"
  BY <1>2, <1>3, <1>4 DEF Eligible, Is
<1>5. CASE users[u] = "active" /\ users'[u] # "active"
  <2>1. CASE \E r \in Requests : Publish(r) /\ pc'[r] = "done"
    <3>1. PICK r \in Requests : Publish(r) /\ pc'[r] = "done"
      BY <2>1
    <3>2. users' = [users EXCEPT ![op[r].user] = IF tx[r].user = "absent" THEN @ ELSE tx[r].user]
      BY <3>1 DEF Publish
    <3>3. op[r].user = u /\ tx[r].user # "absent" /\ tx[r].user # "active"
      BY <1>1, <1>5, <3>2 DEF TypeOK
    <3>4. Is(r, "UpdateUserActive") /\ ~op[r].active
      BY <3>3 DEF EligibleInv, UserWrites
    <3> QED
      BY <1>2, <3>1, <3>3, <3>4 DEF Eligible, Is
  <2>2. CASE \E new \in NewTeams : TeamAdded(new)
    <3>1. PICK new \in NewTeams : TeamAdded(new)
      BY <2>2
    <3>2. u \in new.members /\ new.state[u] # "active"
      BY <1>5, <3>1 DEF TeamAdded, Shared!AddTeam
    <3>3. new.state[u] = "inactive"
      BY <3>2, NewTeamsAssumption
    <3>4. <<new.team, u>> \in team_members'
      BY <3>1, <3>2 DEF TeamAdded, Shared!AddTeam
    <3> QED
      BY <1>2, <3>2, <3>3, <3>4 DEF Eligible
  <2> QED
    BY <1>1, <1>5, <2>1, <2>2, UsersChange
<1>6. CASE users'[u] = "active"
  BY <1>2, <1>6 DEF Eligible
<1> QED
  BY <1>4, <1>5, <1>6

(* The author of a row that a request can see does not change. *)
LEMMA AuthorStays ==
  ASSUME IInv, [Next]_vars, NEW q \in Requests, op' = op, tx'[q].row = tx[q].row,
         Row(q).status # "NONE"
  PROVE  Row(q)'.status # "NONE" /\ Row(q)'.author = Row(q).author
<1>1. op[q].pr \in PRs
  BY DEF IInv, TypeOK, Calls
<1> QED
  BY <1>1, RowsStay DEF Row, NoPR

(* For whom a call selects reviewers. *)
LEMMA AuthorSeen ==
  ASSUME IInv, NEW q \in Requests, pc[q] \in {"candidates", "insert", "remove", "count", "assign"}
  PROVE  \/ Is(q, "CreatePR") /\ Author(q) = op[q].user
         \/ /\ Is(q, "ReassignReviewer") /\ pc[q] # "insert" /\ Row(q).status # "NONE"
            /\ Row(q) = prs[op[q].pr] /\ mem[q].row = Row(q) /\ Author(q) = Row(q).author
<1>1. CallOK(q) /\ op[q].kind \in {"CreatePR", "ReassignReviewer"}
  BY KindAt DEF IInv
<1>2. CASE Is(q, "CreatePR")
  BY <1>2 DEF Author
<1>3. CASE Is(q, "ReassignReviewer")
  <2>1. pc[q] # "insert" /\ ~Is(q, "CreatePR")
    BY <1>3, KindAt DEF IInv, Is
  <2>2. tx[q].row = NoPR /\ prs[op[q].pr].status # "NONE" /\ mem[q].row = prs[op[q].pr]
    BY <1>1, <1>3, <2>1 DEF CallOK, Replacing, Path
  <2> QED
    BY <1>3, <2>1, <2>2 DEF Author, Row
<1> QED
  BY <1>1, <1>2, <1>3 DEF Is

(* A step that selects nobody and inserts nobody. *)
LEMMA ChosenStays ==
  ASSUME EligibleInv, [Next]_vars, NEW q \in Requests, op' = op, tx'[q].row = tx[q].row,
         tx'[q].added \subseteq tx[q].added, mem'[q].team = mem[q].team,
         mem'[q].selected = mem[q].selected,
         pc'[q] = "candidates" => pc[q] = "candidates",
         pc'[q] \in {"insert", "remove", "count", "assign"} =>
           pc[q] \in {"insert", "remove", "count", "assign"}
  PROVE  Chosen(q)'
<1>1. IInv /\ TypeOK /\ Chosen(q)
  BY DEF EligibleInv, IInv
<1>2. pc[q] \in {"candidates", "insert", "remove", "count", "assign"} => Author(q)' = Author(q)
  BY <1>1, AuthorSeen, AuthorStays DEF Author, Is
<1>3. team_members \subseteq team_members'
  BY <1>1, UsersChange DEF TeamAdded, Shared!AddTeam
<1>4. Range(mem[q].selected) \subseteq Users /\ tx[q].added \subseteq Users
  BY <1>1 DEF TypeOK, Range
<1>5. pc'[q] = "candidates" => <<mem'[q].team, Author(q)'>> \in team_members'
  BY <1>1, <1>2, <1>3 DEF Chosen
<1>6. ASSUME pc'[q] \in {"insert", "remove", "count", "assign"},
             NEW u \in Range(mem'[q].selected)
      PROVE  Eligible(u, Author(q))'
  BY <1>1, <1>2, <1>4, <1>6, EligibleStays DEF Chosen
<1>7. ASSUME NEW u \in tx'[q].added
      PROVE  Row(q)'.status # "NONE" /\ Eligible(u, Row(q).author)'
  <2>1. Row(q).status # "NONE" /\ Eligible(u, Row(q).author) /\ u \in Users
    BY <1>1, <1>4, <1>7 DEF Chosen
  <2>2. Row(q)'.status # "NONE" /\ Row(q)'.author = Row(q).author
    BY <1>1, <2>1, AuthorStays
  <2> QED
    BY <2>1, <2>2, EligibleStays
<1> QED
  BY <1>5, <1>6, <1>7 DEF Chosen

(* An active member of a team of the author, other than the author, may    *)
(* review for him.                                                         *)
LEMMA MembersAreEligible ==
  ASSUME TypeOK, NEW t, NEW author, <<t, author>> \in team_members,
         NEW u \in ListActiveMembersByTeamID(t), u # author
  PROVE  Eligible(u, author)
<1>1. t \in Teams
  BY DEF TypeOK
<1> QED
  BY <1>1 DEF Eligible, ListActiveMembersByTeamID

(* Selecting and inserting. *)
LEMMA SelectionOK ==
  ASSUME EligibleInv, [Next]_vars, NEW r \in Requests,
         FindTeam(r) \/ ChooseReviewers(r) \/ ChooseReplacement(r) \/ InsertRow(r)
           \/ AssignNext(r) \/ RemoveOld(r) \/ SetMerged(r)
  PROVE  Chosen(r)'
<1>1. IInv /\ TypeOK /\ Chosen(r) /\ CallOK(r)
  BY DEF EligibleInv, IInv
<1>2. CASE FindTeam(r)
  <2> DEFINE author == IF Is(r, "CreatePR") THEN op[r].user ELSE mem[r].row.author
             teams == {t \in Teams : <<t, author>> \in team_members}
  <2>1. pc[r] = "team" /\ Verdict(r, IF teams = {} THEN "ErrUserNoTeam" ELSE "nil", "candidates")
    BY <1>2 DEF FindTeam, GetTeamIDByUserID, At
  <2>2. /\ UNCHANGED <<users, team_members, prs, pr_reviewers, prLock, userLock, tx, clock, op>>
        /\ \E t \in IF teams = {} THEN {None} ELSE teams : mem' = [mem EXCEPT ![r].team = t]
    BY <1>2 DEF FindTeam, GetTeamIDByUserID, ReadOnly
  <2>3. Clean(r) /\ pc'[r] \in {"candidates", "rollback"}
    BY <1>1, <2>1 DEF CallOK, Unwritten, Verdict, TypeOK
  <2>4. CASE pc'[r] = "rollback"
    BY <2>2, <2>3, <2>4 DEF Chosen, Clean
  <2>5. CASE pc'[r] = "candidates"
    <3>1. teams # {}
      BY <1>1, <2>1, <2>5 DEF Verdict, TypeOK
    <3>2. PICK t \in teams : mem' = [mem EXCEPT ![r].team = t]
      BY <2>2, <3>1
    <3>3. <<mem'[r].team, author>> \in team_members
      BY <1>1, <3>2 DEF TypeOK
    <3>4. IInv' /\ op' = op
      BY <1>1, <2>2, NextOK
    <3>5. Author(r)' = author
      <4>1. CASE Is(r, "CreatePR")
        BY <3>4, <4>1 DEF Author, Is
      <4>2. CASE ~Is(r, "CreatePR")
        <5>1. Row(r)' = mem[r].row
          <6>1. Is(r, "ReassignReviewer")
            BY <1>1, <2>1, <4>2, KindAt DEF Is
          <6>2. mem[r].row = prs[op[r].pr] /\ tx[r].row = NoPR
            BY <1>1, <2>1, <6>1 DEF CallOK, Replacing, Path
          <6> QED
            BY <2>2, <6>2 DEF Row, NoPR
        <5> QED
          BY <3>4, <4>2, <5>1 DEF Author, Is
      <4> QED
        BY <4>1, <4>2
    <3> QED
      BY <2>2, <2>3, <2>5, <3>3, <3>5 DEF Chosen, Clean
  <2> QED
    BY <2>3, <2>4, <2>5
<1>3. CASE ChooseReviewers(r)
  <2> DEFINE pool == FilterStrings(ListActiveMembersByTeamID(mem[r].team), {op[r].user})
  <2>1. /\ pc[r] = "candidates" /\ Is(r, "CreatePR") /\ Goto(r, "insert")
        /\ \E s \in Select(pool, 2) : mem' = [mem EXCEPT ![r].selected = s, ![r].reviewers = s]
        /\ UNCHANGED <<users, team_members, prs, pr_reviewers, prLock, userLock, tx, clock, op>>
    BY <1>3 DEF ChooseReviewers, At, ReadOnly
  <2>2. PICK s \in Select(pool, 2) : mem' = [mem EXCEPT ![r].selected = s, ![r].reviewers = s]
    BY <2>1
  <2>3. s \in Seq(pool)
    BY SelectIsSeq, ListActiveType
  <2>4. pc'[r] = "insert" /\ mem'[r].selected = s /\ Clean(r)
    BY <1>1, <2>1, <2>2 DEF Goto, TypeOK, CallOK, Unwritten
  <2>5. <<mem[r].team, op[r].user>> \in team_members
    BY <1>1, <2>1 DEF Chosen, Author
  <2>6. ASSUME NEW u \in Range(s)
        PROVE  Eligible(u, op[r].user)
    <3>1. u \in ListActiveMembersByTeamID(mem[r].team) /\ u # op[r].user
      BY <2>3, <2>6 DEF Range, FilterStrings
    <3> QED
      BY <1>1, <2>5, <3>1, MembersAreEligible
  <2>7. \A u \in Range(s) : Eligible(u, op[r].user)'
    <3>1. \A u \in Range(s) : u \in Users
      BY <2>3, ListActiveType DEF Range
    <3> QED
      BY <2>1, <2>6, <3>1, EligibleStays
  <2> QED
    BY <2>1, <2>4, <2>7 DEF Chosen, Author, Is, Clean
<1>4. CASE ChooseReplacement(r)
  <2> DEFINE pool == FilterStrings(ListActiveMembersByTeamID(mem[r].team),
                                   {mem[r].row.author} \union Range(mem[r].reviewers))
  <2>1. /\ pc[r] = "candidates" /\ Is(r, "ReassignReviewer")
        /\ Verdict(r, IF pool = {} THEN "ErrNoReplacementCandidates" ELSE "nil", "remove")
        /\ \E s \in Select(pool, 1) : mem' = [mem EXCEPT ![r].selected = s]
        /\ UNCHANGED <<users, team_members, prs, pr_reviewers, prLock, userLock, tx, clock, op>>
    BY <1>4 DEF ChooseReplacement, At, ReadOnly
  <2>2. PICK s \in Select(pool, 1) : mem' = [mem EXCEPT ![r].selected = s]
    BY <2>1
  <2>3. s \in Seq(pool)
    BY SelectIsSeq, ListActiveType
  <2>4. pc'[r] \in {"remove", "rollback"} /\ mem'[r].selected = s /\ Clean(r)
    BY <1>1, <2>1, <2>2 DEF Verdict, TypeOK, CallOK, Unwritten
  <2>5. <<mem[r].team, mem[r].row.author>> \in team_members /\ Author(r) = mem[r].row.author
    BY <1>1, <2>1, AuthorSeen DEF Chosen, Is
  <2>6. ASSUME NEW u \in Range(s)
        PROVE  Eligible(u, Author(r)) /\ u \in Users
    <3>1. u \in ListActiveMembersByTeamID(mem[r].team) /\ u # mem[r].row.author
      BY <2>3, <2>6 DEF Range, FilterStrings
    <3> QED
      BY <1>1, <2>5, <3>1, MembersAreEligible, ListActiveType
  <2>7. Author(r)' = Author(r)
    BY <2>1 DEF Author, Is, Row, NoPR
  <2>8. \A u \in Range(s) : Eligible(u, Author(r))'
    BY <2>6, <2>7, EligibleStays
  <2> QED
    BY <2>1, <2>4, <2>8 DEF Chosen, Clean
<1>5. CASE InsertRow(r)
  <2>1. /\ pc[r] = "insert" /\ pc'[r] \in {"commit", "count", "rollback"} /\ op' = op
        /\ mem'[r].selected = mem[r].selected /\ tx'[r].added = tx[r].added
    BY <1>1, <1>5 DEF InsertRow, InsertPR, Verdict, At, Private, TypeOK
  <2>2. Clean(r) /\ Is(r, "CreatePR")
    BY <1>1, <2>1, KindAt DEF CallOK, Unwritten, Is
  <2>3. \A u \in Range(mem[r].selected) : Eligible(u, op[r].user) /\ u \in Users
    BY <1>1, <2>1, <2>2 DEF Chosen, Author, TypeOK, Range
  <2>4. \A u \in Range(mem[r].selected) : Eligible(u, op[r].user)'
    BY <2>1, <2>3, EligibleStays
  <2> QED
    BY <2>1, <2>2, <2>4 DEF Chosen, Clean, Author, Is
<1>6. CASE AssignNext(r)
  <2> DEFINE u == mem[r].selected[mem[r].next]
  <2>1. /\ pc[r] = "assign" /\ pc'[r] \in {"count", "commit", "reload", "rollback"}
        /\ mem'[r].selected = mem[r].selected /\ op' = op /\ prs' = prs
        /\ tx' = tx \/ tx' = [tx EXCEPT ![r].added = @ \union {u}]
    BY <1>1, <1>6 DEF AssignNext, AddReviewer, Verdict, At, Private, TypeOK
  <2>2. /\ tx'[r].added \subseteq tx[r].added \union {u} /\ tx'[r].row = tx[r].row
        /\ u \in Range(mem[r].selected) /\ Range(mem[r].selected) \subseteq Users
        /\ tx[r].added \subseteq Users
    BY <1>1, <2>1, NextSelected DEF TypeOK, Range
  <2>3. Row(r)' = Row(r) /\ Author(r)' = Author(r)
    BY <2>1, <2>2 DEF Row, Author, Is, NoPR
  <2>4. Row(r).status # "NONE" /\ Row(r).author = Author(r)
    <3>1. CASE Is(r, "CreatePR")
      <4>1. tx[r].row = Fresh(op[r].user)
        BY <1>1, <2>1, <3>1 DEF CallOK, Creating
      <4> QED
        BY <3>1, <4>1 DEF Row, Author, Fresh, NoPR
    <3>2. CASE ~Is(r, "CreatePR")
      BY <1>1, <2>1, <3>2, AuthorSeen
    <3> QED
      BY <3>1, <3>2
  <2>5. \A v \in Range(mem[r].selected) \union tx[r].added : Eligible(v, Author(r)) /\ v \in Users
    BY <1>1, <2>1, <2>2, <2>4 DEF Chosen
  <2>6. \A v \in Range(mem[r].selected) \union tx[r].added : Eligible(v, Author(r))'
    BY <2>3, <2>5, EligibleStays
  <2>7. \A v \in tx'[r].added : Row(r)'.status # "NONE" /\ Eligible(v, Row(r).author)'
    BY <2>2, <2>3, <2>4, <2>6
  <2> QED
    BY <2>1, <2>6, <2>7 DEF Chosen
<1>7. CASE RemoveOld(r)
  <2>1. /\ pc[r] = "remove" /\ pc'[r] \in {"count", "rollback"} /\ op' = op /\ mem' = mem
        /\ tx' = tx \/ tx' = [tx EXCEPT ![r] = Deleted(tx[r], op[r].user)]
    BY <1>1, <1>7 DEF RemoveOld, RemoveReviewer, Verdict, At, Private, TypeOK
  <2>2. tx'[r] = tx[r] \/ tx'[r] = Deleted(tx[r], op[r].user)
    BY <1>1, <2>1 DEF TypeOK
  <2>3. tx[r] \in Txs
    BY <1>1 DEF TypeOK, Txs
  <2>4. tx'[r].added \subseteq tx[r].added /\ tx'[r].row = tx[r].row
    BY <2>2, <2>3 DEF Deleted, Txs
  <2> QED
    BY <2>1, <2>4, ChosenStays
<1>8. CASE SetMerged(r)
  <2>1. pc[r] = "update" /\ pc'[r] \in {"commit", "rollback"} /\ tx'[r].added = tx[r].added
    BY <1>1, <1>8 DEF SetMerged, UpdateStatus, Verdict, At, TypeOK
  <2>2. Clean(r)
    BY <1>1, <2>1 DEF CallOK, Unwritten
  <2> QED
    BY <2>1, <2>2 DEF Chosen, Clean
<1> QED
  BY <1>2, <1>3, <1>4, <1>5, <1>6, <1>7, <1>8

(* Where a statement leads. *)
LEMMA VerdictStep ==
  ASSUME TypeOK, NEW r \in Requests, NEW e, NEW label, Verdict(r, e, label)
  PROVE  pc'[r] = label \/ pc'[r] = "rollback"
BY DEF Verdict, TypeOK

LEMMA GotoStep ==
  ASSUME TypeOK, NEW r \in Requests, NEW label, Goto(r, label)
  PROVE  pc'[r] = label
BY DEF Goto, TypeOK

(* What the request that moves has chosen. *)
LEMMA ChosenMoves ==
  ASSUME EligibleInv, [Next]_vars, NEW r \in Requests, Moves(r)
  PROVE  Chosen(r)'
<1>1. IInv /\ TypeOK /\ CallOK(r) /\ op' = op /\ op[r].kind \in Kinds
  BY StepOK, KindAt DEF EligibleInv, IInv, Moves, Frame
<1>2. CASE Begin(r, FirstStep[op[r].kind])
  <2>1. /\ tx'[r].row = tx[r].row /\ tx'[r].added = tx[r].added /\ mem' = mem
        /\ pc'[r] \in {"author", "lock", "reload", "user"}
    BY <1>1, <1>2 DEF Begin, FirstStep, Kinds, TypeOK
  <2> QED
    BY <1>1, <2>1, ChosenStays
<1>3. CASE FindAuthor(r) \/ CountAssigned(r) \/ LockRow(r) \/ Reload(r) \/ UserStep(r)
           \/ MergeLoadsReviewers(r) \/ ReassignLoadsReviewers(r) \/ ReloadReviewers(r)
  <2>1. /\ tx'[r].row = tx[r].row /\ tx'[r].added = tx[r].added
        /\ mem'[r].team = mem[r].team /\ mem'[r].selected = mem[r].selected
    <3>1. CASE FindAuthor(r) \/ CountAssigned(r)
      BY <3>1 DEF FindAuthor, GetUserByID, CountAssigned, CountReviewersByPRID, ReadOnly
    <3>2. CASE LockRow(r) \/ Reload(r)
      BY <1>1, <3>2 DEF LockRow, SelectPRForUpdate, Reload, SelectPR, ReadOnly, TypeOK
    <3>3. CASE UserStep(r)
      BY <1>1, <3>3 DEF UserStep, FindUser, GetUserByID, SetActive, UpdateUserActive, ReadOnly,
         TypeOK
    <3>4. CASE MergeLoadsReviewers(r) \/ ReassignLoadsReviewers(r) \/ ReloadReviewers(r)
      BY <1>1, <3>4 DEF MergeLoadsReviewers, ReassignLoadsReviewers, ReloadReviewers, ReadOnly,
         TypeOK
    <3> QED
      BY <1>3, <3>1, <3>2, <3>3, <3>4
  <2>2. \/ pc'[r] \in {"team", "reviewers", "reloaded", "setActive", "commit", "update", "rollback"}
        \/ pc[r] = "count" /\ pc'[r] = "assign"
    <3>1. CASE FindAuthor(r) \/ CountAssigned(r)
      BY <1>1, <3>1, VerdictStep DEF FindAuthor, GetUserByID, CountAssigned, CountReviewersByPRID, At
    <3>2. CASE LockRow(r) \/ Reload(r)
      BY <1>1, <3>2, VerdictStep DEF LockRow, SelectPRForUpdate, Reload, SelectPR
    <3>3. CASE UserStep(r)
      BY <1>1, <3>3, VerdictStep DEF UserStep, FindUser, GetUserByID, SetActive, UpdateUserActive
    <3>4. CASE ReassignLoadsReviewers(r)
      BY <1>1, <3>4, VerdictStep DEF ReassignLoadsReviewers
    <3>5. CASE MergeLoadsReviewers(r) \/ ReloadReviewers(r)
      BY <1>1, <3>5, GotoStep DEF MergeLoadsReviewers, ReloadReviewers
    <3> QED
      BY <1>3, <3>1, <3>2, <3>3, <3>4, <3>5
  <2> QED
    BY <1>1, <2>1, <2>2, ChosenStays
<1>4. CASE Commit(r) \/ Rollback(r) \/ Settle(r)
  <2>1. EndTx(r)
    BY <1>4 DEF Commit, Rollback, Settle, ServerAborts, ServerCommits
  <2>2. pc'[r] = "done" /\ tx'[r] = [NoTx EXCEPT !.began = tx[r].began]
    BY <1>1, <2>1 DEF EndTx, TypeOK
  <2>3. tx'[r].added = {}
    BY <2>2 DEF NoTx
  <2> QED
    BY <2>2, <2>3 DEF Chosen
<1>5. CASE CallFails(r)
  <2>1. pc'[r] \in {"done", "orphan", "orphanCommit"} /\ tx' = tx
    BY <1>1, <1>5 DEF CallFails, TypeOK
  <2>2. \A u \in tx[r].added : u \in Users /\ Row(r).status # "NONE" /\ Eligible(u, Row(r).author)
    BY <1>1 DEF EligibleInv, Chosen, TypeOK
  <2>3. Row(r)' = Row(r)
    BY <1>5 DEF CallFails, Row, NoPR
  <2>4. \A u \in tx[r].added : Eligible(u, Row(r).author)'
    BY <2>2, <2>3, EligibleStays
  <2> QED
    BY <2>1, <2>2, <2>3, <2>4 DEF Chosen
<1>6. CASE PRStep(r)
  BY <1>3, <1>6, SelectionOK DEF PRStep
<1> QED
  BY <1>2, <1>3, <1>4, <1>5, <1>6 DEF Moves, Step

(* What is written to users stays an update of a row that is there. *)
LEMMA UserWritesStay ==
  ASSUME EligibleInv, [Next]_vars, NEW r \in Requests, op' = op, tx'[r].user = tx[r].user
  PROVE  UserWrites(r)'
<1>1. IInv /\ UserWrites(r) /\ op[r].user \in Users
  BY DEF EligibleInv, IInv, TypeOK, Calls
<1> QED
  BY <1>1, BegunStays, UsersStay DEF UserWrites, Is

(* Only UpdateUserActive writes to users. *)
LEMMA UserWritesMoves ==
  ASSUME EligibleInv, [Next]_vars, NEW r \in Requests, Moves(r)
  PROVE  UserWrites(r)'
<1>1. IInv /\ TypeOK /\ CallOK(r) /\ op' = op /\ UserWrites(r)
  BY StepOK DEF EligibleInv, IInv, Moves, Frame
<1>2. CASE tx'[r].user = tx[r].user
  BY <1>1, <1>2, UserWritesStay
<1>3. CASE Commit(r) \/ Rollback(r) \/ Settle(r)
  <2>1. tx'[r].user = "absent"
    BY <1>1, <1>3 DEF Commit, Rollback, Settle, ServerAborts, ServerCommits, EndTx, NoTx, TypeOK
  <2> QED
    BY <2>1 DEF UserWrites
<1>4. CASE SetActive(r)
  <2>1. pc[r] = "setActive" /\ pc'[r] \in {"commit", "rollback"}
        /\ \/ tx' = tx
           \/ /\ tx'[r].user = IF op[r].active THEN "active" ELSE "inactive"
              /\ users[op[r].user] # "absent" /\ users' = users
    BY <1>1, <1>4 DEF SetActive, UpdateUserActive, Private, Verdict, At, TypeOK
  <2>2. Is(r, "UpdateUserActive")
    BY <1>1, <2>1, KindAt DEF Is
  <2> QED
    BY <1>1, <1>2, <2>1, <2>2 DEF UserWrites, Is
<1>5. CASE Begin(r, FirstStep[op[r].kind]) \/ CallFails(r) \/ FindUser(r)
  <2>1. tx'[r].user = tx[r].user
    BY <1>1, <1>5 DEF Begin, CallFails, FindUser, GetUserByID, ReadOnly, TypeOK
  <2> QED
    BY <1>2, <2>1
<1>6. CASE PRStep(r)
  <2>1. tx[r] \in Txs
    BY <1>1 DEF TypeOK, Txs
  <2>2. CASE InsertRow(r) \/ AssignNext(r) \/ SetMerged(r)
    BY <1>1, <1>2, <2>2 DEF InsertRow, InsertPR, AssignNext, AddReviewer, SetMerged, UpdateStatus,
       TypeOK
  <2>3. CASE RemoveOld(r)
    <3>1. tx'[r] = tx[r] \/ tx'[r] = Deleted(tx[r], op[r].user)
      BY <1>1, <2>3 DEF RemoveOld, RemoveReviewer, TypeOK
    <3> QED
      BY <1>2, <2>1, <3>1 DEF Deleted, Txs
  <2>4. CASE FindAuthor(r) \/ FindTeam(r) \/ ChooseReviewers(r) \/ CountAssigned(r) \/ LockRow(r)
    BY <1>2, <2>4 DEF FindAuthor, GetUserByID, FindTeam, GetTeamIDByUserID, ChooseReviewers,
       CountAssigned, CountReviewersByPRID, LockRow, SelectPRForUpdate, ReadOnly
  <2>5. CASE MergeLoadsReviewers(r) \/ ReassignLoadsReviewers(r) \/ ChooseReplacement(r)
             \/ Reload(r) \/ ReloadReviewers(r)
    BY <1>2, <2>5 DEF MergeLoadsReviewers, ReassignLoadsReviewers, ChooseReplacement, Reload,
       SelectPR, ReloadReviewers, ReadOnly
  <2> QED
    BY <1>6, <2>2, <2>3, <2>4, <2>5 DEF PRStep
<1> QED
  BY <1>3, <1>4, <1>5, <1>6 DEF Moves, Step, UserStep

(* What becomes visible was chosen well, and stays so. *)
LEMMA TablesStayEligible ==
  ASSUME EligibleInv, [Next]_vars
  PROVE  ReviewersAreEligible'
<1>1. IInv /\ TypeOK /\ TablesOK
  BY DEF EligibleInv, IInv
<1>2. SUFFICES ASSUME NEW p \in PRs, NEW u \in Reviewers(pr_reviewers'[p])
               PROVE  Eligible(u, prs[p].author)'
  BY DEF ReviewersAreEligible, Reviewers
<1>3. u \in Users
  BY DEF Reviewers
<1>4. CASE u \in Reviewers(pr_reviewers[p])
  <2>1. prs[p].status # "NONE"
    BY <1>1, <1>4 DEF TablesOK
  <2>2. prs'[p].author = prs[p].author
    BY <1>1, <2>1, RowsStay
  <2>3. Eligible(u, prs[p].author)
    BY <1>4 DEF EligibleInv, ReviewersAreEligible
  <2> QED
    BY <1>3, <2>2, <2>3, EligibleStays
<1>5. CASE u \notin Reviewers(pr_reviewers[p])
  <2>1. pr_reviewers' # pr_reviewers
    BY <1>5
  <2>2. PICK r \in Requests : Publish(r)
    BY <1>1, <2>1, OnlyPublished
  <2>3. p = op[r].pr /\ u \in tx[r].added /\ prs'[p] = Row(r)
    <3>1. op[r].pr \in PRs
      BY <1>1 DEF TypeOK, Calls
    <3>2. pr_reviewers'[p] = IF p = op[r].pr THEN Assigned(r) ELSE pr_reviewers[p]
      BY <1>1, <2>2, <3>1 DEF Publish, TypeOK
    <3>3. p = op[r].pr /\ u \in Reviewers(Assigned(r))
      BY <1>5, <3>2
    <3>4. u \in tx[r].added
      BY <1>5, <3>3 DEF Reviewers, Assigned
    <3> QED
      BY <1>1, <2>2, <3>3, <3>4 DEF Publish, TypeOK
  <2>4. Eligible(u, Row(r).author)
    BY <2>3 DEF EligibleInv, Chosen
  <2> QED
    BY <1>3, <2>3, <2>4, EligibleStays
<1> QED
  BY <1>4, <1>5

(* An earlier creation chose well. *)
LEMMA EligibleInit == Init => EligibleInv
<1> SUFFICES ASSUME Init PROVE EligibleInv
  OBVIOUS
<1>1. IInv /\ TypeOK /\ TablesOK
  BY InitOK DEF IInv
<1>2. ReviewersAreEligible
  <2> SUFFICES ASSUME NEW p \in PRs, NEW u \in Reviewers(pr_reviewers[p])
               PROVE  Eligible(u, prs[p].author)
    BY DEF ReviewersAreEligible
  <2>1. p \in Existing /\ Earlier(pr_reviewers[p], prs[p].author)
    BY DEF Init
  <2>2. PICK t \in Teams :
          /\ <<t, prs[p].author>> \in team_members
          /\ \E s \in Select(FilterStrings(ListActiveMembersByTeamID(t), {prs[p].author}), 2) :
               pr_reviewers[p] = [v \in Users |-> IF ContainsString(s, v) THEN 1 ELSE 0]
    BY <2>1 DEF Earlier
  <2> DEFINE pool == FilterStrings(ListActiveMembersByTeamID(t), {prs[p].author})
  <2>3. PICK s \in Select(pool, 2) :
          pr_reviewers[p] = [v \in Users |-> IF ContainsString(s, v) THEN 1 ELSE 0]
    BY <2>2
  <2>4. s \in Seq(pool)
    BY SelectIsSeq, ListActiveType
  <2>5. u \in Range(s)
    BY <2>3 DEF Reviewers, ContainsString
  <2>6. u \in ListActiveMembersByTeamID(t) /\ u # prs[p].author
    BY <2>4, <2>5 DEF Range, FilterStrings
  <2> QED
    BY <1>1, <2>2, <2>6, MembersAreEligible
<1>3. \A r \in Requests : Chosen(r) /\ UserWrites(r)
  BY DEF Init, Chosen, UserWrites, NoTx
<1> QED
  BY <1>1, <1>2, <1>3 DEF EligibleInv

LEMMA EligibleNext ==
  ASSUME EligibleInv, [Next]_vars
  PROVE  EligibleInv'
<1>1. IInv /\ IInv' /\ ReviewersAreEligible'
  BY NextOK, TablesStayEligible DEF EligibleInv
<1>2. ASSUME NEW r \in Requests, Moves(r), NEW q \in Requests
      PROVE  Chosen(q)' /\ UserWrites(q)'
  <2>1. CASE q = r
    BY <1>2, <2>1, ChosenMoves, UserWritesMoves
  <2>2. CASE q # r
    <3>1. op' = op /\ tx'[q] = tx[q] /\ pc'[q] = pc[q] /\ mem'[q] = mem[q]
      BY <1>1, <1>2, <2>2, StepOK DEF Moves, Frame
    <3>2. Chosen(q)'
      BY <3>1, ChosenStays
    <3>3. UserWrites(q)'
      BY <3>1, UserWritesStay
    <3> QED
      BY <3>2, <3>3
  <2> QED
    BY <2>1, <2>2
<1>3. ASSUME UNCHANGED <<op, tx, pc, mem>>, NEW q \in Requests
      PROVE  Chosen(q)' /\ UserWrites(q)'
  <2>1. Chosen(q)'
    BY <1>3, ChosenStays
  <2>2. UserWrites(q)'
    BY <1>3, UserWritesStay
  <2> QED
    BY <2>1, <2>2
<1>4. \A q \in Requests : Chosen(q)' /\ UserWrites(q)'
  BY <1>2, <1>3 DEF Next, Moves, TeamAdded, vars
<1> QED
  BY <1>1, <1>4 DEF EligibleInv

(* The users q has decided on or inserted, and those who are, or may be    *)
(* without a further choice, reviewers.                                    *)
Picked(q) ==
  tx[q].added
    \union IF pc[q] \in {"insert", "remove", "count", "assign"}
           THEN Range(mem[q].selected) ELSE {}

AllPicked(W) ==
  /\ \A q \in Requests : Picked(q) \subseteq W
  /\ \A p \in PRs : Reviewers(pr_reviewers[p]) \subseteq W

(* Nobody is picked at a step but who is active at it. *)
LEMMA PickedMoves ==
  ASSUME IInv, NEW r \in Requests, Moves(r)
  PROVE  \A u \in Picked(r)' : u \in Picked(r) \/ users[u] = "active"
<1>1. TypeOK /\ CallOK(r) /\ op' = op /\ op[r].kind \in Kinds
  BY StepOK, KindAt DEF IInv, Moves, Frame
<1>2. CASE Begin(r, FirstStep[op[r].kind]) \/ CallFails(r)
  <2>1. tx'[r].added = tx[r].added
    BY <1>1, <1>2 DEF Begin, CallFails, TypeOK
  <2>2. pc'[r] \notin {"insert", "remove", "count", "assign"}
    BY <1>1, <1>2 DEF Begin, CallFails, FirstStep, Kinds, TypeOK
  <2> QED
    BY <2>1, <2>2 DEF Picked
<1>3. CASE Commit(r) \/ Rollback(r) \/ Settle(r)
  <2>1. EndTx(r)
    BY <1>3 DEF Commit, Rollback, Settle, ServerAborts, ServerCommits
  <2>2. pc'[r] = "done" /\ tx'[r] = [NoTx EXCEPT !.began = tx[r].began]
    BY <1>1, <2>1 DEF EndTx, TypeOK
  <2>3. tx'[r].added = {}
    BY <2>2 DEF NoTx
  <2> QED
    BY <2>2, <2>3 DEF Picked
<1>4. CASE FindAuthor(r) \/ CountAssigned(r) \/ LockRow(r) \/ Reload(r) \/ UserStep(r)
           \/ MergeLoadsReviewers(r) \/ ReassignLoadsReviewers(r) \/ ReloadReviewers(r)
  <2>1. tx'[r].added = tx[r].added /\ mem'[r].selected = mem[r].selected
    <3>1. CASE FindAuthor(r) \/ CountAssigned(r)
      BY <3>1 DEF FindAuthor, GetUserByID, CountAssigned, CountReviewersByPRID, ReadOnly
    <3>2. CASE LockRow(r) \/ Reload(r)
      BY <1>1, <3>2 DEF LockRow, SelectPRForUpdate, Reload, SelectPR, ReadOnly, TypeOK
    <3>3. CASE UserStep(r)
      BY <1>1, <3>3 DEF UserStep, FindUser, GetUserByID, SetActive, UpdateUserActive, ReadOnly,
         TypeOK
    <3>4. CASE MergeLoadsReviewers(r) \/ ReassignLoadsReviewers(r) \/ ReloadReviewers(r)
      BY <1>1, <3>4 DEF MergeLoadsReviewers, ReassignLoadsReviewers, ReloadReviewers, ReadOnly,
         TypeOK
    <3> QED
      BY <1>4, <3>1, <3>2, <3>3, <3>4
  <2>2. \/ pc'[r] \notin {"insert", "remove", "count", "assign"}
        \/ pc[r] = "count" /\ pc'[r] = "assign"
    <3>1. CASE FindAuthor(r) \/ CountAssigned(r)
      BY <1>1, <3>1, VerdictStep DEF FindAuthor, GetUserByID, CountAssigned, CountReviewersByPRID, At
    <3>2. CASE LockRow(r) \/ Reload(r)
      BY <1>1, <3>2, VerdictStep DEF LockRow, SelectPRForUpdate, Reload, SelectPR
    <3>3. CASE UserStep(r)
      BY <1>1, <3>3, VerdictStep DEF UserStep, FindUser, GetUserByID, SetActive, UpdateUserActive
    <3>4. CASE ReassignLoadsReviewers(r)
      BY <1>1, <3>4, VerdictStep DEF ReassignLoadsReviewers
    <3>5. CASE MergeLoadsReviewers(r) \/ ReloadReviewers(r)
      BY <1>1, <3>5, GotoStep DEF MergeLoadsReviewers, ReloadReviewers
    <3> QED
      BY <1>4, <3>1, <3>2, <3>3, <3>4, <3>5
  <2> QED
    BY <2>1, <2>2 DEF Picked
<1>5. CASE FindTeam(r) \/ SetMerged(r)
  <2>1. pc'[r] \notin {"insert", "remove", "count", "assign"}
    BY <1>1, <1>5, VerdictStep DEF FindTeam, GetTeamIDByUserID, SetMerged, UpdateStatus
  <2>2. tx'[r].added = tx[r].added
    BY <1>1, <1>5 DEF FindTeam, GetTeamIDByUserID, SetMerged, UpdateStatus, ReadOnly, TypeOK
  <2> QED
    BY <2>1, <2>2 DEF Picked
<1>6. CASE ChooseReviewers(r) \/ ChooseReplacement(r)
  <2> DEFINE members == ListActiveMembersByTeamID(mem[r].team)
             pool(excluded) == FilterStrings(members, excluded)
  <2>1. PICK excluded :
          \E n \in Nat : \E s \in Select(pool(excluded), n) : mem'[r].selected = s
    <3>1. CASE ChooseReviewers(r)
      <4>1. \E s \in Select(pool({op[r].user}), 2) : mem'[r].selected = s
        BY <1>1, <3>1 DEF ChooseReviewers, TypeOK
      <4> QED
        BY <4>1
    <3>2. CASE ChooseReplacement(r)
      <4>1. \E s \in Select(pool({mem[r].row.author} \union Range(mem[r].reviewers)), 1) :
              mem'[r].selected = s
        BY <1>1, <3>2 DEF ChooseReplacement, TypeOK
      <4> QED
        BY <4>1
    <3> QED
      BY <1>6, <3>1, <3>2
  <2>2. tx'[r].added = tx[r].added
    BY <1>6 DEF ChooseReviewers, ChooseReplacement, ReadOnly
  <2>3. mem'[r].selected \in Seq(pool(excluded))
    BY <2>1, SelectIsSeq, ListActiveType
  <2>4. \A u \in Range(mem'[r].selected) : u \in members
    BY <2>3 DEF Range, FilterStrings
  <2> QED
    BY <2>2, <2>4 DEF Picked, ListActiveMembersByTeamID
<1>7. CASE InsertRow(r)
  <2>1. /\ pc[r] = "insert" /\ mem'[r].selected = mem[r].selected
        /\ tx'[r].added = tx[r].added
    BY <1>1, <1>7 DEF InsertRow, InsertPR, At, Private, TypeOK
  <2> QED
    BY <2>1 DEF Picked
<1>8. CASE AssignNext(r)
  <2> DEFINE u == mem[r].selected[mem[r].next]
  <2>1. /\ pc[r] = "assign" /\ mem'[r].selected = mem[r].selected
        /\ tx' = tx \/ tx' = [tx EXCEPT ![r].added = @ \union {u}]
    BY <1>1, <1>8 DEF AssignNext, AddReviewer, At, Private, TypeOK
  <2>2. tx'[r].added \subseteq tx[r].added \union {u} /\ u \in Range(mem[r].selected)
    BY <1>1, <2>1, NextSelected DEF TypeOK, Range
  <2> QED
    BY <2>1, <2>2 DEF Picked
<1>9. CASE RemoveOld(r)
  <2>1. /\ pc[r] = "remove" /\ mem' = mem
        /\ tx'[r] = tx[r] \/ tx'[r] = Deleted(tx[r], op[r].user)
    BY <1>1, <1>9 DEF RemoveOld, RemoveReviewer, At, Private, TypeOK
  <2>2. tx'[r].added \subseteq tx[r].added
    <3>1. tx[r] \in Txs
      BY <1>1 DEF TypeOK, Txs
    <3> QED
      BY <2>1, <3>1 DEF Deleted, Txs
  <2> QED
    BY <2>1, <2>2 DEF Picked
<1> QED
  BY <1>2, <1>3, <1>4, <1>5, <1>6, <1>7, <1>8, <1>9 DEF Moves, Step, PRStep

(* Who becomes a reviewer was picked, and who was picked was active: the   *)
(* users picked stay in a set that contains them and all who are active.   *)
LEMMA PickedStay ==
  ASSUME IInv, [Next]_vars, NEW W, {u \in Users : users[u] = "active"} \subseteq W,
         AllPicked(W)
  PROVE  AllPicked(W)'
<1>1. TypeOK
  BY DEF IInv
<1>2. ASSUME NEW q \in Requests
      PROVE  Picked(q)' \subseteq W
  <2>1. ASSUME NEW r \in Requests, Moves(r)
        PROVE  Picked(q)' \subseteq W
    <3>1. CASE q = r
      <4>1. Picked(r)' \subseteq Users
        BY NextOK DEF IInv, TypeOK, Picked, Range
      <4> QED
        BY <2>1, <3>1, <4>1, PickedMoves DEF AllPicked
    <3>2. CASE q # r
      <4>1. tx'[q] = tx[q] /\ pc'[q] = pc[q] /\ mem'[q] = mem[q]
        BY <2>1, <3>2, StepOK DEF Moves, Frame
      <4> QED
        BY <4>1 DEF Picked, AllPicked
    <3> QED
      BY <3>1, <3>2
  <2>2. CASE UNCHANGED <<tx, pc, mem>>
    BY <2>2 DEF Picked, AllPicked
  <2> QED
    BY <2>1, <2>2 DEF Next, Moves, TeamAdded, vars
<1>3. ASSUME NEW p \in PRs, NEW u \in Reviewers(pr_reviewers'[p])
      PROVE  u \in W
  <2>1. CASE pr_reviewers' = pr_reviewers
    BY <1>3, <2>1 DEF AllPicked
  <2>2. CASE pr_reviewers' # pr_reviewers
    <3>1. PICK r \in Requests : Publish(r)
      BY <2>2, OnlyPublished
    <3>2. op[r].pr \in PRs
      BY <1>1 DEF TypeOK, Calls
    <3>3. pr_reviewers'[p] = IF p = op[r].pr THEN Assigned(r) ELSE pr_reviewers[p]
      BY <1>1, <3>1, <3>2 DEF Publish, TypeOK
    <3>4. u \in Reviewers(pr_reviewers[p]) \/ u \in tx[r].added
      BY <1>3, <3>3 DEF Reviewers, Assigned
    <3> QED
      BY <3>4 DEF AllPicked, Picked
  <2> QED
    BY <2>1, <2>2
<1>4. \A p \in PRs : Reviewers(pr_reviewers[p])' \subseteq W
  BY <1>3 DEF Reviewers
<1> QED
  BY <1>2, <1>4 DEF AllPicked

(* An earlier creation picked who was active. *)
LEMMA PickedInit ==
  ASSUME Init
  PROVE  AllPicked({u \in Users : users[u] = "active"})
<1>1. ASSUME NEW p \in PRs, NEW u \in Reviewers(pr_reviewers[p])
      PROVE  u \in Users /\ users[u] = "active"
  <2>1. Earlier(pr_reviewers[p], prs[p].author) /\ u \in Users
    BY <1>1 DEF Init, Reviewers
  <2>2. PICK t \in Teams :
          \E s \in Select(FilterStrings(ListActiveMembersByTeamID(t), {prs[p].author}), 2) :
            pr_reviewers[p] = [v \in Users |-> IF ContainsString(s, v) THEN 1 ELSE 0]
    BY <2>1 DEF Earlier
  <2> DEFINE pool == FilterStrings(ListActiveMembersByTeamID(t), {prs[p].author})
  <2>3. PICK s \in Select(pool, 2) :
          pr_reviewers[p] = [v \in Users |-> IF ContainsString(s, v) THEN 1 ELSE 0]
    BY <2>2
  <2>4. s \in Seq(pool)
    BY SelectIsSeq, ListActiveType
  <2>5. u \in Range(s)
    BY <1>1, <2>3 DEF Reviewers, ContainsString
  <2>6. u \in ListActiveMembersByTeamID(t)
    BY <2>4, <2>5 DEF Range, FilterStrings
  <2> QED
    BY <2>1, <2>6 DEF ListActiveMembersByTeamID
<1>2. \A q \in Requests : Picked(q) = {}
  BY DEF Init, Picked, NoTx
<1> QED
  BY <1>1, <1>2 DEF AllPicked

(* Whatever happens to users and teams while calls choose, a reviewer is   *)
(* not the author, shares a team with him, and was not inactive all along. *)
THEOREM Eligibility == Spec => []ReviewersAreEligible
<1>1. Init => EligibleInv
  BY EligibleInit
<1>2. EligibleInv /\ [Next]_vars => EligibleInv'
  BY EligibleNext
<1>3. EligibleInv => ReviewersAreEligible
  BY DEF EligibleInv
<1> QED
  BY <1>1, <1>2, <1>3, PTL DEF Spec

-----------------------------------------------------------------------------
(* What the handlers are given.                                            *)

(* An added team is a new one for all its members. *)
LEMMA NewTeamsStayNew ==
  ASSUME IInv, [Next]_vars, NEW u, NewInTeams(u)
  PROVE  NewInTeams(u)'
<1>1. CASE team_members' = team_members
  BY <1>1 DEF NewInTeams
<1>2. ASSUME NEW new \in NewTeams, TeamAdded(new)
      PROVE  NewInTeams(u)'
  <2>1. team_members' = team_members \union ({new.team} \X new.members)
    BY <1>2 DEF TeamAdded, Shared!AddTeam
  <2> QED
    BY <2>1 DEF NewInTeams
<1> QED
  BY <1>1, <1>2, UsersChange

(* An author whose pull request has a reviewer has a team; so only CreatePR *)
(* can fail to find one.                                                   *)
LEMMA TeamFound ==
  ASSUME EligibleInv, NEW r \in Requests, FindTeam(r), Is(r, "ReassignReviewer")
  PROVE  err'[r] = "nil"
<1>1. TypeOK /\ CallOK(r) /\ pc[r] = "team"
  BY DEF EligibleInv, IInv, FindTeam, At
<1>2. /\ mem[r].row = prs[op[r].pr] /\ op[r].pr \in PRs
      /\ op[r].user \in Reviewers(pr_reviewers[op[r].pr])
  BY <1>1 DEF CallOK, Replacing, Path, TypeOK, Calls
<1>3. Eligible(op[r].user, prs[op[r].pr].author)
  BY <1>2 DEF EligibleInv, ReviewersAreEligible
<1>4. PICK t \in Teams : <<t, mem[r].row.author>> \in team_members
  BY <1>2, <1>3 DEF Eligible
<1>5. {t2 \in Teams : <<t2, mem[r].row.author>> \in team_members} # {}
  BY <1>4
<1>6. Verdict(r, "nil", "candidates")
  BY <1>5 DEF FindTeam, GetTeamIDByUserID, Is
<1> QED
  BY <1>1, <1>6 DEF Verdict, TypeOK

(* The errors of a statement, before the ones are taken out that ErrorsInv *)
(* excludes.                                                               *)
LEMMA StatementGives ==
  ASSUME GivenInv, NEW r \in Requests, PRStep(r)
  PROVE  GivenOK(r)'
<1>1. TypeOK /\ CallOK(r) /\ Quiet(r) /\ ErrorsInv /\ EligibleInv /\ op' = op
  BY PRStepIsLocal DEF GivenInv, ErrorsInv, IInv, Local
<1>2. ErrorOK(r)'
  BY <1>1, StatementErrors
<1>3. \A e, label : Verdict(r, e, label) => err'[r] = e
  BY <1>1 DEF Verdict, TypeOK
<1>4. \A label : Goto(r, label) => err'[r] = err[r]
  BY DEF Goto
<1>5. SUFFICES ASSUME op[r].kind \in Routed
               PROVE  /\ err'[r] \in {"nil", "ErrInternal"} \union Given[op[r].kind]
                      /\ err'[r] = "ErrUserNoTeam" => NewInTeams(op[r].user)'
  BY <1>1 DEF GivenOK
<1>6. CASE FindAuthor(r)
  <2>1. Is(r, "CreatePR")
    BY <1>1, <1>6, KindAt DEF FindAuthor, At, Is
  <2>2. err'[r] \in {"nil", "ErrUserNotFound"}
    BY <1>3, <1>6 DEF FindAuthor, GetUserByID
  <2> QED
    BY <2>1, <2>2 DEF Is, Given
<1>7. CASE FindTeam(r)
  <2>1. Is(r, "CreatePR") \/ Is(r, "ReassignReviewer")
    BY <1>1, <1>7, KindAt DEF FindTeam, At, Is
  <2>2. CASE Is(r, "ReassignReviewer")
    BY <1>1, <1>7, <2>2, TeamFound
  <2>3. CASE Is(r, "CreatePR")
    <3>1. err'[r] \in {"nil", "ErrUserNoTeam"} /\ team_members' = team_members
          /\ (err'[r] = "ErrUserNoTeam" => \A t \in Teams : <<t, op[r].user>> \notin team_members)
      BY <1>3, <1>7, <2>3 DEF FindTeam, GetTeamIDByUserID, ReadOnly
    <3> QED
      BY <1>1, <2>3, <3>1 DEF Is, Given, NewInTeams
  <2> QED
    BY <2>1, <2>2, <2>3
<1>8. CASE ChooseReviewers(r) \/ MergeLoadsReviewers(r) \/ ReloadReviewers(r)
  <2>1. err'[r] = "nil"
    BY <1>1, <1>4, <1>8 DEF ChooseReviewers, MergeLoadsReviewers, ReloadReviewers, Quiet, At
  <2> QED
    BY <2>1
<1>9. CASE InsertRow(r)
  <2>1. Is(r, "CreatePR")
    BY <1>1, <1>9, KindAt DEF InsertRow, At, Is
  <2>2. err'[r] \in {"nil", "ErrPRExists", "ErrUserNotFound"}
    BY <1>3, <1>9 DEF InsertRow, InsertPR
  <2> QED
    BY <2>1, <2>2 DEF Is, Given
<1>10. CASE CountAssigned(r)
  <2>1. err'[r] \in {"nil", "ErrTooManyReviewers"}
    BY <1>3, <1>10 DEF CountAssigned, CountReviewersByPRID
  <2> QED
    BY <1>2, <2>1 DEF ErrorOK
<1>11. CASE AssignNext(r)
  <2>1. Is(r, "CreatePR") \/ Is(r, "ReassignReviewer")
    BY <1>1, <1>11, KindAt DEF AssignNext, At, Is
  <2>2. err'[r] \in {"nil", "ErrReviewerAlreadyAssigned", "ErrPRNotFound", "ErrUserNotFound"}
        /\ (err'[r] = "ErrPRNotFound" => Row(r).status = "NONE")
    <3>1. PICK label \in {"count", "commit", "reload"} :
            AddReviewer(r, mem[r].selected[mem[r].next], label)
      BY <1>11 DEF AssignNext
    <3> QED
      BY <1>3, <3>1 DEF AddReviewer
  <2>3. Is(r, "CreatePR") => Row(r).status # "NONE"
    BY <1>1, <1>11 DEF AssignNext, At, CallOK, Creating, Row, Fresh, NoPR
  <2> QED
    BY <1>2, <2>1, <2>2, <2>3 DEF ErrorOK, Is, Given
<1>12. CASE LockRow(r) \/ Reload(r)
  <2>1. op[r].kind \in {"MergePR", "ReassignReviewer"}
    BY <1>1, <1>5, <1>12, KindAt DEF LockRow, Reload, At, Routed
  <2>2. err'[r] \in {"nil", "ErrPRNotFound"}
    BY <1>3, <1>12 DEF LockRow, Reload, SelectPRForUpdate, SelectPR
  <2> QED
    BY <2>1, <2>2 DEF Given
<1>13. CASE ReassignLoadsReviewers(r) \/ ChooseReplacement(r) \/ RemoveOld(r)
  <2>1. Is(r, "ReassignReviewer")
    BY <1>1, <1>13, KindAt DEF ReassignLoadsReviewers, ChooseReplacement, RemoveOld, At, Is
  <2>2. err'[r] \in {"nil", "ErrAlreadyMerged", "ErrReviewerNotAssigned",
                     "ErrNoReplacementCandidates"}
    BY <1>3, <1>13 DEF ReassignLoadsReviewers, ChooseReplacement, RemoveOld, RemoveReviewer
  <2> QED
    BY <2>1, <2>2 DEF Is, Given
<1>14. CASE SetMerged(r)
  <2>1. Is(r, "MergePR")
    BY <1>1, <1>14, KindAt DEF SetMerged, At, Is
  <2>2. err'[r] \in {"nil", "ErrPRNotFound", "ErrAlreadyMerged"}
    BY <1>3, <1>14 DEF SetMerged, UpdateStatus
  <2> QED
    BY <1>1, <1>2, <2>1, <2>2 DEF ErrorOK, Is, Given
<1> QED
  BY <1>6, <1>7, <1>8, <1>9, <1>10, <1>11, <1>12, <1>13, <1>14 DEF PRStep

LEMMA GivenMoves ==
  ASSUME GivenInv, [Next]_vars, NEW r \in Requests, Moves(r)
  PROVE  GivenOK(r)'
<1>1. TypeOK /\ CallOK(r) /\ IInv /\ GivenOK(r)
  BY DEF GivenInv, ErrorsInv, IInv
<1>2. CASE PRStep(r)
  BY <1>2, StatementGives
<1>3. CASE UserStep(r)
  <2>1. op[r].kind = "UpdateUserActive" /\ op' = op
    BY <1>1, <1>3, KindAt DEF UserStep, FindUser, SetActive, At, GetUserByID, UpdateUserActive,
       ReadOnly, Private
  <2> QED
    BY <2>1 DEF GivenOK, Routed
<1>4. CASE ~PRStep(r) /\ ~UserStep(r)
  <2>1. op' = op /\ (err'[r] = err[r] \/ err'[r] = "ErrInternal")
    BY <1>1, <1>4 DEF Moves, Step, Begin, Commit, Rollback, Settle, ServerAborts, ServerCommits,
       EndTx, CallFails, TypeOK
  <2> QED
    BY <1>1, <2>1, NewTeamsStayNew DEF GivenOK
<1> QED
  BY <1>2, <1>3, <1>4

LEMMA GivenNext ==
  ASSUME GivenInv, [Next]_vars
  PROVE  GivenInv'
<1>1. IInv /\ EligibleInv' /\ ErrorsInv'
  BY EligibleNext, ErrorsNext DEF GivenInv, EligibleInv
<1>2. ASSUME NEW q \in Requests, op' = op, err'[q] = err[q]
      PROVE  GivenOK(q)'
  BY <1>1, <1>2, NewTeamsStayNew DEF GivenInv, GivenOK
<1>3. ASSUME NEW r \in Requests, Moves(r), NEW q \in Requests
      PROVE  GivenOK(q)'
  <2>1. CASE q = r
    BY <1>3, <2>1, GivenMoves
  <2>2. CASE q # r
    BY <1>1, <1>2, <1>3, <2>2, OthersStay
  <2> QED
    BY <2>1, <2>2
<1>4. \A q \in Requests : GivenOK(q)'
  BY <1>2, <1>3 DEF Next, Moves, TeamAdded, vars
<1> QED
  BY <1>1, <1>4 DEF GivenInv

(* The handlers' switches, and the codes that go with the statuses. *)
LEMMA SwitchesApart ==
  ASSUME NEW k \in Routed
  PROVE  /\ NotFound[k] \intersect Conflict[k] = {}
         /\ "nil" \notin NotFound[k] /\ "nil" \notin Conflict[k]
<1>1. CASE k = "CreatePR"
  BY <1>1 DEF NotFound, Conflict
<1>2. CASE k = "MergePR"
  BY <1>2 DEF NotFound, Conflict
<1>3. CASE k = "ReassignReviewer"
  BY <1>3 DEF NotFound, Conflict
<1> QED
  BY <1>1, <1>2, <1>3 DEF Routed

LEMMA AnswerOfSuccess ==
  ASSUME NEW r \in Requests, NEW k \in Routed, Is(r, k), err[r] = "nil"
  PROVE  Answer(r) = <<Success[k], "">>
<1>1. Status(r) = Success[k]
  BY SwitchesApart DEF Status, Is
<1> QED
  BY <1>1 DEF Answer

LEMMA AnswerOfNotFound ==
  ASSUME NEW r \in Requests, NEW k \in Routed, Is(r, k), err[r] \in NotFound[k]
  PROVE  Answer(r) = <<404, "NOT_FOUND">>
<1>1. err[r] # "nil" /\ Status(r) = 404
  BY SwitchesApart DEF Status, Is
<1> QED
  BY <1>1 DEF Answer, HTTPCodeConverter

LEMMA AnswerOfConflict ==
  ASSUME NEW r \in Requests, NEW k \in Routed, Is(r, k), err[r] \in Conflict[k],
         err[r] \in DOMAIN ConflictCode
  PROVE  Answer(r) = <<409, ConflictCode[err[r]]>>
<1>1. err[r] # "nil" /\ Status(r) = 409
  BY SwitchesApart DEF Status, Is
<1>2. HTTPCodeConverter(409, err[r]) = ConflictCode[err[r]]
  BY DEF HTTPCodeConverter
<1> QED
  BY <1>1, <1>2 DEF Answer

LEMMA AnswerOfOthers ==
  ASSUME NEW r \in Requests, NEW k \in Routed, Is(r, k), err[r] # "nil",
         err[r] \notin NotFound[k], err[r] \notin Conflict[k]
  PROVE  Answer(r) = <<500, "INTERNAL">>
<1>1. Status(r) = 500
  BY DEF Status, Is
<1> QED
  BY <1>1 DEF Answer, HTTPCodeConverter

(* The documentation lists the statuses that belong to these errors. *)
LEMMA DocumentedCodes ==
  ASSUME NEW k \in Routed
  PROVE  /\ <<Success[k], "">> \in Documented[k] /\ <<404, "NOT_FOUND">> \in Documented[k]
         /\ \A e \in Conflict[k] :
              e \in DOMAIN ConflictCode /\ <<409, ConflictCode[e]>> \in Documented[k]
<1>1. CASE k = "CreatePR"
  <2>1. <<201, "">> \in Documented[k]
    BY <1>1, SMT DEF Documented
  <2>2. <<404, "NOT_FOUND">> \in Documented[k]
    BY <1>1, SMT DEF Documented
  <2>3. <<409, "PR_EXISTS">> \in Documented[k]
    BY <1>1, SMT DEF Documented
  <2>4. Success[k] = 201
    BY <1>1 DEF Success
  <2>5. ASSUME NEW e \in Conflict[k]
        PROVE  e \in DOMAIN ConflictCode /\ <<409, ConflictCode[e]>> \in Documented[k]
    <3>1. CASE e = "ErrPRExists"
      <4>1. e \in DOMAIN ConflictCode /\ ConflictCode[e] = "PR_EXISTS"
        BY <3>1 DEF ConflictCode
      <4> QED
        BY <2>3, <4>1, Zenon
    <3> QED
      BY <1>1, <2>5, <3>1 DEF Conflict
  <2> QED
    BY <2>1, <2>2, <2>4, <2>5, Zenon
<1>2. CASE k = "MergePR"
  <2>1. <<200, "">> \in Documented[k]
    BY <1>2, SMT DEF Documented
  <2>2. <<404, "NOT_FOUND">> \in Documented[k]
    BY <1>2, SMT DEF Documented
  <2>3. Success[k] = 200
    BY <1>2 DEF Success
  <2>4. Conflict[k] = {}
    BY <1>2 DEF Conflict
  <2> QED
    BY <2>1, <2>2, <2>3, <2>4, Zenon
<1>3. CASE k = "ReassignReviewer"
  <2>1. <<200, "">> \in Documented[k]
    BY <1>3, SMT DEF Documented
  <2>2. <<404, "NOT_FOUND">> \in Documented[k]
    BY <1>3, SMT DEF Documented
  <2>3. <<409, "PR_MERGED">> \in Documented[k]
    BY <1>3, SMT DEF Documented
  <2>4. <<409, "NOT_ASSIGNED">> \in Documented[k]
    BY <1>3, SMT DEF Documented
  <2>5. <<409, "NO_CANDIDATE">> \in Documented[k]
    BY <1>3, SMT DEF Documented
  <2>6. Success[k] = 200
    BY <1>3 DEF Success
  <2>7. ASSUME NEW e \in Conflict[k]
        PROVE  e \in DOMAIN ConflictCode /\ <<409, ConflictCode[e]>> \in Documented[k]
    <3>1. CASE e = "ErrAlreadyMerged"
      <4>1. e \in DOMAIN ConflictCode /\ ConflictCode[e] = "PR_MERGED"
        BY <3>1 DEF ConflictCode
      <4> QED
        BY <2>3, <4>1, Zenon
    <3>2. CASE e = "ErrReviewerNotAssigned"
      <4>1. e \in DOMAIN ConflictCode /\ ConflictCode[e] = "NOT_ASSIGNED"
        BY <3>2 DEF ConflictCode
      <4> QED
        BY <2>4, <4>1, Zenon
    <3>3. CASE e = "ErrNoReplacementCandidates"
      <4>1. e \in DOMAIN ConflictCode /\ ConflictCode[e] = "NO_CANDIDATE"
        BY <3>3 DEF ConflictCode
      <4> QED
        BY <2>5, <4>1, Zenon
    <3> QED
      BY <1>3, <2>7, <3>1, <3>2, <3>3 DEF Conflict
  <2> QED
    BY <2>1, <2>2, <2>6, <2>7, Zenon
<1> QED
  BY <1>1, <1>2, <1>3 DEF Routed

(* They know all that the service gives them but one. *)
LEMMA AnswersDocumented ==
  ASSUME GivenInv
  PROVE  UndocumentedOnlyWithoutTeam
<1> SUFFICES ASSUME NEW r \in Requests, NEW k \in Routed, Is(r, k), err[r] # "ErrInternal",
                    Answer(r) \notin Documented[k]
             PROVE  k = "CreatePR" /\ Answer(r) = <<500, "INTERNAL">> /\ NewInTeams(op[r].user)
  BY DEF UndocumentedOnlyWithoutTeam, HasAnswer
<1>1. op[r].kind = k /\ err[r] \in {"nil"} \union Given[k]
      /\ (err[r] = "ErrUserNoTeam" => NewInTeams(op[r].user))
  BY DEF GivenInv, GivenOK, Is
<1>2. err[r] # "nil"
  <2>1. ASSUME err[r] = "nil" PROVE FALSE
    <3>1. Answer(r) = <<Success[k], "">>
      BY <2>1, AnswerOfSuccess
    <3>2. <<Success[k], "">> \in Documented[k]
      BY DocumentedCodes
    <3> QED
      BY <3>1, <3>2, Zenon
  <2> QED
    BY <2>1
<1>3. err[r] \notin NotFound[k]
  <2>1. ASSUME err[r] \in NotFound[k] PROVE FALSE
    <3>1. Answer(r) = <<404, "NOT_FOUND">>
      BY <2>1, AnswerOfNotFound
    <3>2. <<404, "NOT_FOUND">> \in Documented[k]
      BY DocumentedCodes
    <3> QED
      BY <3>1, <3>2, Zenon
  <2> QED
    BY <2>1
<1>4. err[r] \notin Conflict[k]
  <2>1. ASSUME err[r] \in Conflict[k] PROVE FALSE
    <3>1. err[r] \in DOMAIN ConflictCode
      BY <2>1, DocumentedCodes, Zenon
    <3>2. Answer(r) = <<409, ConflictCode[err[r]]>>
      BY <2>1, <3>1, AnswerOfConflict
    <3>3. <<409, ConflictCode[err[r]]>> \in Documented[k]
      BY <2>1, DocumentedCodes, Zenon
    <3> QED
      BY <3>2, <3>3, Zenon
  <2> QED
    BY <2>1
<1>5. k = "CreatePR" /\ err[r] = "ErrUserNoTeam"
  BY <1>1, <1>2, <1>3, <1>4 DEF Given, NotFound, Conflict, Routed
<1>6. Answer(r) = <<500, "INTERNAL">>
  BY <1>2, <1>3, <1>4, AnswerOfOthers
<1> QED
  BY <1>1, <1>5, <1>6

(* The endpoints answer what is documented, for any number of calls that   *)
(* interfere, except to an author who was in no team.                      *)
THEOREM Documentation == Spec => []UndocumentedOnlyWithoutTeam
<1>1. Init => GivenInv
  BY EligibleInit, ErrorsInit DEF Init, GivenInv, GivenOK
<1>2. GivenInv /\ [Next]_vars => GivenInv'
  BY GivenNext
<1>3. GivenInv => UndocumentedOnlyWithoutTeam
  BY AnswersDocumented
<1> QED
  BY <1>1, <1>2, <1>3, PTL DEF Spec
-----------------------------------------------------------------------------
(* Who is named as the new reviewer.                                       *)

(* A request gets its instant when it begins, and keeps it. *)
LEMMA InstantsMove ==
  ASSUME IInv, NEW r \in Requests, Moves(r)
  PROVE  \/ clock' = clock /\ tx'[r].began = tx[r].began
         \/ clock' = clock + 1 /\ tx'[r].began = clock + 1
<1>1. TypeOK /\ tx[r] \in Txs
  BY DEF IInv, TypeOK, Txs
<1>2. CASE Begin(r, FirstStep[op[r].kind])
  BY <1>1, <1>2 DEF Begin, TypeOK
<1>3. CASE Commit(r) \/ Rollback(r) \/ Settle(r) \/ CallFails(r)
  BY <1>1, <1>3 DEF Commit, Rollback, Settle, ServerAborts, ServerCommits, EndTx, NoTx, CallFails,
     TypeOK
<1>4. CASE InsertRow(r) \/ AssignNext(r) \/ SetMerged(r)
  BY <1>1, <1>4 DEF InsertRow, InsertPR, AssignNext, AddReviewer, SetMerged, UpdateStatus, Private,
     TypeOK
<1>5. CASE RemoveOld(r)
  <2>1. clock' = clock /\ (tx'[r] = tx[r] \/ tx'[r] = Deleted(tx[r], op[r].user))
    BY <1>1, <1>5 DEF RemoveOld, RemoveReviewer, Private, TypeOK
  <2> QED
    BY <1>1, <2>1 DEF Deleted, Txs
<1>6. CASE FindAuthor(r) \/ FindTeam(r) \/ ChooseReviewers(r) \/ CountAssigned(r) \/ LockRow(r)
  BY <1>6 DEF FindAuthor, GetUserByID, FindTeam, GetTeamIDByUserID, ChooseReviewers,
     CountAssigned, CountReviewersByPRID, LockRow, SelectPRForUpdate, ReadOnly, Private
<1>7. CASE MergeLoadsReviewers(r) \/ ReassignLoadsReviewers(r) \/ ChooseReplacement(r)
           \/ Reload(r) \/ ReloadReviewers(r)
  BY <1>7 DEF MergeLoadsReviewers, ReassignLoadsReviewers, ChooseReplacement, Reload, SelectPR,
     ReloadReviewers, ReadOnly
<1>8. CASE UserStep(r)
  BY <1>1, <1>8 DEF UserStep, FindUser, GetUserByID, SetActive, UpdateUserActive, ReadOnly, Private,
     TypeOK
<1> QED
  BY <1>2, <1>3, <1>4, <1>5, <1>6, <1>7, <1>8 DEF Moves, Step, PRStep

(* What is over stays as it is. *)
LEMMA DoneStays ==
  ASSUME IInv, NEW r \in Requests, Moves(r), NEW q \in Requests, pc[q] = "done"
  PROVE  q # r /\ op' = op /\ pc'[q] = "done" /\ err'[q] = err[q] /\ tx'[q] = tx[q]
<1>1. q # r
  BY DEF Moves, Step, Settle, Begin, Commit, Rollback, ServerAborts, ServerCommits, CallFails,
     PRStep, FindAuthor, FindTeam, ChooseReviewers, InsertRow, CountAssigned, AssignNext, LockRow,
     MergeLoadsReviewers, ReassignLoadsReviewers, ChooseReplacement, RemoveOld, SetMerged, Reload,
     ReloadReviewers, UserStep, FindUser, SetActive, At
<1>2. op' = op /\ pc'[q] = pc[q] /\ err'[q] = err[q]
  BY <1>1, OthersStay
<1>3. tx'[q] = tx[q]
  BY <1>1, StepOK DEF Moves, Frame
<1> QED
  BY <1>1, <1>2, <1>3

LEMMA AssignedStays ==
  ASSUME IInv, NEW r \in Requests, Moves(r), NEW q \in Requests, NEW p, HasAssigned(q, p)
  PROVE  q # r /\ HasAssigned(q, p)' /\ tx'[q].began = tx[q].began
BY DoneStays DEF HasAssigned, Is

(* No two begin at one instant. *)
LEMMA DatedMoves ==
  ASSUME DatesInv, NEW r \in Requests, Moves(r), NEW q \in Requests
  PROVE  Dated(q)' /\ clock' > 0
<1>1. IInv /\ clock \in Nat /\ clock > 0 /\ \A x \in Requests : tx[x].began \in Nat /\ Dated(x)
  BY DEF DatesInv, AnswersInv, IInv, TypeOK
<1>2. \A x \in Requests \ {r} : tx'[x] = tx[x]
  BY <1>1, StepOK DEF Moves, Frame
<1>3. CASE clock' = clock /\ tx'[r].began = tx[r].began
  <2>1. \A x \in Requests : tx'[x].began = tx[x].began
    BY <1>2, <1>3
  <2> QED
    BY <1>1, <1>3, <2>1 DEF Dated
<1>4. CASE clock' = clock + 1 /\ tx'[r].began = clock + 1
  <2>1. \A x \in Requests \ {r} : tx'[x].began = tx[x].began /\ tx[x].began <= clock
    BY <1>1, <1>2 DEF Dated
  <2>2. CASE q = r
    BY <1>1, <1>4, <2>1, <2>2 DEF Dated
  <2>3. CASE q # r
    BY <1>1, <1>4, <2>1, <2>3 DEF Dated
  <2> QED
    BY <2>2, <2>3
<1> QED
  BY <1>1, <1>3, <1>4, InstantsMove

(* Who inserts, and what a COMMIT in doubt is answered with. *)
LEMMA InsertingMoves ==
  ASSUME DatesInv, NEW r \in Requests, Moves(r)
  PROVE  Inserting(r)'
<1>1. IInv /\ TypeOK /\ CallOK(r) /\ Inserting(r) /\ tx[r] \in Txs /\ op' = op
  BY StepOK DEF DatesInv, AnswersInv, IInv, TypeOK, Txs, Moves, Frame
<1>2. pc'[r] = "orphanCommit" => err'[r] = "ErrInternal"
  <2>1. CASE PRStep(r) \/ UserStep(r)
    BY <1>1, <2>1, StatementOutcome DEF Outcome
  <2>2. CASE Begin(r, FirstStep[op[r].kind])
    <3>1. pc'[r] = FirstStep[op[r].kind] /\ op[r].kind \in Kinds
      BY <1>1, <2>2, KindAt DEF Begin, TypeOK
    <3> QED
      BY <3>1 DEF FirstStep, Kinds
  <2>3. CASE Commit(r) \/ Rollback(r) \/ Settle(r)
    BY <1>1, <2>3 DEF Commit, Rollback, Settle, ServerAborts, ServerCommits, EndTx, TypeOK
  <2>4. CASE CallFails(r)
    BY <1>1, <2>4 DEF CallFails, TypeOK
  <2> QED
    BY <2>1, <2>2, <2>3, <2>4 DEF Moves, Step
<1>3. tx'[r].added # {} => Is(r, "CreatePR") \/ Is(r, "ReassignReviewer")
  <2>1. CASE tx'[r].added = tx[r].added
    BY <1>1, <2>1 DEF Inserting
  <2>2. CASE Begin(r, FirstStep[op[r].kind]) \/ CallFails(r)
    BY <1>1, <2>1, <2>2 DEF Begin, CallFails, TypeOK
  <2>3. CASE Commit(r) \/ Rollback(r) \/ Settle(r)
    <3>1. EndTx(r)
      BY <2>3 DEF Commit, Rollback, Settle, ServerAborts, ServerCommits
    <3>2. tx'[r] = [NoTx EXCEPT !.began = tx[r].began]
      BY <1>1, <3>1 DEF EndTx, TypeOK
    <3>3. tx'[r].added = {}
      BY <3>2 DEF NoTx
    <3> QED
      BY <3>3
  <2>4. CASE AssignNext(r) \/ RemoveOld(r)
    BY <1>1, <2>4, KindAt DEF AssignNext, RemoveOld, At, Is
  <2>5. CASE InsertRow(r) \/ SetMerged(r)
    BY <1>1, <2>1, <2>5 DEF InsertRow, InsertPR, SetMerged, UpdateStatus, TypeOK
  <2>6. CASE FindAuthor(r) \/ FindTeam(r) \/ ChooseReviewers(r) \/ CountAssigned(r) \/ LockRow(r)
    BY <2>1, <2>6 DEF FindAuthor, GetUserByID, FindTeam, GetTeamIDByUserID, ChooseReviewers,
       CountAssigned, CountReviewersByPRID, LockRow, SelectPRForUpdate, ReadOnly
  <2>7. CASE MergeLoadsReviewers(r) \/ ReassignLoadsReviewers(r) \/ ChooseReplacement(r)
             \/ Reload(r) \/ ReloadReviewers(r)
    BY <2>1, <2>7 DEF MergeLoadsReviewers, ReassignLoadsReviewers, ChooseReplacement, Reload,
       SelectPR, ReloadReviewers, ReadOnly
  <2>8. CASE UserStep(r)
    BY <1>1, <2>1, <2>8 DEF UserStep, FindUser, GetUserByID, SetActive, UpdateUserActive, ReadOnly,
       TypeOK
  <2> QED
    BY <2>2, <2>3, <2>4, <2>5, <2>6, <2>7, <2>8 DEF Moves, Step, PRStep
<1> QED
  BY <1>1, <1>2, <1>3 DEF Inserting, Is

(* Rows of reviewers come and go with the transaction of r. *)
LEMMA SignedMoves ==
  ASSUME DatesInv, NEW r \in Requests, Moves(r)
  PROVE  Signed'
<1>1. /\ IInv /\ TypeOK /\ CallOK(r) /\ Inserting(r) /\ Quiet(r) /\ Signed
      /\ op[r].pr \in PRs /\ op' = op
  BY StepOK DEF DatesInv, AnswersInv, ErrorsInv, IInv, TypeOK, Calls, Moves, Frame
<1>2. SUFFICES ASSUME NEW p \in PRs, NEW u \in Users, pr_reviewers'[p][u] > 1
               PROVE  \E q \in Requests :
                        HasAssigned(q, p)' /\ tx'[q].began = pr_reviewers'[p][u]
  BY DEF Signed
<1>3. CASE pr_reviewers'[p][u] = pr_reviewers[p][u]
  <2>1. PICK q \in Requests : HasAssigned(q, p) /\ tx[q].began = pr_reviewers[p][u]
    BY <1>1, <1>2, <1>3 DEF Signed
  <2>2. HasAssigned(q, p)' /\ tx'[q].began = tx[q].began
    BY <1>1, <2>1, AssignedStays
  <2> QED
    BY <1>3, <2>1, <2>2
<1>4. CASE Commit(r) \/ ServerCommits(r)
  <2>1. /\ pc'[r] = "done" /\ err' = err /\ tx'[r].began = tx[r].began
        /\ err[r] \in {"nil", "ErrInternal"}
        /\ pr_reviewers' = [pr_reviewers EXCEPT ![op[r].pr] = Assigned(r)]
    BY <1>1, <1>4 DEF Commit, ServerCommits, Publish, EndTx, NoTx, TypeOK, Quiet, Inserting
  <2>2. CASE p # op[r].pr \/ u \notin tx[r].added
    <3>1. pr_reviewers'[p][u] \in {0, pr_reviewers[p][u]}
      BY <1>1, <2>1, <2>2 DEF Assigned, TypeOK
    <3> QED
      BY <1>2, <1>3, <3>1
  <2>3. CASE p = op[r].pr /\ u \in tx[r].added
    <3>1. pr_reviewers'[p][u] = tx[r].began
      BY <1>1, <2>1, <2>3 DEF Assigned, TypeOK
    <3>2. HasAssigned(r, p)'
      BY <1>1, <2>1, <2>3 DEF HasAssigned, Inserting, Is
    <3> QED
      BY <2>1, <3>1, <3>2
  <2> QED
    BY <2>2, <2>3
<1>5. CASE ~Commit(r) /\ ~ServerCommits(r)
  <2>1. CASE PRStep(r) \/ UserStep(r)
    BY <1>1, <1>3, <2>1, PRStepIsLocal, UserStepOK DEF Local
  <2>2. CASE Begin(r, FirstStep[op[r].kind]) \/ Rollback(r) \/ ServerAborts(r) \/ CallFails(r)
    BY <1>3, <2>2 DEF Begin, Rollback, ServerAborts, Discard, CallFails
  <2> QED
    BY <1>5, <2>1, <2>2 DEF Moves, Step, Settle
<1> QED
  BY <1>4, <1>5

(* The reviewers as ReassignReviewer reads them before it answers: the one *)
(* it has inserted is the last of them, or the last one is of later date   *)
(* and somebody else's.                                                    *)
LEMMA LastReviewer ==
  ASSUME DatesInv, NEW r \in Requests, ReloadReviewers(r), Is(r, "ReassignReviewer")
  PROVE  Named(r)'
<1> DEFINE p == op[r].pr
           x == mem[r].selected[1]
           ids == Reviewers(Assigned(r))
           n == Cardinality(ids)
<1>1. /\ IInv /\ TypeOK /\ CallOK(r) /\ Signed /\ Dated(r) /\ p \in PRs
      /\ pc[r] = "reloaded" /\ op' = op /\ tx' = tx
  BY DEF DatesInv, AnswersInv, IInv, TypeOK, Calls, ReloadReviewers, At, ReadOnly
<1>2. /\ tx[r].added = {x} /\ x \in Users /\ tx[r].removed = {op[r].user}
      /\ tx[r].began \in Nat /\ tx[r].began > 1
  BY <1>1 DEF CallOK, Replacing, Path, Begun, Dated, TypeOK
<1>3. PICK s \in LoadReviewers(r) : mem' = [mem EXCEPT ![r].reviewers = s]
  BY DEF ReloadReviewers
<1>4. mem'[r].reviewers = s /\ mem'[r].selected = mem[r].selected
  BY <1>1, <1>3 DEF TypeOK
<1>5. n \in Nat
  BY FiniteAssumption, FS_Subset, FS_CardinalityType DEF Reviewers
<1>6. /\ s \in [1 .. n -> ids] /\ \A v \in ids : \E i \in 1 .. n : s[i] = v
      /\ \A i, j \in DOMAIN s : i < j => Assigned(r)[s[i]] <= Assigned(r)[s[j]]
  BY DEF LoadReviewers, Surjection
<1>7. x \in ids
  BY <1>2 DEF Reviewers, Assigned
<1>8. PICK i \in 1 .. n : s[i] = x
  BY <1>6, <1>7
<1>9. Len(s) = n /\ n > 0 /\ s # <<>>
  BY <1>5, <1>6, <1>8
<1>10. ReplacedBy(r)' = s[n]
  BY <1>4, <1>9 DEF ReplacedBy
<1>11. CASE s[n] = x
  BY <1>4, <1>10, <1>11 DEF Named
<1>12. CASE s[n] # x
  <2> DEFINE v == s[n]
  <2>1. v \in ids /\ v \in Users /\ Assigned(r)[v] # 0
    BY <1>5, <1>6, <1>9 DEF Reviewers
  <2>2. Assigned(r)[x] <= Assigned(r)[v]
    <3>1. i \in DOMAIN s /\ n \in DOMAIN s /\ i < n
      BY <1>5, <1>6, <1>8, <1>9, <1>12
    <3> QED
      BY <1>6, <1>8, <3>1
  <2>3. Assigned(r)[x] = tx[r].began /\ Assigned(r)[v] = pr_reviewers[p][v]
    BY <1>2, <1>12, <2>1 DEF Assigned
  <2>4. pr_reviewers[p][v] \in Nat /\ pr_reviewers[p][v] >= tx[r].began
    BY <1>1, <1>2, <2>1, <2>2, <2>3 DEF TypeOK
  <2>5. PICK q \in Requests : HasAssigned(q, p) /\ tx[q].began = pr_reviewers[p][v]
    BY <1>1, <1>2, <2>1, <2>4 DEF Signed
  <2>6. q # r
    BY <1>1, <2>5 DEF HasAssigned
  <2>7. tx[q].began > tx[r].began
    BY <1>1, <1>2, <2>4, <2>5, <2>6 DEF Dated
  <2>8. HasAssigned(q, p)' /\ tx'[q].began > tx'[r].began
    <3>1. Moves(r)
      BY DEF Moves, Step, PRStep
    <3> QED
      BY <1>1, <2>5, <2>7, <3>1, AssignedStays
  <2> QED
    BY <1>1, <2>8 DEF Named
<1> QED
  BY <1>11, <1>12

LEMMA NamedMoves ==
  ASSUME DatesInv, NEW r \in Requests, Moves(r)
  PROVE  Named(r)'
<1>1. /\ IInv /\ TypeOK /\ CallOK(r) /\ Named(r) /\ Told(r) /\ op' = op /\ op[r].kind \in Kinds
  BY StepOK, KindAt DEF DatesInv, AnswersInv, IInv, Moves, Frame
<1>2. SUFFICES ASSUME Is(r, "ReassignReviewer"), err'[r] = "nil",
                      pc'[r] = "commit" \/ Answered(r)'
               PROVE  Named(r)'
  BY <1>1 DEF Named, Is
<1>3. CASE ReloadReviewers(r)
  BY <1>2, <1>3, LastReviewer
<1>4. CASE (PRStep(r) \/ UserStep(r)) /\ ~ReloadReviewers(r)
  <2>1. pc'[r] = "commit"
    BY <1>1, <1>2, <1>4, StatementOutcome DEF Outcome, Answered
  <2>2. CASE InsertRow(r) \/ SetMerged(r) \/ ChooseReviewers(r) \/ FindAuthor(r) \/ UserStep(r)
    BY <1>1, <1>2, <2>2, KindAt DEF InsertRow, SetMerged, ChooseReviewers, FindAuthor, UserStep,
       FindUser, SetActive, At, Is
  <2>3. CASE AssignNext(r)
    BY <1>1, <1>2, <2>1, <2>3 DEF AssignNext, AddReviewer, Verdict, Is, TypeOK
  <2>4. CASE FindTeam(r) \/ CountAssigned(r) \/ LockRow(r) \/ RemoveOld(r) \/ Reload(r)
    BY <1>1, <2>1, <2>4 DEF FindTeam, GetTeamIDByUserID, CountAssigned, CountReviewersByPRID,
       LockRow, SelectPRForUpdate, RemoveOld, RemoveReviewer, Reload, SelectPR, Verdict, TypeOK
  <2>5. CASE MergeLoadsReviewers(r) \/ ReassignLoadsReviewers(r) \/ ChooseReplacement(r)
    BY <1>1, <1>2, <2>1, <2>5 DEF MergeLoadsReviewers, ReassignLoadsReviewers, ChooseReplacement,
       Verdict, Is, TypeOK
  <2> QED
    BY <1>4, <2>2, <2>3, <2>4, <2>5 DEF PRStep
<1>5. CASE Begin(r, FirstStep[op[r].kind])
  <2>1. pc'[r] = "lock"
    BY <1>1, <1>2, <1>5 DEF Begin, FirstStep, Is, TypeOK
  <2> QED
    BY <1>2, <2>1 DEF Answered
<1>6. CASE Commit(r) \/ Rollback(r) \/ Settle(r)
  <2>1. /\ err[r] = "nil" /\ mem'[r] = mem[r] /\ (pc[r] = "commit" \/ Answered(r))
        /\ tx'[r].began = tx[r].began
    BY <1>1, <1>2, <1>6 DEF Commit, Rollback, Settle, ServerAborts, ServerCommits, EndTx, NoTx,
       Answered, Told, Is, TypeOK
  <2>2. CASE ReplacedBy(r) = mem[r].selected[1]
    BY <2>1, <2>2 DEF Named, ReplacedBy
  <2>3. CASE ReplacedBy(r) # mem[r].selected[1]
    <3>1. PICK q \in Requests : HasAssigned(q, op[r].pr) /\ tx[q].began > tx[r].began
      BY <1>1, <1>2, <2>1, <2>3 DEF Named
    <3>2. HasAssigned(q, op[r].pr)' /\ tx'[q].began > tx'[r].began
      BY <1>1, <2>1, <3>1, AssignedStays
    <3> QED
      BY <1>1, <3>2 DEF Named
  <2> QED
    BY <2>2, <2>3
<1>7. CASE CallFails(r)
  <2>1. err'[r] # "nil"
    BY <1>1, <1>2, <1>7 DEF CallFails, Told, Is, TypeOK
  <2> QED
    BY <1>2, <2>1
<1> QED
  BY <1>3, <1>4, <1>5, <1>6, <1>7 DEF Moves, Step

LEMMA DatesInit == Init => DatesInv
<1> SUFFICES ASSUME Init PROVE DatesInv
  OBVIOUS
<1>1. AnswersInv /\ ErrorsInv
  BY AnswersInit, ErrorsInit
<1>2. Signed
  BY DEF Init, Signed
<1>3. clock > 0 /\ \A r \in Requests : Dated(r) /\ Inserting(r) /\ Named(r)
  BY DEF Init, NoTx, Dated, Inserting, Named, Answered
<1> QED
  BY <1>1, <1>2, <1>3 DEF DatesInv

LEMMA DatesNext ==
  ASSUME DatesInv, [Next]_vars
  PROVE  DatesInv'
<1>1. AnswersInv' /\ ErrorsInv' /\ IInv
  BY AnswersNext, ErrorsNext DEF DatesInv, AnswersInv
<1>2. ASSUME NEW r \in Requests, Moves(r)
      PROVE  /\ Signed' /\ clock' > 0
             /\ \A q \in Requests : Dated(q)' /\ Inserting(q)' /\ Named(q)'
  <2>1. Signed' /\ clock' > 0 /\ \A q \in Requests : Dated(q)'
    BY <1>2, SignedMoves, DatedMoves
  <2>2. Inserting(r)' /\ Named(r)'
    BY <1>2, InsertingMoves, NamedMoves
  <2>3. ASSUME NEW q \in Requests \ {r}
        PROVE  Inserting(q)' /\ Named(q)'
    <3>1. op' = op /\ pc'[q] = pc[q] /\ err'[q] = err[q] /\ mem'[q] = mem[q] /\ tx'[q] = tx[q]
      BY <1>1, <1>2, OthersStay, StepOK DEF Moves, Frame
    <3>2. Inserting(q) /\ Named(q)
      BY DEF DatesInv
    <3>3. \A x \in Requests :
            HasAssigned(x, op[q].pr) => HasAssigned(x, op[q].pr)' /\ tx'[x].began = tx[x].began
      BY <1>1, <1>2, <3>1, AssignedStays
    <3>4. Inserting(q)'
      BY <3>1, <3>2 DEF Inserting, Is
    <3>5. Named(q)'
      BY <3>1, <3>2, <3>3 DEF Named, Answered, ReplacedBy, Is
    <3> QED
      BY <3>4, <3>5
  <2> QED
    BY <2>1, <2>2, <2>3
<1>3. ASSUME UNCHANGED calls
      PROVE  /\ Signed' /\ clock' > 0
             /\ \A q \in Requests : Dated(q)' /\ Inserting(q)' /\ Named(q)'
  BY <1>3 DEF DatesInv, calls, Signed, Dated, Inserting, Named, Answered, ReplacedBy, HasAssigned,
     Is
<1>4. (\E r \in Requests : Moves(r)) \/ UNCHANGED calls
  BY DEF Next, Moves, TeamAdded, vars, calls
<1> QED
  BY <1>1, <1>2, <1>3, <1>4 DEF DatesInv

(* replaced_by is the new reviewer, unless a request that began later has  *)
(* put another one on the pull request before.                             *)
THEOREM WrongNameMeansOvertaken == Spec => []ReplacedByWrongOnlyIfOvertaken
<1>1. Init => DatesInv
  BY DatesInit
<1>2. DatesInv /\ [Next]_vars => DatesInv'
  BY DatesNext
<1>3. DatesInv => ReplacedByWrongOnlyIfOvertaken
  BY DEF DatesInv, ReplacedByWrongOnlyIfOvertaken, HasAnswer, Named
<1> QED
  BY <1>1, <1>2, <1>3, PTL DEF Spec

-----------------------------------------------------------------------------
(* Who waits for whom.                                                     *)

(* What a step of r does with the locks: nothing, it takes that of its     *)
(* pull request or of its user, or gives all back.                         *)
LEMMA LocksMove ==
  ASSUME IInv, NEW r \in Requests, Moves(r)
  PROVE  \/ UNCHANGED <<prLock, userLock>>
         \/ /\ prLock' = Released(prLock, r) /\ userLock' = Released(userLock, r)
            /\ pc'[r] = "done"
         \/ /\ prLock' = [prLock EXCEPT ![op[r].pr] = r] /\ userLock' = userLock
            /\ pc[r] \in {"insert", "lock", "update"}
         \/ /\ prLock' = prLock /\ userLock' = [userLock EXCEPT ![op[r].user] = r]
            /\ userLock[op[r].user] \in {None, r}
            /\ pc[r] = "setActive" /\ pc'[r] = "commit"
<1>1. TypeOK /\ op[r].user \in Users
  BY DEF IInv, TypeOK, Calls
<1>2. CASE Begin(r, FirstStep[op[r].kind]) \/ CallFails(r)
  BY <1>2 DEF Begin, CallFails
<1>3. CASE Commit(r) \/ Rollback(r) \/ Settle(r)
  BY <1>1, <1>3 DEF Commit, Rollback, Settle, ServerAborts, ServerCommits, EndTx, TypeOK
<1>4. CASE InsertRow(r) \/ LockRow(r) \/ SetMerged(r)
  BY <1>4 DEF InsertRow, InsertPR, LockRow, SelectPRForUpdate, SetMerged, UpdateStatus, At, Private
<1>5. CASE FindUser(r)
  BY <1>5 DEF FindUser, GetUserByID, ReadOnly
<1>6. CASE SetActive(r)
  BY <1>1, <1>6 DEF SetActive, UpdateUserActive, At, Private, Verdict, TypeOK
<1>7. CASE FindAuthor(r) \/ FindTeam(r) \/ ChooseReviewers(r) \/ CountAssigned(r)
           \/ AssignNext(r) \/ RemoveOld(r)
  BY <1>7 DEF FindAuthor, GetUserByID, FindTeam, GetTeamIDByUserID, ChooseReviewers,
     CountAssigned, CountReviewersByPRID, AssignNext, AddReviewer, RemoveOld, RemoveReviewer,
     ReadOnly
<1>8. CASE MergeLoadsReviewers(r) \/ ReassignLoadsReviewers(r) \/ ChooseReplacement(r)
           \/ Reload(r) \/ ReloadReviewers(r)
  BY <1>8 DEF MergeLoadsReviewers, ReassignLoadsReviewers, ChooseReplacement, Reload, SelectPR,
     ReloadReviewers, ReadOnly
<1> QED
  BY <1>2, <1>3, <1>4, <1>5, <1>6, <1>7, <1>8 DEF Moves, Step, PRStep, UserStep

(* The steps of a request in between keep it between its begin and its end. *)
LEMMA BetweenMoves ==
  ASSUME IInv, NEW r \in Requests, Moves(r)
  PROVE  /\ pc[r] # "done" /\ pc'[r] # "begin"
         /\ pc'[r] = "done" => \/ pc[r] = "begin"
                               \/ prLock' = Released(prLock, r) /\ userLock' = Released(userLock, r)
         /\ pc[r] \in {"commit", "orphanCommit"} => pc'[r] \in {"orphanCommit", "done"}
<1>1. TypeOK /\ op[r].kind \in Kinds
  BY DEF IInv, TypeOK, Calls
<1>2. CASE Begin(r, FirstStep[op[r].kind])
  <2>1. pc[r] = "begin" /\ pc'[r] = FirstStep[op[r].kind]
    BY <1>1, <1>2 DEF Begin, TypeOK
  <2> QED
    BY <1>1, <2>1 DEF FirstStep, Kinds
<1>3. CASE CallFails(r)
  BY <1>1, <1>3 DEF CallFails, TypeOK
<1>4. CASE Commit(r) \/ Rollback(r) \/ Settle(r)
  BY <1>1, <1>4 DEF Commit, Rollback, Settle, ServerAborts, ServerCommits, EndTx, TypeOK
<1>5. CASE PRStep(r) \/ UserStep(r)
  <2>1. pc'[r] \notin {"begin", "done"}
    BY <1>1, <1>5, StatementOutcome DEF Outcome
  <2>2. pc[r] \notin {"done", "commit", "orphanCommit"}
    BY <1>5 DEF PRStep, FindAuthor, FindTeam, ChooseReviewers, InsertRow, CountAssigned,
       AssignNext, LockRow, MergeLoadsReviewers, ReassignLoadsReviewers, ChooseReplacement,
       RemoveOld, SetMerged, Reload, ReloadReviewers, UserStep, FindUser, SetActive, At
  <2> QED
    BY <2>1, <2>2
<1> QED
  BY <1>2, <1>3, <1>4, <1>5 DEF Moves, Step

(* What a request has written to pr_reviewers, it has written under the    *)
(* lock of its pull request.                                               *)
LEMMA WritesMove ==
  ASSUME LocksInv, NEW r \in Requests, Moves(r)
  PROVE  tx'[r].added \union tx'[r].removed # {} => prLock'[op[r].pr] = r
<1>1. IInv /\ TypeOK /\ CallOK(r) /\ HeldOK(r) /\ tx[r] \in Txs /\ op[r].pr \in PRs
  BY DEF LocksInv, IInv, TypeOK, Txs, Calls
<1>2. CASE AssignNext(r) \/ RemoveOld(r)
  <2>1. prLock[op[r].pr] = r
    BY <1>1, <1>2, KindAt DEF AssignNext, RemoveOld, At, CallOK, Creating, Replacing, Path, Is
  <2>2. prLock' = prLock
    BY <1>2 DEF AssignNext, AddReviewer, RemoveOld, RemoveReviewer
  <2> QED
    BY <2>1, <2>2
<1>3. CASE Commit(r) \/ Rollback(r) \/ Settle(r)
  <2> DEFINE t == [NoTx EXCEPT !.began = tx[r].began]
  <2>1. tx' = [tx EXCEPT ![r] = t]
    BY <1>3 DEF Commit, Rollback, Settle, ServerAborts, ServerCommits, EndTx
  <2>2. t.added = {} /\ t.removed = {}
    BY DEF NoTx
  <2>3. tx'[r] = t
    <3> HIDE DEF t
    <3> QED
      BY <1>1, <2>1 DEF TypeOK
  <2> QED
    BY <2>2, <2>3
<1>4. ASSUME tx'[r].added = tx[r].added, tx'[r].removed = tx[r].removed, pc'[r] # "done"
      PROVE  tx'[r].added \union tx'[r].removed # {} => prLock'[op[r].pr] = r
  BY <1>1, <1>4, LocksMove DEF HeldOK, TypeOK
<1>5. CASE Begin(r, FirstStep[op[r].kind])
  <2>1. tx'[r].added = tx[r].added /\ tx'[r].removed = tx[r].removed /\ prLock' = prLock
    BY <1>1, <1>5 DEF Begin, TypeOK
  <2> QED
    BY <1>1, <2>1 DEF HeldOK
<1>6. CASE CallFails(r)
  BY <1>1, <1>6 DEF CallFails, HeldOK
<1>7. CASE InsertRow(r) \/ SetMerged(r)
  <2>1. tx'[r].added = tx[r].added /\ tx'[r].removed = tx[r].removed
    BY <1>1, <1>7 DEF InsertRow, InsertPR, SetMerged, UpdateStatus, TypeOK
  <2> QED
    BY <1>1, <1>4, <1>7, <2>1, StatementOutcome DEF Outcome, PRStep
<1>8. CASE UserStep(r)
  <2>1. tx'[r].added = tx[r].added /\ tx'[r].removed = tx[r].removed
    BY <1>1, <1>8 DEF UserStep, FindUser, GetUserByID, SetActive, UpdateUserActive, ReadOnly, TypeOK
  <2> QED
    BY <1>1, <1>4, <1>8, <2>1, StatementOutcome DEF Outcome
<1>9. CASE FindAuthor(r) \/ FindTeam(r) \/ ChooseReviewers(r) \/ CountAssigned(r) \/ LockRow(r)
           \/ MergeLoadsReviewers(r) \/ ReassignLoadsReviewers(r) \/ ChooseReplacement(r)
           \/ Reload(r) \/ ReloadReviewers(r)
  <2>1. tx' = tx
    BY <1>9 DEF FindAuthor, GetUserByID, FindTeam, GetTeamIDByUserID, ChooseReviewers,
       CountAssigned, CountReviewersByPRID, LockRow, SelectPRForUpdate, MergeLoadsReviewers,
       ReassignLoadsReviewers, ChooseReplacement, Reload, SelectPR, ReloadReviewers, ReadOnly
  <2> QED
    BY <1>1, <1>4, <1>9, <2>1, StatementOutcome DEF Outcome, PRStep
<1> QED
  BY <1>2, <1>3, <1>5, <1>6, <1>7, <1>8, <1>9 DEF Moves, Step, PRStep

(* A step keeps HeldOK, of the one who makes it and of the others.         *)
LEMMA HeldMoves ==
  ASSUME LocksInv, NEW r \in Requests, Moves(r), NEW q \in Requests
  PROVE  HeldOK(q)'
<1>1. /\ IInv /\ TypeOK /\ CallOK(r) /\ HeldOK(q) /\ op' = op
      /\ op[r].pr \in PRs /\ op[r].user \in Users
      /\ prLock \in [PRs -> Requests \union {None}] /\ userLock \in [Users -> Requests \union {None}]
  BY StepOK DEF LocksInv, IInv, TypeOK, Calls, Moves, Frame
<1>2. CASE q # r
  <2>1. tx'[q] = tx[q] /\ pc'[q] = pc[q] /\ \A p \in PRs : prLock[p] = q => prLock'[p] = q
    BY <1>1, <1>2, StepOK DEF Moves, Frame
  <2>0. op[q].pr \in PRs
    BY <1>1 DEF TypeOK, Calls
  <2>2. /\ \A p \in PRs : prLock'[p] = q => prLock[p] = q
        /\ \A u \in Users : userLock'[u] = q => userLock[u] = q
    BY <1>1, <1>2, LocksMove, NullAssumption DEF Released
  <2> QED
    BY <1>1, <2>0, <2>1, <2>2 DEF HeldOK, Is
<1>3. CASE q = r
  <2>1. \A p \in PRs : prLock'[p] = r =>
          p = op[r].pr /\ ~Is(r, "UpdateUserActive") /\ pc'[r] \notin {"begin", "done"}
    <3>1. \A p \in PRs : prLock'[p] = r => prLock[p] = r \/ (p = op[r].pr /\ ~Is(r, "UpdateUserActive"))
      <4>1. pc[r] \in {"insert", "lock", "update"} => ~Is(r, "UpdateUserActive")
        BY <1>1, KindAt DEF Is
      <4> SUFFICES ASSUME NEW p \in PRs, prLock'[p] = r
                   PROVE  prLock[p] = r \/ (p = op[r].pr /\ ~Is(r, "UpdateUserActive"))
        OBVIOUS
      <4>2. CASE prLock[p] = r
        BY <4>2
      <4>3. CASE prLock[p] # r
        <5>1. prLock' # prLock /\ prLock' # Released(prLock, r)
          BY <1>1, <4>3, NullAssumption DEF Released
        <5>2. prLock' = [prLock EXCEPT ![op[r].pr] = r] /\ pc[r] \in {"insert", "lock", "update"}
          BY <1>1, <5>1, LocksMove
        <5> QED
          BY <1>1, <4>1, <4>3, <5>2
      <4> QED
        BY <4>2, <4>3
    <3>2. \A p \in PRs : prLock'[p] = r => pc'[r] \notin {"begin", "done"}
      BY <1>1, <1>3, LocksMove, BetweenMoves, NullAssumption DEF Released, HeldOK
    <3> QED
      BY <1>1, <1>3, <3>1, <3>2 DEF HeldOK
  <2>2. \A u \in Users : userLock'[u] = r =>
          Is(r, "UpdateUserActive") /\ pc'[r] \in {"commit", "orphanCommit"}
    <3>1. \A u \in Users : userLock'[u] = r =>
            userLock[u] = r \/ (pc[r] = "setActive" /\ pc'[r] = "commit")
      <4> SUFFICES ASSUME NEW u \in Users, userLock'[u] = r
                   PROVE  userLock[u] = r \/ (pc[r] = "setActive" /\ pc'[r] = "commit")
        OBVIOUS
      <4>1. CASE userLock[u] # r
        <5>1. userLock' # userLock /\ userLock' # Released(userLock, r)
          BY <1>1, <4>1, NullAssumption DEF Released
        <5> QED
          BY <1>1, <5>1, LocksMove
      <4> QED
        BY <4>1
    <3>2. ASSUME NEW u \in Users, userLock'[u] = r, userLock[u] = r
          PROVE  pc'[r] \in {"commit", "orphanCommit"}
      <4>1. pc[r] \in {"commit", "orphanCommit"}
        BY <1>1, <1>3, <3>2 DEF HeldOK
      <4> QED
        BY <1>1, <3>2, <4>1, BetweenMoves, NullAssumption DEF Released
    <3> QED
      BY <1>1, <1>3, <3>1, <3>2, KindAt DEF HeldOK, Is
  <2> QED
    BY <1>1, <1>3, <2>1, <2>2, WritesMove DEF HeldOK, Is
<1> QED
  BY <1>2, <1>3

(* The layer holds from the start and is kept. *)
LEMMA LocksNext ==
  ASSUME LocksInv, [Next]_vars
  PROVE  LocksInv'
<1>1. IInv /\ IInv' /\ \A r \in Requests : HeldOK(r)
  BY NextOK DEF LocksInv
<1>2. ASSUME NEW r \in Requests, Moves(r)
      PROVE  \A q \in Requests : HeldOK(q)'
  BY <1>2, HeldMoves
<1>3. ASSUME UNCHANGED calls PROVE LocksInv'
  <2> SUFFICES ASSUME NEW r \in Requests PROVE HeldOK(r)'
    BY <1>1 DEF LocksInv
  <2>1. HeldOK(r) /\ prLock' = prLock /\ userLock' = userLock /\ tx' = tx /\ op' = op /\ pc' = pc
    BY <1>1, <1>3 DEF calls
  <2> QED
    BY <2>1 DEF HeldOK, Is
<1>4. CASE UNCHANGED vars
  BY <1>3, <1>4 DEF vars, calls
<1>5. ASSUME NEW new \in NewTeams, TeamAdded(new)
      PROVE  UNCHANGED calls
  BY <1>5 DEF TeamAdded, calls
<1> QED
  BY <1>1, <1>2, <1>3, <1>4, <1>5 DEF Next, Moves, LocksInv

(* At the start nobody holds anything. *)
LEMMA LocksInit == Init => LocksInv
<1> SUFFICES ASSUME Init, NEW r \in Requests PROVE HeldOK(r)
  BY InitOK DEF LocksInv
<1>1. tx[r].added = {} /\ tx[r].removed = {}
  BY DEF Init, NoTx
<1> QED
  BY <1>1, NullAssumption DEF Init, HeldOK

(* The locks, the writes under them and the steps at which they are held.  *)
THEOREM LocksInvariance == Spec => []LocksInv
<1>1. LocksInv /\ [Next]_vars => LocksInv'
  BY LocksNext
<1> QED
  BY <1>1, LocksInit, PTL DEF Spec

(* Who keeps another request waiting works on the same pull request and    *)
(* holds it, or is at the end of UpdateUserActive.                         *)
LEMMA BlockersGoOn ==
  ASSUME LocksInv, NEW r \in Requests, NEW q \in BlockedBy(r)
  PROVE  GoesOn(q)
<1>1. TypeOK /\ HeldOK(q) /\ q \in Requests
  BY DEF LocksInv, IInv, BlockedBy
<1>2. op[r].pr \in PRs /\ op[r].user \in Users /\ op[q].pr \in PRs /\ op[q].user \in Users
  BY <1>1 DEF TypeOK, Calls
<1>3. CASE userLock[op[r].user] = q
  <2>1. pc[q] \in {"commit", "orphanCommit"}
    BY <1>1, <1>2, <1>3 DEF HeldOK
  <2> QED
    BY <2>1 DEF GoesOn, BlockedBy, WaitsForRow, Starved
<1>4. CASE userLock[op[r].user] # q
  <2> DEFINE p == op[q].pr
  <2>1. p = op[r].pr /\ prLock[p] = q
    <3>1. CASE WaitsForRow(r) /\ prLock[op[r].pr] = q
      BY <1>1, <1>2, <3>1 DEF HeldOK
    <3>2. CASE op[q].pr = op[r].pr /\ tx[q].added \union tx[q].removed # {}
      BY <1>1, <3>2 DEF HeldOK
    <3> QED
      BY <1>4, <3>1, <3>2 DEF BlockedBy
  <2>2. ~Is(q, "UpdateUserActive") /\ pc[q] \notin {"begin", "done"}
    BY <1>1, <1>2, <2>1 DEF HeldOK
  <2>3. pc[q] # "setActive"
    BY <1>1, <2>2, KindAt DEF LocksInv, IInv, Is
  <2>4. ASSUME NEW s \in Requests \ {q}, op[s].pr = op[q].pr
        PROVE  tx[s].added \union tx[s].removed = {}
    BY <2>1, <2>4 DEF LocksInv, HeldOK
  <2> QED
    BY <2>1, <2>2, <2>3, <2>4 DEF GoesOn, BlockedBy, WaitsForRow, Starved
<1> QED
  BY <1>3, <1>4

(* If all who are left waited for the pool, nobody would have a            *)
(* connection.                                                             *)
LEMMA SomebodyGoesOnOK == LocksInv => SomebodyGoesOn
<1> SUFFICES ASSUME LocksInv PROVE SomebodyGoesOn
  OBVIOUS
<1>1. \A r \in Requests : \A q \in BlockedBy(r) : GoesOn(q) /\ q \in Requests
  BY BlockersGoOn DEF BlockedBy
<1>2. ASSUME NEW r \in Requests, pc[r] # "done", \A q \in Requests : ~GoesOn(q)
      PROVE  FALSE
  <2>1. \A q \in Requests : BlockedBy(q) = {}
    BY <1>1, <1>2
  <2>2. Starved(r)
    BY <1>2, <2>1 DEF GoesOn
  <2>3. Connected # {}
    BY <2>2, PoolAssumption, FS_EmptySet DEF Starved
  <2>4. PICK q \in Connected : TRUE
    BY <2>3
  <2>5. q \in Requests /\ pc[q] \notin {"begin", "done"}
    BY DEF Connected
  <2> QED
    BY <1>2, <2>1, <2>5 DEF GoesOn, Starved
<1> QED
  BY <1>1, <1>2 DEF SomebodyGoesOn, Quiescent

(* No deadlock, for any number of requests, pull requests and connections: *)
(* whoever keeps others waiting is not waiting himself.                    *)
THEOREM NobodyWaitsInVain == Spec => []SomebodyGoesOn
BY SomebodyGoesOnOK, LocksInvariance, PTL

-----------------------------------------------------------------------------
(* Every step is progress.                                                 *)

(* The table of StatementsLeft.                                            *)
LEMMA LeftAt ==
  ASSUME NEW m
  PROVE  /\ Left("begin", m) = 16    /\ Left("lock", m) = 15       /\ Left("reviewers", m) = 14
         /\ Left("author", m) = 14   /\ Left("team", m) = 13       /\ Left("candidates", m) = 12
         /\ Left("remove", m) = 11   /\ Left("insert", m) = 11     /\ Left("reload", m) = 6
         /\ Left("reloaded", m) = 5  /\ Left("update", m) = 5      /\ Left("user", m) = 6
         /\ Left("setActive", m) = 5 /\ Left("commit", m) = 4      /\ Left("rollback", m) = 3
         /\ Left("orphan", m) = 2    /\ Left("orphanCommit", m) = 2 /\ Left("done", m) = 0
         /\ Left("count", m) = 8 + 2 * (Len(m.selected) - m.next)
         /\ Left("assign", m) = 7 + 2 * (Len(m.selected) - m.next)
BY DEF Left, StatementsLeft

(* The statements before the first write. *)
LEMMA ReadingIsProgress ==
  ASSUME IInv, NEW r \in Requests,
         \/ FindAuthor(r) \/ FindTeam(r) \/ ChooseReviewers(r) \/ LockRow(r)
         \/ MergeLoadsReviewers(r) \/ ReassignLoadsReviewers(r) \/ ChooseReplacement(r)
         \/ Reload(r) \/ ReloadReviewers(r) \/ UserStep(r) \/ SetMerged(r)
  PROVE  WorkLeft(r)' < WorkLeft(r)
<1>1. TypeOK
  BY DEF IInv
<1>2. CASE FindAuthor(r)
  <2>1. pc[r] = "author" /\ pc'[r] \in {"team", "rollback"}
    BY <1>1, <1>2 DEF FindAuthor, GetUserByID, Verdict, At, TypeOK
  <2> QED
    BY <2>1, LeftAt DEF WorkLeft
<1>3. CASE FindTeam(r)
  <2>1. pc[r] = "team" /\ pc'[r] \in {"candidates", "rollback"}
    BY <1>1, <1>3 DEF FindTeam, GetTeamIDByUserID, Verdict, At, TypeOK
  <2> QED
    BY <2>1, LeftAt DEF WorkLeft
<1>4. CASE ChooseReviewers(r) \/ ChooseReplacement(r)
  <2>1. pc[r] = "candidates" /\ pc'[r] \in {"insert", "remove", "rollback"}
    BY <1>1, <1>4 DEF ChooseReviewers, ChooseReplacement, Goto, Verdict, At, TypeOK
  <2> QED
    BY <2>1, LeftAt DEF WorkLeft
<1>5. CASE LockRow(r)
  <2>1. pc[r] = "lock" /\ pc'[r] \in {"reviewers", "rollback"}
    BY <1>1, <1>5 DEF LockRow, SelectPRForUpdate, Verdict, At, TypeOK
  <2> QED
    BY <2>1, LeftAt DEF WorkLeft
<1>6. CASE MergeLoadsReviewers(r) \/ ReassignLoadsReviewers(r)
  <2>1. pc[r] = "reviewers" /\ pc'[r] \in {"team", "update", "commit", "rollback"}
    BY <1>1, <1>6 DEF MergeLoadsReviewers, ReassignLoadsReviewers, Goto, Verdict, At, TypeOK
  <2> QED
    BY <2>1, LeftAt DEF WorkLeft
<1>7. CASE Reload(r)
  <2>1. pc[r] = "reload" /\ pc'[r] \in {"reloaded", "rollback"}
    BY <1>1, <1>7 DEF Reload, SelectPR, Verdict, At, TypeOK
  <2> QED
    BY <2>1, LeftAt DEF WorkLeft
<1>8. CASE ReloadReviewers(r)
  <2>1. pc[r] = "reloaded" /\ pc'[r] \in {"commit", "rollback"}
    BY <1>1, <1>8 DEF ReloadReviewers, Goto, At, TypeOK
  <2> QED
    BY <2>1, LeftAt DEF WorkLeft
<1>9. CASE UserStep(r)
  <2>1. \/ pc[r] = "user" /\ pc'[r] \in {"setActive", "rollback"}
        \/ pc[r] = "setActive" /\ pc'[r] \in {"commit", "rollback"}
    BY <1>1, <1>9 DEF UserStep, FindUser, SetActive, GetUserByID, UpdateUserActive, Verdict, At,
       TypeOK
  <2> QED
    BY <2>1, LeftAt DEF WorkLeft
<1>10. CASE SetMerged(r)
  <2>1. pc[r] = "update" /\ pc'[r] \in {"commit", "rollback"}
    BY <1>1, <1>10 DEF SetMerged, UpdateStatus, Verdict, At, TypeOK
  <2> QED
    BY <2>1, LeftAt DEF WorkLeft
<1> QED
  BY <1>2, <1>3, <1>4, <1>5, <1>6, <1>7, <1>8, <1>9, <1>10

(* The loop over the selected reviewers, two statements for each.          *)
LEMMA LeftInLoop ==
  ASSUME NEW m, NEW l \in Nat, NEW n \in Nat, Len(m.selected) = l, m.next = n
  PROVE  /\ Left("count", m) = 8 + 2 * (l - n)
         /\ Left("assign", m) = 7 + 2 * (l - n)
BY LeftAt

(* Where the loop is, at most two reviewers from its end.                  *)
LEMMA LoopAt ==
  ASSUME IInv, NEW r \in Requests
  PROVE  /\ mem[r].next \in Nat /\ Len(mem[r].selected) \in Nat
         /\ pc[r] \in {"count", "assign"} => mem[r].next <= Len(mem[r].selected)
         /\ pc[r] = "insert" => mem[r].next = 1 /\ Len(mem[r].selected) <= 2
         /\ pc[r] = "remove" => mem[r].next = 1 /\ Len(mem[r].selected) = 1
<1>1. TypeOK /\ CallOK(r) /\ mem[r] \in Mems
  BY DEF IInv, TypeOK, Mems
<1>2. mem[r].next \in Nat /\ Len(mem[r].selected) \in Nat
  BY <1>1 DEF Mems
<1>3. ASSUME pc[r] \in {"count", "assign"} PROVE mem[r].next <= Len(mem[r].selected)
  <2>1. CASE Is(r, "CreatePR")
    <3>1. mem[r].next \in 1 .. Len(mem[r].selected)
      BY <1>1, <1>3, <2>1 DEF CallOK, Creating
    <3> QED
      BY <1>2, <3>1
  <2>2. CASE Is(r, "ReassignReviewer")
    <3>1. mem[r].next = 1 /\ Len(mem[r].selected) = 1
      BY <1>1, <1>3, <2>2 DEF CallOK, Replacing, Path
    <3> QED
      BY <3>1
  <2> QED
    BY <1>1, <1>3, <2>1, <2>2, KindAt DEF Is
<1>4. pc[r] = "insert" => mem[r].next = 1 /\ Len(mem[r].selected) <= 2
  BY <1>1, KindAt DEF CallOK, Unwritten, Creating, Is
<1>5. pc[r] = "remove" => mem[r].next = 1 /\ Len(mem[r].selected) = 1
  BY <1>1, KindAt DEF CallOK, Replacing, Path, Is
<1> QED
  BY <1>2, <1>3, <1>4, <1>5

(* The INSERT and the DELETE before the loop, and its two statements.      *)
LEMMA LoopIsProgress ==
  ASSUME IInv, NEW r \in Requests,
         InsertRow(r) \/ RemoveOld(r) \/ CountAssigned(r) \/ AssignNext(r)
  PROVE  WorkLeft(r)' < WorkLeft(r)
<1>1. TypeOK /\ mem \in [Requests -> Mems] /\ mem[r] \in Mems
  BY DEF IInv, TypeOK, Mems
<1>2. PICK n \in Nat, l \in Nat : n = mem[r].next /\ l = Len(mem[r].selected)
  BY LoopAt
<1>3. CASE InsertRow(r)
  <2>1. /\ pc[r] = "insert" /\ pc'[r] \in {"commit", "count", "rollback"}
        /\ \/ mem' = mem
           \/ mem' = [mem EXCEPT ![r].row =
                        [author |-> op[r].user, status |-> "OPEN", merged_at |-> None]]
    BY <1>1, <1>3 DEF InsertRow, InsertPR, Verdict, At, TypeOK
  <2>2. mem'[r].next = n /\ Len(mem'[r].selected) = l
    <3>1. CASE mem' = mem
      BY <1>2, <3>1
    <3>2. ASSUME NEW w, mem' = [mem EXCEPT ![r].row = w]
          PROVE  mem'[r].next = n /\ Len(mem'[r].selected) = l
      BY <1>1, <1>2, <3>2
    <3> QED
      BY <2>1, <3>1, <3>2
  <2>3. n = 1 /\ l <= 2
    BY <1>2, <2>1, LoopAt
  <2>4. Left("count", mem'[r]) = 8 + 2 * (l - n)
    BY <2>2, LeftInLoop
  <2> QED
    BY <2>1, <2>3, <2>4, LeftAt DEF WorkLeft
<1>4. CASE RemoveOld(r)
  <2>1. pc[r] = "remove" /\ pc'[r] \in {"count", "rollback"} /\ mem' = mem
    BY <1>1, <1>4 DEF RemoveOld, RemoveReviewer, Verdict, At, TypeOK
  <2>2. n = 1 /\ l = 1
    BY <1>2, <2>1, LoopAt
  <2>3. Left("count", mem'[r]) = 8 + 2 * (l - n)
    BY <1>2, <2>1, LeftInLoop
  <2> QED
    BY <2>1, <2>2, <2>3, LeftAt DEF WorkLeft
<1>5. /\ Left("count", mem[r]) = 8 + 2 * (l - n)
      /\ Left("assign", mem[r]) = 7 + 2 * (l - n)
      /\ pc[r] \in {"count", "assign"} => n <= l
  BY <1>2, LeftInLoop, LoopAt
<1>6. CASE CountAssigned(r)
  <2>1. pc[r] = "count" /\ pc'[r] \in {"assign", "rollback"} /\ mem' = mem
    BY <1>1, <1>6 DEF CountAssigned, CountReviewersByPRID, Verdict, At, TypeOK
  <2> QED
    BY <1>5, <2>1, LeftAt DEF WorkLeft
<1>7. CASE AssignNext(r)
  <2>1. CASE n < l
    <3>1. /\ pc[r] = "assign" /\ pc'[r] \in {"count", "rollback"}
          /\ mem' = [mem EXCEPT ![r].next = n + 1]
      BY <1>1, <1>2, <1>7, <2>1 DEF AssignNext, AddReviewer, Verdict, At, TypeOK
    <3>2. mem'[r].next = n + 1 /\ Len(mem'[r].selected) = l
      BY <1>1, <1>2, <3>1 DEF TypeOK, Mems
    <3>3. Left("count", mem'[r]) = 8 + 2 * (l - (n + 1))
      <4>1. n + 1 \in Nat
        OBVIOUS
      <4> QED
        BY <3>2, <4>1, LeftInLoop
    <3>4. Left("rollback", mem'[r]) = 3
      BY LeftAt
    <3> QED
      BY <1>5, <2>1, <3>1, <3>3, <3>4 DEF WorkLeft
  <2>2. CASE ~(n < l)
    <3>1. pc[r] = "assign" /\ pc'[r] \in {"commit", "reload", "rollback"}
      BY <1>1, <1>2, <1>7, <2>2 DEF AssignNext, AddReviewer, Verdict, At, TypeOK
    <3> QED
      BY <1>5, <3>1, LeftAt DEF WorkLeft
  <2> QED
    BY <2>1, <2>2
<1> QED
  BY <1>3, <1>4, <1>6, <1>7

(* Every step of a request, whether it succeeds or fails. *)
LEMMA MoveIsProgress ==
  ASSUME IInv, NEW r \in Requests, Moves(r)
  PROVE  WorkLeft(r)' < WorkLeft(r)
<1>1. TypeOK /\ CallOK(r) /\ op[r].kind \in Kinds
  BY DEF IInv, TypeOK, Calls
<1>2. CASE Begin(r, FirstStep[op[r].kind])
  <2>1. pc[r] = "begin" /\ pc'[r] \in {"author", "lock", "reload", "user"}
    BY <1>1, <1>2 DEF Begin, FirstStep, Kinds, TypeOK
  <2> QED
    BY <2>1, LeftAt DEF WorkLeft
<1>3. CASE Commit(r) \/ Rollback(r) \/ Settle(r)
  <2>1. pc[r] \in {"commit", "rollback", "orphan", "orphanCommit"} /\ pc'[r] = "done"
    BY <1>1, <1>3 DEF Commit, Rollback, Settle, ServerAborts, ServerCommits, EndTx, TypeOK
  <2> QED
    BY <2>1, LeftAt DEF WorkLeft
<1>4. CASE CallFails(r)
  <2>1. /\ pc[r] \in Steps \ {"done", "orphan", "orphanCommit"}
        /\ pc'[r] \in {"done", "orphanCommit", "orphan"}
    BY <1>1, <1>4 DEF CallFails, TypeOK
  <2>2. Left(pc'[r], mem'[r]) \in {0, 2}
    BY <2>1, LeftAt
  <2>3. WorkLeft(r) \in Nat /\ WorkLeft(r) > 2
    <3>1. CASE pc[r] \in {"count", "assign"}
      <4>1. PICK n \in Nat, l \in Nat : n = mem[r].next /\ l = Len(mem[r].selected) /\ n <= l
        BY <3>1, LoopAt
      <4> QED
        <5>1. /\ Left("count", mem[r]) = 8 + 2 * (l - n)
              /\ Left("assign", mem[r]) = 7 + 2 * (l - n)
          BY <4>1, LeftInLoop
        <5>2. l - n \in Nat
          BY <4>1
        <5> QED
          BY <3>1, <5>1, <5>2 DEF WorkLeft
    <3>2. CASE pc[r] \notin {"count", "assign"}
      BY <2>1, <3>2, LeftAt DEF WorkLeft, Steps
    <3> QED
      BY <3>1, <3>2
  <2> QED
    BY <2>2, <2>3 DEF WorkLeft
<1> QED
  BY <1>2, <1>3, <1>4, ReadingIsProgress, LoopIsProgress DEF Moves, Step, PRStep

(* The work that is left only shrinks, with every step that is made; with  *)
(* NobodyWaitsInVain and the fairness of the scheduling every call ends.   *)
THEOREM Progress == Spec => EveryStepIsProgress
<1> DEFINE Some == \E r \in Requests : /\ WorkLeft(r)' < WorkLeft(r)
                                       /\ \A q \in Requests \ {r} : WorkLeft(q)' = WorkLeft(q)
           None_ == UNCHANGED <<prs, pr_reviewers, prLock, userLock, tx, op, pc, err, mem>>
<1>1. IInv /\ [Next]_vars => [Some \/ None_]_vars
  <2> SUFFICES ASSUME IInv, Next PROVE Some \/ None_
    OBVIOUS
  <2>1. ASSUME NEW r \in Requests, Moves(r) PROVE Some
    <3>1. \A q \in Requests \ {r} : WorkLeft(q)' = WorkLeft(q)
      BY <2>1, OthersStay DEF WorkLeft
    <3> QED
      BY <2>1, <3>1, MoveIsProgress
  <2>2. ASSUME NEW new \in NewTeams, TeamAdded(new) PROVE None_
    BY <2>2 DEF TeamAdded
  <2>3. CASE UNCHANGED vars
    BY <2>3 DEF vars
  <2> QED
    BY <2>1, <2>2, <2>3 DEF Next, Moves
<1> QED
  BY <1>1, Invariance, PTL DEF Spec, EveryStepIsProgress
==============================================================================
