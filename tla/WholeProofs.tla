------------------------------ MODULE WholeProofs ------------------------------
(***************************************************************************)
(* Theorems about the whole service for any users, teams, pull requests,   *)
(* requests of both halves, workloads through the routes and pool size:    *)
(* each half, where the other one runs beside it, is the service it was    *)
(* taken to be, so that what is proved of it alone holds of the whole.     *)
(***************************************************************************)
EXTENDS WholeService, DirectoryTheorems

(* The instance has its own copy of FiniteSets; it means the same. *)
LEMMA SameFinite == \A S : PR!IsFiniteSet(S) <=> IsFiniteSet(S)
  BY DEF IsFiniteSet, PR!IsFiniteSet

LEMMA SameCardinality == \A S : PR!Cardinality(S) = Cardinality(S)
  BY DEF Cardinality, PR!Cardinality

(* What the pull-request half assumes of its constants follows from what   *)
(* the whole service assumes of its own.                                   *)
LEMMA SeenIsCall ==
  ASSUME NEW call \in Workload
  PROVE  Seen(call) \in PR!Calls /\ Seen(call).kind = "UpdateUserActive"
<1>1. call \in Calls /\ (CHOOSE p \in PRs : TRUE) \in PRs
  BY WorkloadAssumption, ReviewsAssumption
<1> QED
  BY <1>1 DEF Seen, Calls, PR!Calls, PR!Kinds

LEMMA TeamsAskedType ==
  TeamsAsked \subseteq [team : Teams, members : SUBSET Users, state : [Users -> Activity]]
<1> SUFFICES ASSUME NEW asked \in Workload \X [Users -> Activity], AsListed(asked[1], asked[2])
             PROVE  TeamOf(asked[1], asked[2])
                      \in [team : Teams, members : SUBSET Users, state : [Users -> Activity]]
  BY DEF TeamsAsked
<1>1. asked[1].team \in Teams /\ asked[2] \in [Users -> Activity]
  BY WorkloadAssumption DEF Calls
<1>2. TeamOf(asked[1], asked[2]).members \subseteq Users
  BY DEF AsListed
<1> QED
  BY <1>1, <1>2 DEF TeamOf

LEMMA Assumptions ==
  /\ PR!NullAssumption /\ PR!FiniteAssumption /\ PR!WorkloadAssumption
  /\ PR!DirectoryAssumption /\ PR!NewTeamsAssumption /\ PR!PoolAssumption
<1>1. PR!NullAssumption
  BY NullAssumption, ReviewsAssumption DEF PR!NullAssumption
<1>2. PR!FiniteAssumption
  BY FiniteAssumption, ReviewsAssumption, FS_Union, SameFinite DEF PR!FiniteAssumption
<1>3. PR!WorkloadAssumption
  BY SeenIsCall, ReviewsAssumption DEF PR!WorkloadAssumption
<1>4. PR!DirectoryAssumption
  <2> SUFFICES ASSUME NEW d \in Directories
               PROVE  /\ \A u \in Users : d.users[u].state \in PR!UserRows
                      /\ d.members \subseteq Teams \X Users
    BY DEF PR!DirectoryAssumption
  <2>1. /\ d.users \in [Users -> {NoUser} \union [name : Names, state : Activity]]
        /\ d.teams \subseteq Teams /\ d.members \subseteq d.teams \X Users
    BY DirectoryAssumption
  <2>2. \A u \in Users : d.users[u].state \in PR!UserRows
    BY <2>1 DEF NoUser, Activity, PR!UserRows
  <2> QED
    BY <2>1, <2>2
<1>5. PR!NewTeamsAssumption
  BY TeamsAskedType DEF PR!NewTeamsAssumption, Activity
<1>6. PR!PoolAssumption
  BY PoolAssumption DEF PR!PoolAssumption
<1> QED
  BY <1>1, <1>2, <1>3, <1>4, <1>5, <1>6

-----------------------------------------------------------------------------
(* The directory half.                                                     *)

(* Every step of the whole is one of it, or leaves it alone. *)
LEMMA DirectoryPart == [WholeNext]_whole => [Next]_vars
  BY DEF WholeNext, ReviewStep, DirectoryStep, whole, Next

(* The directory half of the whole service is the service it is alone.     *)
LEMMA DirectoryRefinement == WholeSpec => Spec
<1>1. WholeInit => Init
  BY DEF WholeInit
<1> QED
  BY <1>1, DirectoryPart, PTL DEF WholeSpec, Spec

-----------------------------------------------------------------------------
(* What the pull-request half sees. *)

(* A step of the request r of the directory half.                          *)
Acts(r) == Step(r) \/ Settle(r) \/ CallFails(r)

(* Everything that holds before and after each step. *)
WholeInv == DirectoryInv /\ PR!IInv /\ Together

(* UpdateUserActive is seen as long as it runs. *)
LEMMA UpdatingDoes ==
  ASSUME DirectoryInv, NEW r \in Requests
  PROVE  Updating(r) <=> Doing(r) = "UpdateUserActive"
<1>1. /\ op[r].kind \in Kinds /\ stage[r] \in DOMAIN Plan(op[r].kind)
      /\ stage[r] \in Nat \ {0}
  BY RequestType DEF DirectoryInv, CallOK, Calls
<1>2. CASE op[r].kind \in DOMAIN Handlers
  <2>1. op[r].kind \in {"SetIsActive", "AddTeam", "ShowTeam"}
    BY <1>2 DEF Handlers
  <2> QED
    BY <1>1, <1>2, <2>1 DEF Plan, Handlers, Doing, Updating, Updates
<1>3. CASE op[r].kind \notin DOMAIN Handlers
  <2>1. Plan(op[r].kind) = <<op[r].kind>> /\ stage[r] = 1
    BY <1>1, <1>3 DEF Plan
  <2> QED
    BY <2>1 DEF Doing, Updating, Updates
<1> QED
  BY <1>2, <1>3

(* Where somebody has updated a user, he alone has: the row is his.        *)
LEMMA WriterWrites ==
  ASSUME DirectoryInv, NEW q \in Requests, Wrote(q)
  PROVE  op[q].user \in Users /\ Writes(q, op[q].user) /\ Exists(users[op[q].user])
<1> DEFINE u == op[q].user
           new == [users[u] EXCEPT !.state = op[q].state]
<1>1. /\ op[q] \in Calls /\ Doing(q) = "UpdateUserActive" /\ CommitOK(q)
      /\ pc[q] \in {"commit", "orphanCommit"} /\ users[u] \in {NoUser} \union Rows
  BY UpdatingDoes, RequestType DEF Wrote, DirectoryInv, TablesOK, Calls
<1>2. u \in Users /\ op[q].state \in Activity
  BY <1>1 DEF Calls
<1>3. tx[q] = [NoTx EXCEPT !.users[u] = new] /\ Exists(users[u])
  BY <1>1 DEF CommitOK
<1>4. Exists(new)
  BY <1>1, <1>2, <1>3 DEF Rows, Exists, NoUser, Activity
<1>5. tx[q].users[u] = new
  BY <1>2, <1>3 DEF NoTx
<1> QED
  BY <1>2, <1>3, <1>4, <1>5 DEF Writes

LEMMA HolderIsWriter ==
  ASSUME DirectoryInv, NEW q \in Requests, Wrote(q)
  PROVE  Holder(op[q].user) = q /\ Writers(op[q].user) = {q}
<1> DEFINE u == op[q].user
<1>1. Writes(q, u) /\ u \in Users
  BY WriterWrites
<1>2. ASSUME NEW p \in Writers(u)
      PROVE  p = q
  <2>1. p \in Requests /\ Writes(p, u)
    BY <1>2, WriterWrites DEF Writers
  <2> QED
    BY <1>1, <2>1 DEF DirectoryInv, Exclusive
<1>3. Writers(u) = {q}
  BY <1>2 DEF Writers
<1> QED
  BY <1>3 DEF Holder

LEMMA HolderType ==
  ASSUME NEW u
  PROVE  \/ Holder(u) = None /\ Writers(u) = {}
         \/ Holder(u) \in Requests /\ Wrote(Holder(u)) /\ op[Holder(u)].user = u
BY DEF Holder, Writers

(* A step shows nothing of the other requests. *)
LEMMA OthersSeen ==
  ASSUME DirectoryInv, NEW r \in Requests, Acts(r), NEW q \in Requests \ {r}
  PROVE  /\ Updating(q)' = Updating(q) /\ SeenStep(q)' = SeenStep(q)
         /\ SeenError(q)' = SeenError(q) /\ Wrote(q)' = Wrote(q)
         /\ SeenWrite(q)' = SeenWrite(q)
<1>1. op' = op /\ stage'[q] = stage[q] /\ pc'[q] = pc[q] /\ err'[q] = err[q]
  BY OthersStay DEF Acts
<1>2. Updates(q)' = Updates(q) /\ Updating(q)' = Updating(q)
  BY <1>1 DEF Updates, Updating
<1> QED
  BY <1>1, <1>2 DEF SeenStep, SeenError, Wrote, SeenWrite

(* Nor of a request that does something else. *)
LEMMA StageGrows ==
  ASSUME DirectoryInv, NEW r \in Requests, Acts(r)
  PROVE  op' = op /\ stage'[r] \in {stage[r], stage[r] + 1}
<1>1. op' = op
  BY OthersStay DEF Acts
<1>2. TypeOK
  BY DEF DirectoryInv
<1>3. CASE TeamStep(r) \/ AccountStep(r)
  BY <1>2, <1>3, TeamStepAlone, AccountStepAlone DEF Alone
<1>4. CASE Commit(r) \/ Rollback(r) \/ ServerAborts(r) \/ ServerCommits(r)
  <2>1. EndTx(r)
    BY <1>4 DEF Commit, Rollback, ServerAborts, ServerCommits
  <2> QED
    BY <1>1, <1>2, <2>1 DEF EndTx, TypeOK
<1>5. CASE Reject(r) \/ Begin(r) \/ CallFails(r) \/ DeadlockDetected(r)
  BY <1>5 DEF Reject, Begin, CallFails, DeadlockDetected
<1> QED
  BY <1>1, <1>3, <1>4, <1>5 DEF Acts, Step, Settle

LEMMA UnseenStays ==
  ASSUME DirectoryInv, NEW r \in Requests, Acts(r), ~Updating(r)
  PROVE  /\ ~Updating(r)' /\ SeenStep(r)' = SeenStep(r) /\ SeenStep(r) # "user"
         /\ SeenError(r)' = SeenError(r) /\ ~Wrote(r) /\ ~Wrote(r)'
<1>1. /\ op' = op /\ stage'[r] \in {stage[r], stage[r] + 1} /\ stage[r] \in Nat \ {0}
  BY StageGrows, RequestType DEF DirectoryInv
<1>2. Updates(r)' = Updates(r) /\ ~Updating(r)'
  BY <1>1 DEF Updates, Updating
<1> QED
  BY <1>1, <1>2 DEF SeenStep, SeenError, Wrote

LEMMA HoldersStay ==
  ASSUME DirectoryInv, NEW r \in Requests, Acts(r), Wrote(r)' = Wrote(r), NEW u
  PROVE  Holder(u)' = Holder(u)
<1>1. op' = op
  BY OthersStay DEF Acts
<1>2. \A q \in Requests : Wrote(q)' = Wrote(q)
  BY OthersSeen
<1>3. Writers(u)' = Writers(u)
  BY <1>1, <1>2 DEF Writers
<1> QED
  BY <1>3 DEF Holder

(* Of the actions of the directory half these are seen. *)
LEMMA UpdatingStep ==
  ASSUME DirectoryInv, NEW r \in Requests, Acts(r), Updating(r)
  PROVE  \/ Begin(r) \/ FindUser(r) \/ SetActive(r)
         \/ Commit(r) \/ Rollback(r) \/ ServerAborts(r) \/ ServerCommits(r) \/ CallFails(r)
<1>1. Doing(r) = "UpdateUserActive"
  BY UpdatingDoes
<1>2. ~Reject(r)
  BY <1>1 DEF Reject, Invalid
<1>3. ~TeamStep(r)
  BY <1>1 DEF TeamStep, InsertTeam, FindMember, InsertMember, FetchAfterConflict,
     SetMemberActive, SetMemberName, EnrolMember, FindTeam, FindUserOfTeam, Enrol, Dismiss,
     ReadTeams, In
<1>4. AccountStep(r) => FindUser(r) \/ SetActive(r)
  BY <1>1 DEF AccountStep, InsertUser, Rename, FindTeamOfUser, ReadTeamName, ReadUsers, In
<1>5. ~DeadlockDetected(r)
  <2> SUFFICES ASSUME InCycle(r)
               PROVE  FALSE
    BY DEF DeadlockDetected
  <2>1. PICK p \in Requests : r \in BlockedBy(p)
    BY DEF InCycle
  <2>2. BlockedBy(r) # {}
    BY DEF InCycle
  <2> QED
    BY <1>1, <2>1, <2>2, WaitingInLoop DEF InLoop
<1> QED
  BY <1>2, <1>3, <1>4, <1>5 DEF Acts, Step, Settle

(* The variables of the pull-request half, where it sees UpdateUserActive. *)
SeenTx(r, began) == [began |-> began, row |-> PR!NoPR, added |-> {}, removed |-> {},
                     user |-> SeenWrite(r)]

LEMMA SeenType ==
  ASSUME WholeInv, NEW r \in Requests
  PROVE  /\ PR!TypeOK /\ r \in Reviews \union Requests
         /\ prTx[r] = SeenTx(r, prTx[r].began)
         /\ prOp[r].kind = "UpdateUserActive" /\ prOp[r].user = op[r].user
         /\ prOp[r].active = (op[r].state = "active")
         /\ prOp[r].pr \in PRs /\ op[r].user \in Users /\ op[r].state \in Activity
         /\ PR!Row(r) = prs[prOp[r].pr] /\ PR!Assigned(r) = pr_reviewers[prOp[r].pr]
<1>1. PR!TypeOK /\ PR!CallOK(r) /\ Mirrored(r) /\ r \in Reviews \union Requests
  BY DEF WholeInv, Together, PR!IInv
<1>2. /\ prOp[r] = Seen(op[r]) /\ prOp[r] \in PR!Calls /\ prTx[r].user = SeenWrite(r)
      /\ prTx[r] \in PR!Txs
  BY <1>1 DEF Mirrored, PR!TypeOK, PR!Txs
<1>3. /\ prOp[r].kind = "UpdateUserActive" /\ prOp[r].user = op[r].user
      /\ prOp[r].active = (op[r].state = "active") /\ prOp[r].pr \in PRs
  BY <1>2 DEF Seen, PR!Calls
<1>4. PR!Clean(r)
  BY <1>1, <1>3 DEF PR!CallOK, PR!Unwritten, PR!Is
<1>5. prTx[r] = SeenTx(r, prTx[r].began)
  <2> DEFINE t == prTx[r]
  <2>1. t = [began |-> t.began, row |-> t.row, added |-> t.added, removed |-> t.removed,
             user |-> t.user]
    BY <1>2 DEF PR!Txs
  <2> QED
    BY <1>2, <1>4, <2>1 DEF PR!Clean, SeenTx
<1>6. PR!Row(r) = prs[prOp[r].pr] /\ PR!Assigned(r) = pr_reviewers[prOp[r].pr]
  BY <1>1, <1>4, Assumptions, PR!CleanView
<1>7. op[r].user \in Users /\ op[r].state \in Activity
  BY RequestType DEF WholeInv, DirectoryInv, Calls
<1> QED
  BY <1>1, <1>3, <1>5, <1>6, <1>7

(* A step that is shown, of a request that is seen. *)
LEMMA ShowsSeen ==
  ASSUME WholeInv, NEW r \in Requests, Acts(r), Shows(r)
  PROVE  LET begins == SeenStep(r) = "begin" /\ SeenStep(r)' = "user"
             began == IF begins THEN clock + 1 ELSE prTx[r].began
         IN  /\ clock' = IF begins THEN clock + 1 ELSE clock
             /\ prTx' = [prTx EXCEPT ![r] = [began |-> began, row |-> PR!NoPR, added |-> {},
                                             removed |-> {}, user |-> SeenWrite(r)']]
             /\ prPc' = [prPc EXCEPT ![r] = SeenStep(r)']
             /\ prErr' = [prErr EXCEPT ![r] = SeenError(r)']
             /\ prPc[r] = SeenStep(r) /\ prErr[r] = SeenError(r)
             /\ userLock' = [u \in Users |-> Holder(u)']
             /\ UNCHANGED <<prs, pr_reviewers, prLock, prOp, prMem>>
<1> DEFINE begins == SeenStep(r) = "begin" /\ SeenStep(r)' = "user"
           began == IF begins THEN clock + 1 ELSE prTx[r].began
<1>1. /\ prTx \in [Reviews \union Requests -> PR!Txs] /\ r \in Reviews \union Requests
      /\ prTx[r] = SeenTx(r, prTx[r].began) /\ Mirrored(r)
  BY SeenType DEF WholeInv, Together, PR!TypeOK, PR!Txs
<1>2. prTx' = [prTx EXCEPT ![r] = [prTx[r] EXCEPT !.began = began, !.user = SeenWrite(r)']]
  BY <1>1 DEF Shows
<1>3. ASSUME NEW b, NEW w
      PROVE  [prTx[r] EXCEPT !.began = b, !.user = w]
               = [began |-> b, row |-> PR!NoPR, added |-> {}, removed |-> {}, user |-> w]
  <2> DEFINE t == [prTx[r] EXCEPT !.began = b, !.user = w]
  <2>1. /\ prTx[r] \in PR!Txs
        /\ prTx[r].row = PR!NoPR /\ prTx[r].added = {} /\ prTx[r].removed = {}
    BY <1>1 DEF SeenTx
  <2>2. t \in [began : {b}, row : {PR!NoPR}, added : {{}}, removed : {{}}, user : {w}]
    BY <2>1 DEF PR!Txs
  <2> HIDE DEF t
  <2>3. t = [began |-> b, row |-> PR!NoPR, added |-> {}, removed |-> {}, user |-> w]
    BY <2>2
  <2> QED
    BY <2>3 DEF t
<1> HIDE DEF began
<1> QED
  BY <1>1, <1>2, <1>3 DEF Shows, Mirrored, began

(* What the actions of the pull-request half make of such a transaction.   *)
LEMMA SeenTxForms ==
  ASSUME WholeInv, NEW r \in Requests, NEW x
  PROVE  /\ [prTx EXCEPT ![r].began = x]
              = [prTx EXCEPT ![r] = [began |-> x, row |-> PR!NoPR, added |-> {},
                                     removed |-> {}, user |-> SeenWrite(r)]]
         /\ [prTx EXCEPT ![r].user = x]
              = [prTx EXCEPT ![r] = [began |-> prTx[r].began, row |-> PR!NoPR, added |-> {},
                                     removed |-> {}, user |-> x]]
         /\ prTx = [prTx EXCEPT ![r] = [began |-> prTx[r].began, row |-> PR!NoPR, added |-> {},
                                        removed |-> {}, user |-> SeenWrite(r)]]
         /\ [PR!NoTx EXCEPT !.began = x] = [began |-> x, row |-> PR!NoPR, added |-> {},
                                            removed |-> {}, user |-> "absent"]
<1> DEFINE t == prTx[r]
           B == [t EXCEPT !.began = x]
           U == [t EXCEPT !.user = x]
           N == [PR!NoTx EXCEPT !.began = x]
<1>1. /\ prTx \in [Reviews \union Requests -> PR!Txs] /\ r \in Reviews \union Requests
      /\ t = SeenTx(r, prTx[r].began)
  BY SeenType DEF PR!TypeOK, PR!Txs
<1>2. /\ t \in PR!Txs /\ t.row = PR!NoPR /\ t.added = {} /\ t.removed = {}
      /\ t.user = SeenWrite(r)
  BY <1>1 DEF SeenTx
<1> HIDE DEF t
<1>3. B = [began |-> x, row |-> PR!NoPR, added |-> {}, removed |-> {}, user |-> SeenWrite(r)]
  <2>1. B \in [began : {x}, row : {PR!NoPR}, added : {{}}, removed : {{}}, user : {SeenWrite(r)}]
    BY <1>2 DEF PR!Txs
  <2> HIDE DEF B
  <2> QED
    BY <2>1
<1>4. U = [began |-> t.began, row |-> PR!NoPR, added |-> {}, removed |-> {}, user |-> x]
  <2>1. U \in [began : {t.began}, row : {PR!NoPR}, added : {{}}, removed : {{}}, user : {x}]
    BY <1>2 DEF PR!Txs
  <2> HIDE DEF U
  <2> QED
    BY <2>1
<1>5. N = [began |-> x, row |-> PR!NoPR, added |-> {}, removed |-> {}, user |-> "absent"]
  <2>1. N \in [began : {x}, row : {PR!NoPR}, added : {{}}, removed : {{}}, user : {"absent"}]
    BY DEF PR!NoTx
  <2> HIDE DEF N
  <2> QED
    BY <2>1
<1>6. /\ [prTx EXCEPT ![r].began = x] = [prTx EXCEPT ![r] = B]
      /\ [prTx EXCEPT ![r].user = x] = [prTx EXCEPT ![r] = U]
      /\ prTx = [prTx EXCEPT ![r] = t]
  BY <1>1 DEF t
<1> HIDE DEF B, U, N
<1>7. prTx = [prTx EXCEPT ![r] = [began |-> t.began, row |-> PR!NoPR, added |-> {},
                                  removed |-> {}, user |-> SeenWrite(r)]]
  BY <1>1, <1>6 DEF SeenTx, t
<1> QED
  BY <1>3, <1>4, <1>5, <1>6, <1>7 DEF B, N, t, U

(* The pool has a connection for whoever begins, whichever half he is of.  *)
LEMMA RoomInPool ==
  ASSUME WholeInv, NEW r \in Requests, Acts(r), Shows(r), OnePool, SeenStep(r) = "begin",
         SeenStep(r)' = "user", pc'[r] = "getUser"
  PROVE  PR!Cardinality(PR!Connected) < MaxConns
<1> DEFINE C == PR!Connected
           D == AllConnected'
           Idle == {"begin", "done", "orphan", "orphanCommit"}
<1>1. /\ prPc' = [prPc EXCEPT ![r] = "user"] /\ prPc \in [Reviews \union Requests -> PR!Steps]
      /\ prPc[r] = "begin" /\ r \notin Reviews /\ DirectoryInv
  BY ReviewsAssumption DEF Shows, WholeInv, Together, Mirrored, PR!IInv, PR!TypeOK
<1>2. r \notin C /\ r \in D
  BY <1>1 DEF PR!Connected, AllConnected, Connected
<1>3. C \subseteq D
  <2> SUFFICES ASSUME NEW q \in C
               PROVE  q \in D
    OBVIOUS
  <2>1. q \in Reviews \union Requests /\ q # r /\ prPc[q] \notin Idle /\ prPc'[q] = prPc[q]
    BY <1>1, <1>2 DEF PR!Connected
  <2>2. CASE q \in Reviews
    BY <2>1, <2>2 DEF AllConnected
  <2>3. CASE q \in Requests
    <3>1. prPc[q] = SeenStep(q) /\ pc'[q] = pc[q]
      BY <1>1, <2>1, <2>3, OthersStay DEF Acts, WholeInv, Together, Mirrored
    <3>2. pc[q] \notin Idle
      BY <2>1, <3>1 DEF SeenStep
    <3> QED
      BY <2>3, <3>1, <3>2 DEF AllConnected, Connected
  <2> QED
    BY <2>1, <2>2, <2>3
<1>4. IsFiniteSet(D)
  <2>1. D \subseteq Reviews \union Requests
    BY DEF AllConnected, Connected
  <2>2. IsFiniteSet(Reviews \union Requests)
    BY FiniteAssumption, ReviewsAssumption, FS_Union
  <2> QED
    BY <2>1, <2>2, FS_Subset
<1>5. /\ IsFiniteSet(D \ {r}) /\ Cardinality(D \ {r}) = Cardinality(D) - 1
      /\ Cardinality(D) \in Nat
  BY <1>2, <1>4, FS_RemoveElement, FS_CardinalityType
<1>6. Cardinality(C) <= Cardinality(D \ {r}) /\ Cardinality(C) \in Nat
  <2>1. C \subseteq D \ {r}
    BY <1>2, <1>3
  <2> QED
    BY <1>5, <2>1, FS_Subset, FS_CardinalityType
<1>7. Cardinality(D) <= MaxConns /\ MaxConns \in Nat
  BY PoolAssumption DEF OnePool
<1>8. PR!Cardinality(C) = Cardinality(C)
  BY SameCardinality
<1> HIDE DEF C, D
<1>9. Cardinality(C) < MaxConns
  BY <1>5, <1>6, <1>7
<1> QED
  BY <1>8, <1>9 DEF C

-----------------------------------------------------------------------------
(* Each action of UpdateUserActive is the one of the pull-request half.    *)

(* What is common to them. *)
LEMMA SeenFrame ==
  ASSUME WholeInv, NEW r \in Requests, Acts(r), Shows(r)
  PROVE  /\ SeenError(r)' = SeenError(r) => prErr' = prErr
         /\ Wrote(r)' = Wrote(r) => userLock' = userLock
         /\ UNCHANGED users => UNCHANGED States
         /\ SeenStep(r) = "begin" /\ SeenStep(r)' = "user" /\ SeenWrite(r)' = SeenWrite(r) =>
              prTx' = [prTx EXCEPT ![r].began = clock + 1] /\ clock' = clock + 1
         /\ SeenStep(r) # "begin" \/ SeenStep(r)' # "user" =>
              prTx' = [prTx EXCEPT ![r].user = SeenWrite(r)'] /\ clock' = clock
         /\ SeenWrite(r)' = SeenWrite(r) /\ (SeenStep(r) # "begin" \/ SeenStep(r)' # "user") =>
              prTx' = prTx
<1>1. /\ DirectoryInv /\ Together
      /\ prErr \in [Reviews \union Requests -> PR!Errors] /\ r \in Reviews \union Requests
  BY DEF WholeInv, PR!IInv, PR!TypeOK
<1>2. SeenError(r)' = SeenError(r) => prErr' = prErr
  BY <1>1, ShowsSeen
<1>3. ASSUME Wrote(r)' = Wrote(r)
      PROVE  userLock' = userLock
  <2>1. \A u \in Users : Holder(u)' = Holder(u)
    BY <1>1, <1>3, HoldersStay
  <2> QED
    BY <1>1, <2>1 DEF Shows, Together
<1> DEFINE Form(b, w) == [prTx EXCEPT ![r] = [began |-> b, row |-> PR!NoPR, added |-> {},
                                              removed |-> {}, user |-> w]]
<1>4. /\ [prTx EXCEPT ![r].began = clock + 1] = Form(clock + 1, SeenWrite(r))
      /\ [prTx EXCEPT ![r].user = SeenWrite(r)'] = Form(prTx[r].began, SeenWrite(r)')
      /\ prTx = Form(prTx[r].began, SeenWrite(r))
  BY SeenTxForms
<1>5. CASE SeenStep(r) = "begin" /\ SeenStep(r)' = "user"
  <2>1. prTx' = Form(clock + 1, SeenWrite(r)') /\ clock' = clock + 1
    BY <1>5, ShowsSeen
  <2> HIDE DEF Form
  <2> QED
    BY <1>2, <1>3, <1>4, <1>5, <2>1 DEF States
<1>6. CASE SeenStep(r) # "begin" \/ SeenStep(r)' # "user"
  <2>1. prTx' = Form(prTx[r].began, SeenWrite(r)') /\ clock' = clock
    BY <1>6, ShowsSeen
  <2> HIDE DEF Form
  <2> QED
    BY <1>2, <1>3, <1>4, <1>6, <2>1 DEF States
<1> QED
  BY <1>5, <1>6

LEMMA BeginSeen ==
  ASSUME WholeInv, NEW r \in Requests, Updating(r), Begin(r), Shows(r), OnePool
  PROVE  PR!Begin(r, PR!FirstStep[prOp[r].kind])
<1>1. Acts(r) /\ DirectoryInv /\ Doing(r) = "UpdateUserActive" /\ r \in DOMAIN pc
  BY UpdatingDoes DEF Acts, Step, WholeInv, DirectoryInv, TypeOK
<1>2. /\ pc[r] = "begin" /\ pc'[r] = "getUser" /\ err' = err
      /\ UNCHANGED <<users, team_members, op, stage>>
  BY <1>1 DEF Begin, First
<1>3. Updating(r)'
  BY <1>2 DEF Updating, Updates
<1>4. /\ SeenStep(r) = "begin" /\ SeenStep(r)' = "user" /\ SeenError(r)' = SeenError(r)
      /\ SeenWrite(r) = "absent" /\ SeenWrite(r)' = "absent" /\ Wrote(r)' = Wrote(r)
  BY <1>2, <1>3 DEF SeenStep, SeenError, SeenWrite, Wrote
<1>5. PR!Cardinality(PR!Connected) < MaxConns
  BY <1>1, <1>2, <1>4, RoomInPool
<1>6. prErr' = prErr /\ userLock' = userLock /\ UNCHANGED States
  BY <1>1, <1>2, <1>4, SeenFrame
<1>7. prTx' = [prTx EXCEPT ![r].began = clock + 1] /\ clock' = clock + 1
  BY <1>1, <1>4, SeenFrame
<1>8. PR!FirstStep[prOp[r].kind] = "user"
  BY SeenType DEF PR!FirstStep
<1>9. /\ prPc[r] = "begin" /\ prPc' = [prPc EXCEPT ![r] = "user"]
      /\ UNCHANGED <<prs, pr_reviewers, prLock, prOp, prMem>>
  BY <1>1, <1>4, ShowsSeen
<1> QED
  BY <1>2, <1>5, <1>6, <1>7, <1>8, <1>9 DEF PR!Begin

LEMMA FindUserSeen ==
  ASSUME WholeInv, NEW r \in Requests, Updating(r), FindUser(r), Shows(r)
  PROVE  PR!FindUser(r)
<1> DEFINE u == op[r].user
           e == IF States[u] = "absent" THEN "ErrUserNotFound" ELSE "nil"
<1>1. /\ Acts(r) /\ DirectoryInv /\ Doing(r) = "UpdateUserActive" /\ CallOK(r)
      /\ r \in DOMAIN pc /\ r \in DOMAIN err /\ u \in Users
  BY UpdatingDoes, SeenType DEF Acts, Step, AccountStep, WholeInv, DirectoryInv, TypeOK
<1>2. /\ pc[r] = "getUser" /\ ReadOnly /\ Verdict(r, Found(r, u), Goto("updateActive"))
  BY <1>1 DEF FindUser, In, Ready, GetUserByID
<1>3. Found(r, u) = e /\ err[r] = "nil"
  <2>1. tx[r] = NoTx /\ err[r] = "nil"
    BY <1>1, <1>2 DEF CallOK, Statements, Steps, InLoop, WholeInv, Together, Mirrored
  <2> QED
    BY <1>1, <2>1 DEF Found, UserRow, Writes, NoTx, NoUser, Exists, States
<1>4. pc'[r] = (IF e = "nil" THEN "updateActive" ELSE "rollback") /\ err'[r] = e
  BY <1>1, <1>2, <1>3 DEF Verdict, Goto
<1>5. Updating(r)' /\ UNCHANGED <<users, team_members>>
  BY <1>2 DEF Updating, Updates, ReadOnly, Private
<1>6. /\ SeenStep(r) = "user" /\ SeenError(r)' = e
      /\ SeenStep(r)' = IF e = "nil" THEN "setActive" ELSE "rollback"
      /\ SeenWrite(r)' = SeenWrite(r) /\ Wrote(r)' = Wrote(r)
  BY <1>2, <1>4, <1>5 DEF SeenStep, SeenError, SeenWrite, Wrote
<1>7. UNCHANGED <<States, userLock, prTx, clock>>
  BY <1>1, <1>5, <1>6, SeenFrame
<1> HIDE DEF e
<1>8. /\ prPc[r] = "user" /\ prOp[r].user = u
      /\ prErr' = [prErr EXCEPT ![r] = e]
      /\ prPc' = [prPc EXCEPT ![r] = IF e = "nil" THEN "setActive" ELSE "rollback"]
      /\ UNCHANGED <<prs, pr_reviewers, prLock, prOp, prMem>>
  BY <1>1, <1>6, ShowsSeen, SeenType
<1> QED
  BY <1>5, <1>7, <1>8
     DEF e, PR!FindUser, PR!At, PR!GetUserByID, PR!Verdict, PR!ReadOnly

(* The rows of others stay as they are, and so does his, but for him.      *)
LEMMA WritersMove ==
  ASSUME WholeInv, NEW r \in Requests, Acts(r)
  PROVE  /\ \A u : u # op[r].user => Writers(u)' = Writers(u) /\ Holder(u)' = Holder(u)
         /\ \A u : Writers(u)' \ {r} = Writers(u) \ {r}
         /\ \A u : r \in Writers(u)' <=> Wrote(r)' /\ u = op[r].user
<1>1. DirectoryInv /\ op' = op
  BY OthersStay DEF Acts, WholeInv
<1>2. \A q \in Requests \ {r} : Wrote(q)' = Wrote(q)
  BY <1>1, OthersSeen
<1>3. \A u : u # op[r].user => Writers(u)' = Writers(u)
  BY <1>1, <1>2 DEF Writers
<1>4. ASSUME NEW u, u # op[r].user
      PROVE  Holder(u)' = Holder(u)
  <2>1. Writers(u)' = Writers(u)
    BY <1>3, <1>4
  <2> QED
    BY <2>1 DEF Holder
<1> QED
  BY <1>1, <1>2, <1>3, <1>4 DEF Writers

LEMMA SetActiveSeen ==
  ASSUME WholeInv, NEW r \in Requests, Updating(r), SetActive(r), Shows(r)
  PROVE  PR!SetActive(r)
<1> DEFINE u == op[r].user
           e == IF States[u] = "absent" THEN "ErrUserNotFound" ELSE "nil"
<1>1. /\ Acts(r) /\ DirectoryInv /\ Doing(r) = "UpdateUserActive" /\ CallOK(r)
      /\ r \in DOMAIN pc /\ r \in DOMAIN err /\ u \in Users /\ op[r].state \in Activity
  BY UpdatingDoes, SeenType DEF Acts, Step, AccountStep, WholeInv, DirectoryInv, TypeOK
<1>2. /\ pc[r] = "updateActive" /\ BlockedBy(r) = {} /\ Private
      /\ Verdict(r, Found(r, u), Goto("commit"))
  BY <1>1 DEF SetActive, In, Ready, UpdateUserActive, Writing
<1>3. Found(r, u) = e /\ err[r] = "nil"
  <2>1. tx[r] = NoTx /\ err[r] = "nil"
    BY <1>1, <1>2 DEF CallOK, Statements, Steps, InLoop, WholeInv, Together, Mirrored
  <2> QED
    BY <1>1, <2>1 DEF Found, UserRow, Writes, NoTx, NoUser, Exists, States
<1>4. pc'[r] = (IF e = "nil" THEN "commit" ELSE "rollback") /\ err'[r] = e
  BY <1>1, <1>2, <1>3 DEF Verdict, Goto
<1>5. Updating(r)' /\ op' = op /\ UNCHANGED <<users, team_members>>
  BY <1>2 DEF Updating, Updates, Private
<1>6. /\ SeenStep(r) = "setActive" /\ SeenError(r)' = e
      /\ SeenStep(r)' = (IF e = "nil" THEN "commit" ELSE "rollback")
      /\ SeenWrite(r) = "absent" /\ ~Wrote(r)
      /\ SeenWrite(r)' = (IF e = "nil" THEN op[r].state ELSE "absent")
      /\ Wrote(r)' <=> e = "nil"
  BY <1>2, <1>4, <1>5 DEF SeenStep, SeenError, SeenWrite, Wrote
<1>7. Writers(u) = {} /\ Holder(u) = None
  <2> SUFFICES ASSUME NEW q \in Writers(u)
               PROVE  FALSE
    BY DEF Holder
  <2>1. /\ q \in Requests /\ q # r
        /\ Writes(q, u) /\ Exists(users[u])
    BY <1>1, <1>6, WriterWrites DEF Writers
  <2>2. Subject(r) = u
    BY <1>1 DEF Subject
  <2> QED
    BY <1>2, <2>1, <2>2 DEF BlockedBy
<1>8. userLock[u] = None /\ userLock \in [Users -> Requests \union {None}]
  BY <1>1, <1>7, HolderType DEF WholeInv, Together
<1>9. userLock' = IF e = "nil" THEN [userLock EXCEPT ![u] = r] ELSE userLock
  <2>1. CASE e # "nil"
    <3>1. Wrote(r)' = Wrote(r)
      BY <1>6, <2>1 DEF Wrote
    <3> QED
      BY <1>1, <2>1, <3>1, SeenFrame
  <2>2. CASE e = "nil"
    <3>1. ASSUME NEW v, v = u
          PROVE  Holder(v)' = r
      <4>1. Writers(v)' = {r}
        BY <1>1, <1>6, <1>7, <2>2, <3>1, WritersMove
      <4> QED
        BY <4>1 DEF Holder
    <3>3. ASSUME NEW v \in Users
          PROVE  Holder(v)' = IF v = u THEN r ELSE Holder(v)
      <4>1. CASE v = u
        BY <3>1, <4>1
      <4>2. CASE v # u
        BY <1>1, <4>2, WritersMove
      <4> QED
        BY <4>1, <4>2
    <3>4. /\ userLock = [v \in Users |-> Holder(v)]
          /\ userLock' = [v \in Users |-> Holder(v)']
      BY DEF Shows, WholeInv, Together
    <3> QED
      BY <1>1, <2>2, <3>3, <3>4
  <2> QED
    BY <2>1, <2>2
<1>10. /\ prPc[r] = "setActive" /\ prOp[r].user = u
       /\ prOp[r].active = (op[r].state = "active")
       /\ prErr' = [prErr EXCEPT ![r] = e] /\ UNCHANGED States
       /\ prPc' = [prPc EXCEPT ![r] = IF e = "nil" THEN "commit" ELSE "rollback"]
       /\ UNCHANGED <<prs, pr_reviewers, prLock, prOp, prMem>>
  BY <1>1, <1>5, <1>6, ShowsSeen, SeenType DEF States
<1>11. clock' = clock /\ prTx' = IF e = "nil" THEN [prTx EXCEPT ![r].user = op[r].state] ELSE prTx
  <2>1. SeenStep(r) # "begin"
    BY <1>6
  <2>2. clock' = clock /\ prTx' = [prTx EXCEPT ![r].user = SeenWrite(r)']
    BY <1>1, <2>1, SeenFrame
  <2>3. CASE e # "nil"
    <3>1. SeenWrite(r)' = SeenWrite(r)
      BY <1>6, <2>3
    <3> QED
      BY <1>1, <2>1, <2>2, <2>3, <3>1, SeenFrame
  <2>4. CASE e = "nil"
    BY <1>6, <2>2, <2>4
  <2> QED
    BY <2>3, <2>4
<1>12. op[r].state = IF prOp[r].active THEN "active" ELSE "inactive"
  BY <1>1, <1>10 DEF Activity
<1>13. (e = "nil") <=> States[u] # "absent"
  OBVIOUS
<1> HIDE DEF u, e
<1>14. e = IF States[u] = "absent" THEN "ErrUserNotFound" ELSE "nil"
  BY DEF e
<1> QED
  BY <1>5, <1>8, <1>9, <1>10, <1>11, <1>12, <1>13, <1>14
     DEF PR!SetActive, PR!At, PR!UpdateUserActive, PR!Verdict, PR!Private

(* The transaction ends, and with it what is seen of the request.          *)
LEMMA EndTxSeen ==
  ASSUME WholeInv, NEW r \in Requests, Updating(r), Acts(r), EndTx(r), Shows(r),
         pc[r] \in {"commit", "rollback", "orphan", "orphanCommit"},
         UNCHANGED team_members
  PROVE  PR!EndTx(r)
<1> DEFINE u == op[r].user
<1>1. /\ DirectoryInv /\ r \in DOMAIN pc /\ r \in DOMAIN stage /\ u \in Users
      /\ prErr[r] = SeenError(r) /\ prMem[r] = PR!Locals
  BY SeenType DEF WholeInv, DirectoryInv, TypeOK, Together, Mirrored
<1>2. /\ err' = err /\ op' = op
      /\ \/ err[r] = "nil" /\ pc'[r] = "begin" /\ stage'[r] = stage[r] + 1
         \/ pc'[r] = "done" /\ stage'[r] = stage[r]
  BY <1>1 DEF EndTx
<1>3. /\ SeenStep(r) # "begin" /\ SeenStep(r)' = "done" /\ SeenError(r)' = SeenError(r)
      /\ ~Wrote(r)' /\ SeenWrite(r)' = "absent" /\ prPc[r] = pc[r]
  BY <1>1, <1>2 DEF SeenStep, SeenError, SeenWrite, Wrote, Updating, Updates, WholeInv,
     Together, Mirrored
<1>4. /\ prTx' = [prTx EXCEPT ![r] = [PR!NoTx EXCEPT !.began = prTx[r].began]]
  <2> DEFINE Form(b, w) == [began |-> b, row |-> PR!NoPR, added |-> {},
                            removed |-> {}, user |-> w]
  <2>1. [PR!NoTx EXCEPT !.began = prTx[r].began] = Form(prTx[r].began, "absent")
    BY SeenTxForms
  <2>2. prTx' = [prTx EXCEPT ![r] = Form(prTx[r].began, SeenWrite(r)')]
    BY <1>3, ShowsSeen
  <2> HIDE DEF Form
  <2> QED
    BY <1>3, <2>1, <2>2
<1>5. userLock' = PR!Released(userLock, r)
  <2>1. ASSUME NEW v \in Users
        PROVE  Holder(v)' = IF Holder(v) = r THEN None ELSE Holder(v)
    <3>1. CASE Wrote(r) /\ v = u
      <4>1. Writers(u) = {r} /\ Holder(u) = r
        BY <1>1, <3>1, HolderIsWriter
      <4>2. Writers(v)' = {}
        BY <1>3, <3>1, <4>1, WritersMove
      <4> QED
        BY <3>1, <4>1, <4>2 DEF Holder
    <3>2. CASE ~Wrote(r) \/ v # u
      <4>1. r \notin Writers(v) /\ r \notin Writers(v)'
        BY <1>3, <3>2, WritersMove DEF Writers
      <4>2. Writers(v)' = Writers(v)
        <5>1. Writers(v)' \ {r} = Writers(v) \ {r}
          BY WritersMove
        <5>2. \A q : q \in Writers(v)' <=> q \in Writers(v)
          BY <4>1, <5>1
        <5> QED
          BY <5>2 DEF Writers
      <4>3. Holder(v)' = Holder(v)
        BY <4>2 DEF Holder
      <4>4. Holder(v) # r
        BY <4>1, NullAssumption DEF Holder
      <4> QED
        BY <4>3, <4>4
    <3> QED
      BY <3>1, <3>2
  <2>2. /\ userLock = [v \in Users |-> Holder(v)]
        /\ userLock' = [v \in Users |-> Holder(v)']
    BY DEF Shows, WholeInv, Together
  <2> QED
    BY <2>1, <2>2 DEF PR!Released
<1>6. prLock' = PR!Released(prLock, r)
  <2>1. /\ prLock' = prLock /\ \A p \in PRs : prLock[p] \notin Requests
        /\ prLock \in [PRs -> Reviews \union Requests \union {None}]
    BY DEF Shows, WholeInv, Together, PR!IInv, PR!TypeOK
  <2> QED
    BY <2>1 DEF PR!Released
<1>7. /\ prMem \in [Reviews \union Requests ->
                      [row : PR!PRRows, reviewers : PR!Seq(Users), team : Teams \union {None},
                       selected : PR!Seq(Users), next : Nat]]
      /\ r \in Reviews \union Requests
  BY DEF WholeInv, PR!IInv, PR!TypeOK
<1>8. prMem' = [prMem EXCEPT ![r] = IF prErr[r] = "nil" THEN @ ELSE PR!Locals]
  BY <1>1, <1>7 DEF Shows
<1>9. prErr' = prErr /\ prPc' = [prPc EXCEPT ![r] = "done"] /\ clock' = clock /\ prOp' = prOp
  <2>1. prErr' = prErr
    BY <1>3, SeenFrame
  <2>2. prPc' = [prPc EXCEPT ![r] = "done"] /\ clock' = clock /\ prOp' = prOp
    BY <1>3, ShowsSeen
  <2> QED
    BY <2>1, <2>2
<1> QED
  BY <1>4, <1>5, <1>6, <1>8, <1>9 DEF PR!EndTx

LEMMA PublishSeen ==
  ASSUME WholeInv, OnlyRoutesWrite, NEW r \in Requests, Updating(r), Publish(r),
         pc[r] \in {"commit", "orphanCommit"}, Shows(r)
  PROVE  PR!Publish(r) /\ UNCHANGED team_members
<1> DEFINE u == op[r].user
<1>1. DirectoryInv /\ Doing(r) = "UpdateUserActive"
  BY UpdatingDoes DEF WholeInv
<1>2. States' = [States EXCEPT ![u] = op[r].state] /\ team_members' = team_members
  BY <1>1, PublishShows DEF StateShows
<1>3. /\ prTx[r].user = op[r].state /\ op[r].state # "absent" /\ prOp[r].user = u
      /\ PR!Row(r) = prs[prOp[r].pr] /\ PR!Assigned(r) = pr_reviewers[prOp[r].pr]
  BY SeenType DEF WholeInv, Together, Mirrored, SeenWrite, Wrote, Activity
<1>4. /\ prs \in [PRs -> PR!PRRows] /\ pr_reviewers \in [PRs -> [Users -> Nat]]
      /\ prs' = prs /\ pr_reviewers' = pr_reviewers
  BY DEF Shows, WholeInv, PR!IInv, PR!TypeOK
<1> QED
  BY <1>2, <1>3, <1>4 DEF PR!Publish

LEMMA EndSeen ==
  ASSUME WholeInv, OnlyRoutesWrite, NEW r \in Requests, Updating(r), Shows(r),
         Commit(r) \/ Rollback(r) \/ ServerAborts(r) \/ ServerCommits(r)
  PROVE  PR!Commit(r) \/ PR!Rollback(r) \/ PR!ServerAborts(r) \/ PR!ServerCommits(r)
<1>1. Acts(r) /\ EndTx(r)
  BY DEF Acts, Step, Settle, Commit, Rollback, ServerAborts, ServerCommits
<1>2. pc[r] \in {"commit", "rollback", "orphan", "orphanCommit"} => prPc[r] = pc[r]
  BY DEF WholeInv, Together, Mirrored, SeenStep
<1>3. CASE Commit(r) \/ ServerCommits(r)
  <2>1. Publish(r) /\ pc[r] \in {"commit", "orphanCommit"}
    BY <1>3 DEF Commit, ServerCommits
  <2>2. PR!Publish(r) /\ PR!EndTx(r)
    BY <1>1, <2>1, PublishSeen, EndTxSeen
  <2> QED
    BY <1>2, <2>1, <2>2 DEF PR!Commit, PR!ServerCommits
<1>4. CASE Rollback(r) \/ ServerAborts(r)
  <2>1. UNCHANGED <<users, team_members>> /\ pc[r] \in {"rollback", "orphan", "orphanCommit"}
    BY <1>4 DEF Rollback, ServerAborts, tables
  <2>2. PR!Discard
    BY <2>1 DEF Shows, States, PR!Discard
  <2>3. PR!EndTx(r)
    BY <1>1, <2>1, EndTxSeen
  <2> QED
    BY <1>2, <2>1, <2>2, <2>3 DEF PR!Rollback, PR!ServerAborts
<1> QED
  BY <1>3, <1>4

LEMMA CallFailsSeen ==
  ASSUME WholeInv, NEW r \in Requests, Updating(r), CallFails(r), Shows(r)
  PROVE  PR!CallFails(r)
<1>1. /\ Acts(r) /\ DirectoryInv /\ r \in DOMAIN pc /\ r \in DOMAIN err
      /\ PR!OnPath(r) /\ prOp[r].kind = "UpdateUserActive"
      /\ prPc[r] = SeenStep(r) /\ prErr[r] = SeenError(r) /\ prMem[r] = PR!Locals
  BY SeenType DEF Acts, WholeInv, DirectoryInv, TypeOK, PR!IInv, PR!CallOK, Together, Mirrored
<1>2. /\ UNCHANGED <<users, team_members, op, stage>>
      /\ pc[r] \notin {"done", "orphan", "orphanCommit"}
      /\ pc'[r] = IF pc[r] = "begin" THEN "done"
                  ELSE IF pc[r] = "commit" THEN "orphanCommit" ELSE "orphan"
  BY <1>1 DEF CallFails
<1>3. Updating(r)'
  BY <1>2 DEF Updating, Updates
<1>4. pc[r] # "refetch"
  BY <1>1 DEF PR!OnPath, PR!Path, PR!Ends, SeenStep
<1>5. err'[r] = IF pc[r] = "rollback" THEN err[r] ELSE "ErrInternal"
  BY <1>1, <1>4 DEF CallFails
<1>6. /\ SeenStep(r)' = pc'[r] /\ pc'[r] # "user"
      /\ prPc[r] = "begin" <=> pc[r] = "begin"
      /\ prPc[r] = "commit" <=> pc[r] = "commit"
      /\ prPc[r] = "rollback" <=> pc[r] = "rollback"
      /\ prPc[r] \notin {"done", "orphan", "orphanCommit"}
  BY <1>1, <1>2, <1>3 DEF SeenStep
<1>7. SeenWrite(r)' = SeenWrite(r) /\ Wrote(r)' = Wrote(r)
  BY <1>2, <1>3 DEF SeenWrite, Wrote
<1>8. prTx' = prTx /\ clock' = clock /\ userLock' = userLock /\ States' = States
  <2>1. SeenStep(r)' # "user" /\ users' = users
    BY <1>2, <1>6
  <2> QED
    BY <1>1, <1>7, <2>1, SeenFrame
<1>9. /\ prPc' = [prPc EXCEPT ![r] = IF @ = "begin" THEN "done"
                                     ELSE IF @ = "commit" THEN "orphanCommit" ELSE "orphan"]
      /\ UNCHANGED <<prs, pr_reviewers, prLock, prOp, prMem>>
  BY <1>1, <1>2, <1>6, ShowsSeen
<1>10. prErr' = [prErr EXCEPT ![r] = IF prPc[r] = "rollback" THEN @ ELSE "ErrInternal"]
  <2>1. SeenError(r)' = IF pc[r] = "rollback" THEN SeenError(r) ELSE "ErrInternal"
    BY <1>3, <1>5 DEF SeenError
  <2> QED
    BY <1>1, <1>6, <2>1, ShowsSeen
<1>11. prMem' = [prMem EXCEPT ![r] = IF prErr'[r] = "nil" THEN @ ELSE PR!Locals]
  BY <1>1, <1>9 DEF WholeInv, PR!IInv, PR!TypeOK
<1> QED
  BY <1>2, <1>6, <1>8, <1>9, <1>10, <1>11 DEF PR!CallFails

(* Whatever UpdateUserActive does, the pull-request half does.             *)
LEMMA UpdatingMoves ==
  ASSUME WholeInv, OnlyRoutesWrite, NEW r \in Requests, Updating(r), Acts(r), Shows(r), OnePool
  PROVE  PR!Moves(r)
<1>1. \/ Begin(r) \/ FindUser(r) \/ SetActive(r)
      \/ Commit(r) \/ Rollback(r) \/ ServerAborts(r) \/ ServerCommits(r) \/ CallFails(r)
  BY UpdatingStep DEF WholeInv
<1>2. CASE Begin(r)
  BY <1>2, BeginSeen DEF PR!Moves, PR!Step
<1>3. CASE FindUser(r) \/ SetActive(r)
  BY <1>3, FindUserSeen, SetActiveSeen DEF PR!Moves, PR!Step, PR!UserStep
<1>4. CASE Commit(r) \/ Rollback(r) \/ ServerAborts(r) \/ ServerCommits(r)
  BY <1>4, EndSeen DEF PR!Moves, PR!Step, PR!Settle
<1>5. CASE CallFails(r)
  BY <1>5, CallFailsSeen DEF PR!Moves
<1> QED
  BY <1>1, <1>2, <1>3, <1>4, <1>5

(* Whatever else the directory half does shows a team that is added, all   *)
(* of it at once, or nothing.                                              *)
LEMMA UnseenMoves ==
  ASSUME WholeInv, OnlyRoutesWrite, NEW r \in Requests, ~Updating(r), Acts(r), Shows(r)
  PROVE  UNCHANGED PR!vars \/ \E new \in TeamsAsked : PR!TeamAdded(new)
<1>1. DirectoryInv /\ Doing(r) # "UpdateUserActive"
  BY UpdatingDoes DEF WholeInv
<1>2. /\ SeenStep(r)' = SeenStep(r) /\ SeenStep(r) # "user" /\ SeenError(r)' = SeenError(r)
      /\ Wrote(r)' = Wrote(r) /\ SeenWrite(r)' = SeenWrite(r)
  BY <1>1, UnseenStays DEF Wrote, SeenWrite
<1>3. UNCHANGED PR!calls
  <2>1. prErr' = prErr /\ userLock' = userLock /\ prTx' = prTx /\ clock' = clock
    <3>1. SeenStep(r)' # "user"
      BY <1>2
    <3> QED
      BY <1>2, <3>1, SeenFrame
  <2>2. prPc' = prPc
    <3>1. prPc' = [prPc EXCEPT ![r] = SeenStep(r)'] /\ prPc[r] = SeenStep(r)
      BY ShowsSeen
    <3>2. prPc \in [Reviews \union Requests -> PR!Steps]
      BY DEF WholeInv, PR!IInv, PR!TypeOK
    <3> QED
      BY <1>2, <3>1, <3>2
  <2> QED
    BY <2>1, <2>2 DEF Shows, PR!calls
<1>4. CASE UNCHANGED <<States, team_members>>
  BY <1>3, <1>4 DEF PR!vars, PR!calls
<1>5. CASE TeamShows(r) /\ Doing(r) = "CreateTeamWithMembers" /\ Publish(r)
  <2> DEFINE Added(new, kept) ==
        /\ Shared!AddTeam(new, kept)
        /\ \A u \in new.members \ kept : u \in Users /\ users'[u].state # users[u].state
  <2>0. PICK new \in TeamsAsked : \E kept \in SUBSET new.members : Added(new, kept)
    BY <1>5 DEF TeamShows
  <2>1. PICK kept \in SUBSET new.members : Added(new, kept)
    BY <2>0
  <2>2. ASSUME NEW u \in new.members \ kept
        PROVE  userLock[u] = None
    <3>1. u \in Users /\ Writes(r, u)
      <4>1. u \in Users /\ users'[u] # users[u]
        BY <2>1
      <4> QED
        BY <1>1, <1>5, <4>1, PublishedUsers DEF DirectoryInv
    <3>2. Holder(u) = None
      <4> SUFFICES ASSUME Holder(u) # None
                   PROVE  FALSE
        OBVIOUS
      <4> DEFINE q == Holder(u)
      <4>1. q \in Requests /\ Wrote(q) /\ op[q].user = u
        BY HolderType
      <4>2. Writes(q, u) /\ Doing(q) = "UpdateUserActive"
        BY <1>1, <4>1, WriterWrites, UpdatingDoes DEF Wrote
      <4> HIDE DEF q
      <4>3. q # r
        BY <1>1, <4>2
      <4> QED
        BY <1>1, <3>1, <4>1, <4>2, <4>3 DEF DirectoryInv, Exclusive
    <3> QED
      BY <3>1, <3>2 DEF WholeInv, Together
  <2>3. PR!Shared!AddTeam(new, kept)
    BY <2>1 DEF Shared!AddTeam, PR!Shared!AddTeam
  <2>4. PR!TeamAdded(new)
    BY <1>3, <2>1, <2>2, <2>3 DEF PR!TeamAdded, PR!calls
  <2> QED
    BY <2>1, <2>4
<1>6. UNCHANGED tables \/ Published(r)
  BY PublishedBy DEF Acts
<1>7. CASE Published(r)
  BY <1>1, <1>4, <1>5, <1>7, PublishShows DEF Published
<1>8. CASE UNCHANGED tables
  BY <1>4, <1>8 DEF tables, States
<1> QED
  BY <1>6, <1>7, <1>8

-----------------------------------------------------------------------------
(* Every step of the whole is one of the pull-request half, or shows it    *)
(* nothing.                                                                *)
LEMMA ReviewPart ==
  ASSUME WholeInv, OnlyRoutesWrite, [WholeNext]_whole
  PROVE  [PR!Next]_(PR!vars)
<1>1. ASSUME NEW r \in Reviews, ReviewStep(r)
      PROVE  PR!Next
  BY <1>1 DEF ReviewStep, PR!Next
<1>2. ASSUME NEW r \in Requests, DirectoryStep(r)
      PROVE  PR!Next \/ UNCHANGED PR!vars
  <2>1. Acts(r) /\ Shows(r) /\ OnePool
    BY <1>2 DEF DirectoryStep, Acts
  <2>2. CASE Updating(r)
    BY <2>1, <2>2, UpdatingMoves DEF PR!Next, PR!Moves
  <2>3. CASE ~Updating(r)
    BY <2>1, <2>3, UnseenMoves DEF PR!Next
  <2> QED
    BY <2>2, <2>3
<1>3. CASE UNCHANGED whole
  BY <1>3 DEF whole, vars, reviews, States, PR!vars
<1> QED
  BY <1>1, <1>2, <1>3 DEF WholeNext

(* UpdateUserActive returns at its first error. *)
LEMMA ErrorSeen ==
  ASSUME WholeInv, NEW r \in Requests, Acts(r), Updating(r)',
         pc'[r] \in {"begin", "getUser", "updateActive", "commit"}
  PROVE  err'[r] = "nil"
<1>1. /\ DirectoryInv /\ r \in DOMAIN pc /\ r \in DOMAIN err /\ r \in DOMAIN stage
      /\ Updating(r) /\ pc[r] \in {"begin", "getUser", "updateActive", "commit"} =>
           err[r] = "nil"
  BY DEF WholeInv, DirectoryInv, TypeOK, Together, Mirrored
<1>2. Updating(r)
  BY <1>1, UnseenStays
<1>3. CASE Begin(r)
  BY <1>1, <1>2, <1>3 DEF Begin
<1>4. CASE FindUser(r)
  BY <1>1, <1>2, <1>4 DEF FindUser, In, Ready, GetUserByID, Verdict
<1>5. CASE SetActive(r)
  BY <1>1, <1>2, <1>5 DEF SetActive, In, Ready, UpdateUserActive, Verdict
<1>6. CASE Commit(r) \/ Rollback(r) \/ ServerAborts(r) \/ ServerCommits(r)
  <2>1. EndTx(r)
    BY <1>6 DEF Commit, Rollback, ServerAborts, ServerCommits
  <2>2. pc'[r] = "begin" /\ stage'[r] = stage[r] + 1
    BY <1>1, <2>1 DEF EndTx
  <2>3. stage[r] = 1 /\ stage'[r] = 1
    BY <1>2 DEF Updating
  <2> QED
    BY <2>2, <2>3
<1>7. CASE CallFails(r)
  BY <1>1, <1>7 DEF CallFails
<1> QED
  BY <1>1, <1>2, <1>3, <1>4, <1>5, <1>6, <1>7, UpdatingStep

LEMMA DirectoryStepTogether ==
  ASSUME WholeInv, NEW r \in Requests, Acts(r), Shows(r)
  PROVE  Together'
<1>1. /\ DirectoryInv /\ op' = op /\ Together
      /\ \A q \in Requests \ {r} : pc'[q] = pc[q] /\ err'[q] = err[q]
  BY OthersStay DEF WholeInv, Acts
<1>2. /\ prTx \in [Reviews \union Requests -> PR!Txs]
      /\ prPc \in [Reviews \union Requests -> PR!Steps]
      /\ prErr \in [Reviews \union Requests -> PR!Errors]
  BY DEF WholeInv, PR!IInv, PR!TypeOK, PR!Txs
<1>3. Mirrored(r)'
  <2>1. prOp'[r] = Seen(op'[r]) /\ prMem'[r] = PR!Locals
    BY <1>1 DEF Shows, Together, Mirrored
  <2>2. prPc'[r] = SeenStep(r)' /\ prErr'[r] = SeenError(r)'
    BY <1>2, ShowsSeen
  <2>3. prTx'[r].user = SeenWrite(r)'
    BY <1>2, ShowsSeen
  <2> QED
    BY <2>1, <2>2, <2>3, ErrorSeen DEF Mirrored, Seen
<1>4. ASSUME NEW q \in Requests \ {r}
      PROVE  Mirrored(q)'
  <2>1. prTx'[q] = prTx[q] /\ prPc'[q] = prPc[q] /\ prErr'[q] = prErr[q]
    BY <1>2, ShowsSeen
  <2>2. prOp'[q] = prOp[q] /\ prMem'[q] = prMem[q]
    BY DEF Shows
  <2>3. /\ Updating(q)' = Updating(q) /\ SeenStep(q)' = SeenStep(q)
        /\ SeenError(q)' = SeenError(q) /\ SeenWrite(q)' = SeenWrite(q)
    BY <1>1, OthersSeen
  <2>4. pc'[q] = pc[q] /\ err'[q] = err[q] /\ op'[q] = op[q] /\ Mirrored(q)
    BY <1>1 DEF Together
  <2> QED
    BY <2>1, <2>2, <2>3, <2>4 DEF Mirrored, Seen
<1>5. \A q \in Requests : Mirrored(q)'
  BY <1>3, <1>4
<1>6. UNCHANGED <<prLock, prOp>> /\ userLock' = [u \in Users |-> Holder(u)']
  BY DEF Shows
<1> QED
  BY <1>1, <1>5, <1>6 DEF Together

(* The directory half rests while a request of /pullRequest moves. *)
LEMMA DirectoryRests ==
  ASSUME UNCHANGED vars
  PROVE  /\ \A q : /\ Updating(q)' = Updating(q) /\ SeenStep(q)' = SeenStep(q)
                   /\ SeenError(q)' = SeenError(q) /\ SeenWrite(q)' = SeenWrite(q)
         /\ \A u : Holder(u)' = Holder(u)
<1>1. ASSUME NEW q
      PROVE  /\ Updating(q)' = Updating(q) /\ SeenStep(q)' = SeenStep(q)
             /\ SeenError(q)' = SeenError(q) /\ SeenWrite(q)' = SeenWrite(q)
  BY DEF vars, Updating, Updates, SeenStep, SeenError, SeenWrite, Wrote
<1>2. ASSUME NEW u
      PROVE  Holder(u)' = Holder(u)
  <2>1. Writers(u)' = Writers(u)
    BY DEF vars, Writers, Wrote, Updating, Updates
  <2> QED
    BY <2>1 DEF Holder
<1> QED
  BY <1>1, <1>2

(* A request of /pullRequest locks no user and no row for another one. *)
LEMMA ReviewLocks ==
  ASSUME WholeInv, NEW r \in Reviews, PR!Moves(r)
  PROVE  userLock' = userLock /\ \A p \in PRs : prLock'[p] \notin Requests
<1>1. /\ PR!TypeOK /\ PR!CallOK(r) /\ r \in Reviews \union Requests /\ r \notin Requests
      /\ prOp[r].kind # "UpdateUserActive" /\ prOp[r].kind \in PR!Kinds
      /\ \A p \in PRs : prLock[p] \notin Requests
  BY ReviewsAssumption DEF WholeInv, PR!IInv, Together, PR!Calls
<1>2. /\ prLock \in [PRs -> Reviews \union Requests \union {None}]
      /\ userLock = [u \in Users |-> Holder(u)]
      /\ \A u \in Users : Holder(u) # r
      /\ None \notin Requests
  <2>1. \A u : Holder(u) \in Requests \union {None}
    BY HolderType
  <2> QED
    BY <1>1, <2>1, NullAssumption, ReviewsAssumption DEF WholeInv, Together, PR!TypeOK
<1>3. CASE PR!Begin(r, PR!FirstStep[prOp[r].kind]) \/ PR!CallFails(r)
  BY <1>1, <1>3 DEF PR!Begin, PR!CallFails
<1>4. CASE PR!PRStep(r)
  <2>1. PR!Local(r)
    BY <1>1, <1>4, Assumptions, PR!PRStepIsLocal
  <2>2. userLock' = userLock
    BY <1>4, Assumptions, PR!PRStepLocksNoUser
  <2> QED
    BY <1>1, <1>2, <2>1, <2>2 DEF PR!Local
<1>5. ~PR!UserStep(r)
  BY <1>1 DEF PR!UserStep, PR!FindUser, PR!SetActive, PR!At, PR!CallOK, PR!OnPath, PR!Path,
     PR!Ends, PR!Kinds
<1>6. CASE PR!Commit(r) \/ PR!Rollback(r) \/ PR!ServerAborts(r) \/ PR!ServerCommits(r)
  <2>1. PR!EndTx(r)
    BY <1>6 DEF PR!Commit, PR!Rollback, PR!ServerAborts, PR!ServerCommits
  <2>2. userLock' = PR!Released(userLock, r) /\ prLock' = PR!Released(prLock, r)
    BY <2>1 DEF PR!EndTx
  <2> QED
    BY <1>1, <1>2, <2>2 DEF PR!Released
<1> QED
  BY <1>3, <1>4, <1>5, <1>6 DEF PR!Moves, PR!Step, PR!Settle

LEMMA ReviewStepTogether ==
  ASSUME WholeInv, NEW r \in Reviews, ReviewStep(r)
  PROVE  Together'
<1>1. UNCHANGED vars /\ PR!Moves(r) /\ PR!IInv /\ Together
  BY DEF ReviewStep, PR!Moves, WholeInv
<1>2. userLock' = userLock /\ \A p \in PRs : prLock'[p] \notin Requests
  BY <1>1, ReviewLocks
<1>3. ASSUME NEW q \in Requests
      PROVE  Mirrored(q)'
  <2>1. q \in (Reviews \union Requests) \ {r} /\ r \in Reviews \union Requests
    BY ReviewsAssumption
  <2>2. prOp' = prOp /\ prPc'[q] = prPc[q] /\ prErr'[q] = prErr[q] /\ prMem'[q] = prMem[q]
    BY <1>1, <2>1, Assumptions, PR!OthersStay
  <2>3. prTx'[q] = prTx[q]
    <3>1. PR!Frame(r)
      BY <1>1, <2>1, Assumptions, PR!StepOK DEF PR!Moves
    <3> QED
      BY <2>1, <3>1 DEF PR!Frame
  <2>4. /\ Updating(q)' = Updating(q) /\ SeenStep(q)' = SeenStep(q)
        /\ SeenError(q)' = SeenError(q) /\ SeenWrite(q)' = SeenWrite(q)
    BY <1>1, DirectoryRests
  <2>5. pc' = pc /\ err' = err /\ op' = op /\ Mirrored(q)
    BY <1>1 DEF vars, Together
  <2> QED
    BY <2>2, <2>3, <2>4, <2>5 DEF Mirrored, Seen
<1>4. prOp' = prOp
  BY <1>1, Assumptions, PR!OthersStay, PR!StepOK DEF PR!Frame, PR!Moves
<1>5. userLock' = [u \in Users |-> Holder(u)']
  <2>1. \A u \in Users : Holder(u)' = Holder(u)
    BY <1>1, DirectoryRests
  <2> QED
    BY <1>1, <1>2, <2>1 DEF Together
<1> QED
  BY <1>1, <1>2, <1>3, <1>4, <1>5 DEF Together

-----------------------------------------------------------------------------
(* The invariant of the whole. *)

LEMMA WholeInitOK == WholeInit => WholeInv
<1> SUFFICES ASSUME WholeInit
             PROVE  WholeInv
  OBVIOUS
<1>1. Init /\ PR!Init
  BY DEF WholeInit
<1>2. DirectoryInv
  BY <1>1, InitInv
<1>3. PR!IInv
  BY <1>1, Assumptions, PR!InitOK
<1>4. \A r \in Requests : pc[r] = "begin" /\ err[r] = "nil" /\ stage[r] = 1
  BY <1>1 DEF Init
<1>5. ASSUME NEW r \in Requests
      PROVE  Mirrored(r)
  <2>1. /\ prPc[r] = "begin" /\ prErr[r] = "nil" /\ prMem[r] = PR!Locals
        /\ prTx[r].user = "absent"
    BY <1>1 DEF PR!Init, PR!NoTx
  <2>2. SeenStep(r) = "begin" /\ SeenError(r) = "nil" /\ SeenWrite(r) = "absent"
    BY <1>4 DEF SeenStep, SeenError, SeenWrite, Updating, Wrote
  <2> QED
    BY <1>4, <2>1, <2>2 DEF WholeInit, Mirrored
<1>6. \A u \in Users : Holder(u) = None
  BY <1>4 DEF Holder, Writers, Wrote
<1>7. userLock = [u \in Users |-> None] /\ prLock = [p \in PRs |-> None]
  BY <1>1 DEF PR!Init
<1> QED
  BY <1>2, <1>3, <1>5, <1>6, <1>7, NullAssumption DEF WholeInv, Together, WholeInit

LEMMA WholeNextOK ==
  ASSUME WholeInv, OnlyRoutesWrite, [WholeNext]_whole
  PROVE  WholeInv'
<1>1. DirectoryInv'
  BY DirectoryPart, NextInv DEF WholeInv
<1>2. PR!IInv'
  BY ReviewPart, Assumptions, PR!NextOK DEF WholeInv
<1>3. Together'
  <2>1. CASE \E r \in Reviews : ReviewStep(r)
    BY <2>1, ReviewStepTogether
  <2>2. CASE \E r \in Requests : DirectoryStep(r)
    BY <2>2, DirectoryStepTogether DEF DirectoryStep, Acts
  <2>3. CASE UNCHANGED whole
    <3>1. UNCHANGED vars /\ UNCHANGED reviews /\ Together
      BY <2>3 DEF whole, WholeInv
    <3>2. \A u \in Users : Holder(u)' = Holder(u)
      BY <3>1, DirectoryRests
    <3>3. ASSUME NEW q \in Requests
          PROVE  Mirrored(q)'
      BY <3>1, DirectoryRests DEF Together, Mirrored, Seen, reviews, vars
    <3> QED
      BY <3>1, <3>2, <3>3 DEF Together, reviews
  <2> QED
    BY <2>1, <2>2, <2>3 DEF WholeNext
<1> QED
  BY <1>1, <1>2, <1>3 DEF WholeInv

(* At every instant the pull-request half sees the other one as it is, and *)
(* nobody but who has updated a user holds his row.                        *)
THEOREM WholeInvariance ==
  ASSUME OnlyRoutesWrite
  PROVE  WholeSpec => []WholeInv
<1>1. WholeInv /\ [WholeNext]_whole => WholeInv'
  BY WholeNextOK
<1> QED
  BY <1>1, WholeInitOK, PTL DEF WholeSpec

THEOREM StaysTogether ==
  ASSUME OnlyRoutesWrite
  PROVE  WholeSpec => []Together
<1>1. WholeInv => Together
  BY DEF WholeInv
<1> QED
  BY <1>1, WholeInvariance, PTL

(* The pull-request half beside the other one, statement by statement on   *)
(* both sides, over one pool and whichever calls fail, is the service that *)
(* knows a new team as one step.                                           *)
THEOREM ReviewRefinement ==
  ASSUME OnlyRoutesWrite
  PROVE  WholeSpec => ImplementsReviews
<1>1. WholeInit => PR!Init
  BY DEF WholeInit
<1>2. WholeInv /\ [WholeNext]_whole => [PR!Next]_(PR!vars)
  BY ReviewPart
<1> QED
  BY <1>1, <1>2, WholeInvariance, PTL DEF WholeSpec, ImplementsReviews, PR!Spec

(* What both halves do to the tables they share is one team added or one   *)
(* user's state set at a time.                                             *)
THEOREM WholeMembership ==
  ASSUME OnlyRoutesWrite
  PROVE  WholeSpec => ImplementsMembership
BY DirectoryRefinement, MembershipShared, PTL

(* The life cycle of pull requests in the whole service: what becomes      *)
(* visible is a creation, a one-for-one replacement or a merge, and merged *)
(* is for ever.                                                            *)
THEOREM WholeLifecycle ==
  ASSUME OnlyRoutesWrite
  PROVE  WholeSpec => PR!ImplementsLifecycle /\ PR!MergedIsFinal
BY ReviewRefinement, Assumptions, PR!Refinement, PR!MergedStays, PTL DEF ImplementsReviews

(* While /team/add and /users/setIsActive write their rows one by one, a   *)
(* reviewer is never the author, shares a team with him and was not        *)
(* inactive all along; what was answered of a creation or a merge is true; *)
(* and no call meets an error that its own tests have excluded.            *)
THEOREM WholeAnswers ==
  ASSUME OnlyRoutesWrite
  PROVE  WholeSpec => /\ []PR!ReviewersAreEligible
                      /\ []PR!CreatedOnce
                      /\ []PR!MergedAnswersAreFinal
                      /\ []PR!NoSpuriousError
BY ReviewRefinement, Assumptions, PR!Eligibility, PR!CreationOnce, PR!MergedAnswers,
   PR!NoErrorIsSpurious, PTL DEF ImplementsReviews

(* What is proved of the handlers of the directory half alone holds of it  *)
(* in the whole service, whatever the calls on pull requests do.           *)
THEOREM WholeDirectory ==
  WholeSpec => /\ ImplementsTeams
               /\ []SetIsActiveIsConsistent /\ []ShownTeamIsComplete
               /\ AnsweredAsCommittedUnlessOvertaken /\ []NoDeadlockInCommonOrder
BY DirectoryRefinement, Refinement, SetIsActiveConsistent, ShownComplete, AnsweredAsCommitted,
   NoDeadlock, PTL

-----------------------------------------------------------------------------
(* Who reviews, and who is away. *)

(* A user who is away has been sent away. *)
Reasoned == {u \in Users : users[u].state # "active" => Askers(u, "inactive") # {}}

(* A step of the directory half ends a transaction or is of r alone. *)
LEMMA AloneOrEnds ==
  ASSUME AnswersInv, NEW r \in Requests, Step(r) \/ Settle(r) \/ CallFails(r)
  PROVE  Alone(r) \/ Ends(r)
<1>1. TypeOK /\ DirectoryInv
  BY DEF AnswersInv, DirectoryInv
<1>2. CASE Reject(r) \/ Begin(r) \/ CallFails(r) \/ DeadlockDetected(r)
  BY <1>2, RejectFacts, BeginFacts, CallFailsFacts, DeadlockDetectedFacts
<1>3. CASE TeamStep(r) \/ AccountStep(r)
  BY <1>1, <1>3, TeamStepAlone, AccountStepAlone
<1>4. CASE Commit(r) \/ Rollback(r) \/ ServerAborts(r) \/ ServerCommits(r)
  BY <1>4 DEF Commit, Rollback, ServerAborts, ServerCommits, Ends
<1> QED
  BY <1>2, <1>3, <1>4 DEF Step, Settle

(* A user who is away after a COMMIT that was about him has been sent away. *)
LEMMA EndInactive ==
  ASSUME AnswersInv, NEW r \in Requests, Ends(r), NEW u \in Users,
         users'[u].state # users[u].state, users'[u].state # "active"
  PROVE  Askers(u, "inactive")' # {}
<1>1. Publish(r)
  BY DEF Ends, tables
<1>2. Writes(r, u) /\ users'[u] = tx[r].users[u]
  BY <1>1 DEF Publish, UserRow
<1>3. users'[u] \in Rows
  BY <1>2 DEF AnswersInv, DirectoryInv, WrittenOK, Writes, Exists, NoUser
<1>4. users'[u].state = "inactive"
  BY <1>3 DEF Rows, Activity
<1>5. r \in Askers(u, users[u].state)'
  BY EndAsked
<1> QED
  BY <1>4, <1>5 DEF Askers

LEMMA ReasonStays ==
  ASSUME AnswersInv, [Next]_vars
  PROVE  Reasoned \subseteq Reasoned'
<1> SUFFICES ASSUME NEW u \in Reasoned
             PROVE  u \in Reasoned'
  OBVIOUS
<1>1. u \in Users
  BY DEF Reasoned
<1>2. ASSUME op' = op, Changers(u) \subseteq Changers(u)', users'[u].state = users[u].state
      PROVE  u \in Reasoned'
  BY <1>1, <1>2, AskersStay DEF Reasoned
<1>3. ASSUME NEW r \in Requests, Step(r) \/ Settle(r) \/ CallFails(r)
      PROVE  u \in Reasoned'
  <2>1. CASE Alone(r)
    <3>1. op' = op /\ users' = users /\ Changers(u) \subseteq Changers(u)'
      BY <1>1, <1>3, <2>1, AloneLater DEF Alone, Later
    <3> QED
      BY <1>2, <3>1
  <2>2. CASE Ends(r)
    <3>1. op' = op /\ Changers(u) \subseteq Changers(u)'
      BY <1>1, <2>2, EndOwn, EndChangers
    <3> QED
      BY <1>1, <1>2, <2>2, <3>1, EndInactive DEF Reasoned
  <2> QED
    BY <1>3, <2>1, <2>2, AloneOrEnds
<1>4. CASE UNCHANGED vars
  <2>1. op' = op /\ users' = users /\ Changers(u)' = Changers(u)
    BY <1>4 DEF vars, Changers, Answered, Creates, IdsOf
  <2> QED
    BY <1>2, <2>1
<1> QED
  BY <1>3, <1>4 DEF Next

(* Everybody who is a reviewer, or chosen as one, had not been away unless *)
(* somebody has sent him away.                                             *)
PickedInv == PR!IInv /\ AnswersInv /\ PR!AllPicked(Reasoned)

LEMMA PickedInitially == WholeInit => PickedInv
<1> SUFFICES ASSUME WholeInit
             PROVE  PickedInv
  OBVIOUS
<1>1. Init /\ PR!Init
  BY DEF WholeInit
<1>2. PR!IInv /\ AnswersInv
  BY <1>1, Assumptions, PR!InitOK, InitAnswers DEF PR!IInv
<1>3. PR!AllPicked({u \in Users : States[u] = "active"})
  BY <1>1, Assumptions, PR!PickedInit
<1>4. {u \in Users : States[u] = "active"} \subseteq Reasoned
  BY DEF States, Reasoned
<1> QED
  BY <1>2, <1>3, <1>4 DEF PickedInv, PR!AllPicked

LEMMA PickedNext ==
  ASSUME OnlyRoutesWrite, WholeInv, PickedInv, [WholeNext]_whole
  PROVE  PickedInv'
<1>1. [Next]_vars /\ [PR!Next]_(PR!vars)
  BY DirectoryPart, ReviewPart
<1>2. PR!IInv' /\ AnswersInv'
  BY <1>1, Assumptions, PR!NextOK, NextAnswers DEF PickedInv
<1>3. PICK W : W = Reasoned
  OBVIOUS
<1>4. {u \in Users : States[u] = "active"} \subseteq W /\ PR!AllPicked(W)
  BY <1>3 DEF States, Reasoned, PickedInv
<1>5. PR!AllPicked(W)'
  BY <1>1, <1>4, Assumptions, PR!PickedStay DEF PickedInv
<1>6. W \subseteq Reasoned'
  BY <1>1, <1>3, ReasonStays DEF PickedInv
<1> QED
  BY <1>2, <1>5, <1>6 DEF PickedInv, PR!AllPicked

(* No reviewer was away when he was chosen: one who is away now was sent   *)
(* away by a request that has ended; and he and the author are members of  *)
(* one team that exists.                                                   *)
THEOREM ReviewersFit ==
  ASSUME OnlyRoutesWrite
  PROVE  WholeSpec => []ReviewersFitDirectory
<1>1. WholeInv /\ PickedInv /\ [WholeNext]_whole => PickedInv'
  BY PickedNext
<1>2. PickedInv /\ PR!ReviewersAreEligible => ReviewersFitDirectory
  <2> SUFFICES ASSUME PickedInv, PR!ReviewersAreEligible, NEW p \in PRs,
                      NEW u \in PR!Reviewers(pr_reviewers[p])
               PROVE  /\ u # prs[p].author
                      /\ \E t \in teams : {<<t, u>>, <<t, prs[p].author>>} \subseteq team_members
                      /\ users[u].state # "active" => Askers(u, "inactive") # {}
    BY DEF ReviewersFitDirectory
  <2>1. u \in Users
    BY DEF PR!Reviewers
  <2>2. PICK t \in Teams : {<<t, u>>, <<t, prs[p].author>>} \subseteq team_members
    BY DEF PR!ReviewersAreEligible, PR!Eligible
  <2>3. t \in teams
    BY <2>1, <2>2 DEF PickedInv, AnswersInv, DirectoryInv, TablesOK
  <2>4. u # prs[p].author
    BY DEF PR!ReviewersAreEligible, PR!Eligible
  <2>5. u \in Reasoned
    BY DEF PickedInv, PR!AllPicked
  <2> QED
    BY <2>2, <2>3, <2>4, <2>5 DEF Reasoned
<1> QED
  BY <1>1, <1>2, PickedInitially, WholeInvariance, WholeAnswers, PTL DEF WholeSpec
==============================================================================
