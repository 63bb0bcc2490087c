---------------------------- MODULE DirectoryProofs ----------------------------
(***************************************************************************)
(* DirectoryInv is an invariant of DirectoryService, for any users, teams, *)
(* names, requests, workload, contents of the tables and pool size.  First *)
(* what the operators of the model return, and that every step of a        *)
(* request moves that request alone and keeps the types of the variables;  *)
(* then the invariant and what follows from it.                            *)
(***************************************************************************)
EXTENDS DirectoryInvariant, FiniteSetTheorems, WellFoundedInduction, TLAPS

(* What a transaction may have written, and the Go variables of a call.    *)
Txs == [users : [Users -> UserRows], teams : SUBSET Teams,
        added : SUBSET (Teams \X Users), removed : SUBSET (Teams \X Users),
        status : {"open", "failed"}]

Mems == [user : UserRows, team : Teams \union {None}, listed : SUBSET Listing,
         next : Nat \ {0}]

(* The index of the loop over the members moves inside the loop only. *)
MemMoves(r) ==
  \E m \in Mems :
    /\ mem' = [mem EXCEPT ![r] = m]
    /\ InLoop(r) \/ m.next \in {mem[r].next, 1}

(* Everything but the request r stays as it is. *)
Moves(r) ==
  /\ UNCHANGED <<users, teams, team_members, op, stage>>
  /\ \E w \in Txs : tx' = [tx EXCEPT ![r] = w]
  /\ \E l \in Steps : pc' = [pc EXCEPT ![r] = l]
  /\ \E e \in Errors : err' = [err EXCEPT ![r] = e]
  /\ MemMoves(r)

-----------------------------------------------------------------------------
(* Lemmas about the operators the model is built from.                     *)

(* Every call consists of methods of the services. *)
LEMMA PlanType ==
  ASSUME NEW k \in Kinds
  PROVE  Plan(k) \in Seq(Methods) /\ Plan(k) # <<>>
<1>1. CASE k \in DOMAIN Handlers
  <2>1. DOMAIN Handlers = {"SetIsActive", "AddTeam", "ShowTeam"}
    BY DEF Handlers
  <2>2. /\ Handlers["SetIsActive"] \in Seq(Methods) /\ Handlers["SetIsActive"] # <<>>
        /\ Handlers["AddTeam"] \in Seq(Methods) /\ Handlers["AddTeam"] # <<>>
        /\ Handlers["ShowTeam"] \in Seq(Methods) /\ Handlers["ShowTeam"] # <<>>
    BY DEF Handlers, Methods
  <2> QED
    BY <1>1, <2>1, <2>2 DEF Plan
<1>2. CASE k \notin DOMAIN Handlers
  BY <1>2 DEF Plan, Kinds
<1> QED
  BY <1>1, <1>2

(* The types of a request's variables, one by one. *)
LEMMA RequestType ==
  ASSUME TypeOK, NEW r \in Requests
  PROVE  /\ tx[r] \in Txs /\ mem[r] \in Mems /\ op[r] \in Calls
         /\ pc[r] \in Steps /\ err[r] \in Errors /\ stage[r] \in Nat \ {0}
BY DEF TypeOK, Txs, Mems

(* The method a request is in. *)
LEMMA DoingType ==
  ASSUME TypeOK, NEW r \in Requests, stage[r] \in DOMAIN Plan(op[r].kind)
  PROVE  Doing(r) \in Methods
<1>1. op[r].kind \in Kinds
  BY RequestType DEF Calls
<1> QED
  BY <1>1, PlanType DEF Doing

(* Only the two calls that create a team with members are ever in the loop. *)
LEMMA LoopCreates ==
  ASSUME TypeOK, NEW r \in Requests, stage[r] \in DOMAIN Plan(op[r].kind),
         Doing(r) = "CreateTeamWithMembers"
  PROVE  Creates(r)
<1>1. op[r].kind \in Kinds /\ stage[r] \in Nat \ {0}
  BY RequestType DEF Calls
<1>2. CASE op[r].kind \notin DOMAIN Handlers
  BY <1>1, <1>2 DEF Plan, Doing, Creates
<1>3. CASE op[r].kind \in {"SetIsActive", "ShowTeam"}
  <2>1. op[r].kind \in DOMAIN Handlers
    BY <1>3 DEF Handlers
  <2>2. \A i \in DOMAIN Plan(op[r].kind) : Plan(op[r].kind)[i] # "CreateTeamWithMembers"
    BY <1>3, <2>1 DEF Plan, Handlers
  <2> QED
    BY <2>2 DEF Doing
<1> QED
  BY <1>2, <1>3 DEF Handlers, Creates

LEMMA FirstType ==
  ASSUME NEW k \in Methods
  PROVE  First[k] \in Statements /\ First[k] # "refetch"
BY DEF Methods, First, Statements, Steps

LEMMA NoTxType == NoTx \in Txs /\ Aborted \in Txs
  BY DEF NoTx, Aborted, Txs, NoUser, UserRows

LEMMA LocalsType == Locals \in Mems
  BY DEF Locals, Mems, NoUser, UserRows

(* A row as a transaction sees it. *)
LEMMA UserRowType ==
  ASSUME TypeOK, NEW r \in Requests, NEW u \in Users
  PROVE  UserRow(r, u) \in UserRows
BY RequestType DEF UserRow, TypeOK, Txs

(* The member the loop is at, once the arguments have been accepted. *)
LEMMA MemberType ==
  ASSUME TypeOK, NEW r \in Requests, ~Invalid(r), Doing(r) = "CreateTeamWithMembers",
         mem[r].next \in DOMAIN op[r].members
  PROVE  /\ Member(r) \in Specs /\ Subject(r) = Member(r).id
         /\ Subject(r) \in Users
<1>1. op[r].members \in Seq(Specs)
  BY RequestType DEF Calls
<1>2. Member(r) \in Specs
  BY <1>1 DEF Member
<1>3. Member(r).id # None
  BY DEF Invalid, Member
<1> QED
  BY <1>2, <1>3 DEF Specs, Subject

(* A transaction's record with one more row of users. *)
LEMMA WroteType ==
  ASSUME TypeOK, NEW r \in Requests, NEW u \in Users, NEW row \in UserRows
  PROVE  [tx[r] EXCEPT !.users[u] = row] \in Txs
BY RequestType DEF Txs

(* An update of one request's record is an update of the whole record. *)
LEMMA MemUser ==
  ASSUME TypeOK, NEW r \in Requests, NEW row \in UserRows, mem' = [mem EXCEPT ![r].user = row]
  PROVE  MemMoves(r)
<1>1. [mem[r] EXCEPT !.user = row] \in Mems /\ [mem[r] EXCEPT !.user = row].next = mem[r].next
  BY RequestType DEF Mems
<1>2. mem' = [mem EXCEPT ![r] = [mem[r] EXCEPT !.user = row]]
  BY DEF TypeOK
<1> QED
  BY <1>1, <1>2 DEF MemMoves

LEMMA MemListed ==
  ASSUME TypeOK, NEW r \in Requests, NEW rows \in SUBSET Listing, mem' = [mem EXCEPT ![r].listed = rows]
  PROVE  MemMoves(r)
<1>1. [mem[r] EXCEPT !.listed = rows] \in Mems /\ [mem[r] EXCEPT !.listed = rows].next = mem[r].next
  BY RequestType DEF Mems
<1>2. mem' = [mem EXCEPT ![r] = [mem[r] EXCEPT !.listed = rows]]
  BY DEF TypeOK
<1> QED
  BY <1>1, <1>2 DEF MemMoves

LEMMA MemTeam ==
  ASSUME TypeOK, NEW r \in Requests, NEW t \in Teams \union {None}, mem' = [mem EXCEPT ![r].team = t]
  PROVE  MemMoves(r)
<1>1. [mem[r] EXCEPT !.team = t] \in Mems /\ [mem[r] EXCEPT !.team = t].next = mem[r].next
  BY RequestType DEF Mems
<1>2. mem' = [mem EXCEPT ![r] = [mem[r] EXCEPT !.team = t]]
  BY DEF TypeOK
<1> QED
  BY <1>1, <1>2 DEF MemMoves

(* Verdict: the caller goes on, or returns the error. *)
LEMMA VerdictMoves ==
  ASSUME TypeOK, NEW r \in Requests, NEW e \in Errors, NEW next,
         \A x \in DOMAIN next : next[x] \in Steps, Verdict(r, e, next)
  PROVE  /\ \E l \in Steps : pc' = [pc EXCEPT ![r] = l]
         /\ \E x \in Errors : err' = [err EXCEPT ![r] = x]
<1>1. CASE e \in DOMAIN next
  <2>1. err' = [err EXCEPT ![r] = err[r]] /\ err[r] \in Errors
    BY <1>1 DEF Verdict, TypeOK
  <2> QED
    BY <1>1, <2>1 DEF Verdict
<1>2. CASE e \notin DOMAIN next
  BY <1>2 DEF Verdict, Steps
<1> QED
  BY <1>1, <1>2

(* The same where the caller goes on after success alone. *)
LEMMA GotoVerdict ==
  ASSUME TypeOK, NEW r \in Requests, NEW e \in Errors, NEW l \in Steps, Verdict(r, e, Goto(l))
  PROVE  \/ /\ e = "nil" /\ pc' = [pc EXCEPT ![r] = l] /\ err' = err
         \/ /\ e # "nil" /\ pc' = [pc EXCEPT ![r] = "rollback"]
            /\ err' = [err EXCEPT ![r] = e]
<1>1. DOMAIN Goto(l) = {"nil"} /\ Goto(l)["nil"] = l
  BY DEF Goto
<1> QED
  BY <1>1 DEF Verdict

LEMMA GotoType ==
  ASSUME NEW l \in Steps
  PROVE  \A x \in DOMAIN Goto(l) : Goto(l)[x] \in Steps
BY DEF Goto

(* What leaves the transactions or the Go variables alone. *)
LEMMA TxStays ==
  ASSUME TypeOK, NEW r \in Requests, UNCHANGED tx
  PROVE  \E w \in Txs : tx' = [tx EXCEPT ![r] = w]
<1>1. tx[r] \in Txs /\ tx = [tx EXCEPT ![r] = tx[r]]
  BY RequestType DEF TypeOK
<1> QED
  BY <1>1

LEMMA MemStays ==
  ASSUME TypeOK, NEW r \in Requests, UNCHANGED mem
  PROVE  MemMoves(r)
<1>1. mem[r] \in Mems /\ mem = [mem EXCEPT ![r] = mem[r]]
  BY RequestType DEF TypeOK
<1> QED
  BY <1>1 DEF MemMoves

LEMMA MemMoved ==
  ASSUME TypeOK, NEW r \in Requests, MemMoves(r)
  PROVE  /\ mem' \in [Requests -> Mems]
         /\ \A q \in Requests \ {r} : mem'[q] = mem[q]
         /\ InLoop(r) \/ mem'[r].next \in {mem[r].next, 1}
<1>1. PICK m \in Mems : /\ mem' = [mem EXCEPT ![r] = m]
                        /\ InLoop(r) \/ m.next \in {mem[r].next, 1}
  BY DEF MemMoves
<1>2. mem \in [Requests -> Mems]
  BY DEF TypeOK, Mems
<1> QED
  BY <1>1, <1>2

(* A request that moves alone keeps the types. *)
LEMMA MovesType ==
  ASSUME TypeOK, NEW r \in Requests, Moves(r)
  PROVE  TypeOK'
<1>1. mem' \in [Requests -> Mems]
  BY MemMoved DEF Moves
<1>2. tx' \in [Requests -> Txs] /\ pc' \in [Requests -> Steps] /\ err' \in [Requests -> Errors]
  BY DEF TypeOK, Moves, Txs
<1> QED
  BY <1>1, <1>2 DEF TypeOK, Moves, Txs, Mems

-----------------------------------------------------------------------------
(* What DirectoryInv says of one request. *)
RequestOK(r) == WrittenOK(r) /\ CallOK(r) /\ LoopOK(r) /\ CommitOK(r)

-----------------------------------------------------------------------------
(* Frame: where one request moves alone, the others' part of the invariant *)
(* is as it was.                                                           *)
LEMMA OthersKeep ==
  ASSUME DirectoryInv, NEW r \in Requests, Moves(r), NEW q \in Requests \ {r}
  PROVE  RequestOK(q)' /\ tx'[q] = tx[q]
<1>1. /\ tx'[q] = tx[q] /\ pc'[q] = pc[q] /\ err'[q] = err[q] /\ mem'[q] = mem[q]
      /\ op' = op /\ stage' = stage /\ users' = users /\ teams' = teams
  BY MemMoved DEF Moves, DirectoryInv, TypeOK
<1>2. WrittenOK(q)'
  BY <1>1 DEF DirectoryInv, WrittenOK, SeesTeam, UserRow, Writes
<1>3. CallOK(q)'
  BY <1>1 DEF DirectoryInv, CallOK, Invalid, Doing, InLoop
<1>4. /\ InLoop(q)' = InLoop(q) /\ Doing(q)' = Doing(q)
      /\ Members(q)' = Members(q) /\ IdsOf(q)' = IdsOf(q)
  BY <1>1 DEF InLoop, Doing, Members, IdsOf
<1>5. \A u \in Users : /\ Columns(q, u)' <=> Columns(q, u)
                       /\ Writes(q, u)' <=> Writes(q, u)
  BY <1>1, <1>4 DEF Columns, Writes
<1>6. LoopOK(q)'
  <2>1. LoopOK(q)
    BY DEF DirectoryInv
  <2>2. CASE InLoop(q)
    <3>1. UserRow(q, Members(q)[mem[q].next].id)' = UserRow(q, Members(q)[mem[q].next].id)
      BY <1>1, <1>4 DEF UserRow, Writes
    <3> QED
      BY <1>1, <1>4, <1>5, <2>1, <2>2, <3>1 DEF LoopOK
  <2> QED
    BY <1>4, <2>2 DEF LoopOK
<1>7. CommitOK(q)'
  <2>1. CommitOK(q)
    BY DEF DirectoryInv
  <2> QED
    BY <1>1, <1>4, <1>5, <2>1 DEF CommitOK
<1> QED
  BY <1>1, <1>2, <1>3, <1>6, <1>7 DEF RequestOK

(* A request that moves alone keeps the invariant if its own part of it    *)
(* holds again and it has written nothing that another one has written.    *)
Apart(r) ==
  \A q \in Requests \ {r} :
    /\ tx'[r].teams \intersect tx[q].teams = {}
    /\ \A u \in Users : ~(Exists(tx'[r].users[u]) /\ Writes(q, u))

LEMMA MoveKeeps ==
  ASSUME DirectoryInv, NEW r \in Requests, Moves(r), RequestOK(r)', Apart(r)
  PROVE  DirectoryInv'
<1>1. TypeOK'
  BY MovesType DEF DirectoryInv
<1>2. TablesOK'
  BY DEF DirectoryInv, TablesOK, Moves
<1>3. \A q \in Requests : RequestOK(q)'
  BY OthersKeep
<1>4. Exclusive'
  <2> SUFFICES ASSUME NEW p \in Requests, NEW q \in Requests, p # q
               PROVE  /\ tx'[p].teams \intersect tx'[q].teams = {}
                      /\ \A u \in Users : ~(Exists(tx'[p].users[u]) /\ Exists(tx'[q].users[u]))
    BY DEF Exclusive, Writes
  <2>1. CASE p = r
    BY <2>1, OthersKeep DEF Apart, Writes
  <2>2. CASE q = r
    BY <2>2, OthersKeep DEF Apart, Writes
  <2>3. CASE p # r /\ q # r
    BY <2>3, OthersKeep DEF DirectoryInv, Exclusive, Writes
  <2> QED
    BY <2>1, <2>2, <2>3
<1> QED
  BY <1>1, <1>2, <1>3, <1>4 DEF DirectoryInv, RequestOK

(* A transaction that has written nothing new, or nothing at all, is apart *)
(* from the others and leaves the tables in order.                         *)
Quiet(r) == tx'[r] \in {tx[r], NoTx, Aborted}

LEMMA QuietKeeps ==
  ASSUME DirectoryInv, NEW r \in Requests, Moves(r), Quiet(r)
  PROVE  Apart(r) /\ WrittenOK(r)'
<1>1. /\ op' = op /\ stage' = stage /\ users' = users /\ teams' = teams
  BY DEF Moves
<1>2. CASE tx'[r] = tx[r]
  <2>1. Apart(r)
    BY <1>2 DEF DirectoryInv, Exclusive, Apart, Writes
  <2>2. WrittenOK(r)'
    BY <1>1, <1>2 DEF DirectoryInv, WrittenOK, SeesTeam, UserRow, Writes
  <2> QED
    BY <2>1, <2>2
<1>3. CASE tx'[r] \in {NoTx, Aborted}
  <2>1. /\ tx'[r].teams = {} /\ tx'[r].added = {}
        /\ \A u \in Users : tx'[r].users[u] = NoUser
    BY <1>3 DEF NoTx, Aborted
  <2>2. ~Exists(NoUser)
    BY DEF Exists, NoUser
  <2> QED
    BY <1>1, <2>1, <2>2 DEF Apart, WrittenOK
<1> QED
  BY <1>2, <1>3 DEF Quiet

LEMMA IndexKeeps ==
  ASSUME DirectoryInv, NEW r \in Requests, Moves(r), Doing(r) # "CreateTeamWithMembers"
  PROVE  mem'[r].next = 1
<1>1. mem[r].next = 1 /\ ~InLoop(r)
  BY DEF DirectoryInv, CallOK, InLoop
<1> QED
  BY <1>1, MemMoved DEF DirectoryInv, Moves

(* A statement that fails, also one the server ends: nothing the           *)
(* transaction has written can be committed any more.                      *)
LEMMA FailureKeeps ==
  ASSUME DirectoryInv, NEW r \in Requests, Moves(r), Quiet(r),
         pc'[r] \in {"rollback", "orphan"}, err'[r] # "nil"
  PROVE  DirectoryInv'
<1>1. /\ op' = op /\ stage' = stage
  BY DEF Moves
<1>2. CallOK(r)'
  BY <1>1, IndexKeeps DEF DirectoryInv, CallOK, Statements, Doing
<1>3. LoopOK(r)' /\ CommitOK(r)'
  BY DEF LoopOK, InLoop, MemberSteps, CommitOK
<1> QED
  BY <1>2, <1>3, QuietKeeps, MoveKeeps DEF RequestOK

(* A statement before the first write that succeeds, or an answer after    *)
(* nothing but reads.                                                      *)
LEMMA ReadKeeps ==
  ASSUME DirectoryInv, NEW r \in Requests, Moves(r), tx'[r] = NoTx, ~Invalid(r),
         pc'[r] \in (Statements \ {"refetch"}) \union {"rollback"},
         ~(Doing(r) = "CreateTeamWithMembers" /\ pc'[r] \in MemberSteps),
         Doing(r) = "CreateTeamWithMembers" => mem'[r].next = 1
  PROVE  DirectoryInv'
<1>1. op' = op /\ stage' = stage
  BY DEF Moves
<1>2. ~InLoop(r)' /\ ~Invalid(r)'
  BY <1>1 DEF InLoop, Invalid, Doing
<1>3. CallOK(r)'
  BY <1>1, <1>2, IndexKeeps DEF DirectoryInv, CallOK, Statements, Doing
<1>4. LoopOK(r)' /\ CommitOK(r)'
  BY <1>2 DEF LoopOK, CommitOK, Statements
<1> QED
  BY <1>3, <1>4, QuietKeeps, MoveKeeps DEF RequestOK, Quiet

-----------------------------------------------------------------------------
(* The methods that read, and the reads of those that write. *)

(* What the invariant says of a request before a statement. *)
LEMMA AtStatement ==
  ASSUME DirectoryInv, NEW r \in Requests, pc[r] \in Statements
  PROVE  /\ TypeOK /\ ~Invalid(r)
         /\ op[r].user \in Users /\ op[r].team \in Teams
         /\ Doing(r) # "CreateTeamWithMembers" /\ pc[r] # "refetch" => tx[r] = NoTx
BY RequestType DEF DirectoryInv, CallOK, InLoop, Calls

(* A query outside the loop whose outcome e ends the call or leads on to l. *)
LEMMA QueryKeeps ==
  ASSUME DirectoryInv, NEW r \in Requests, NEW e \in Errors,
         NEW l \in (Statements \ {"refetch"}) \union {"rollback"},
         pc[r] \in Statements \ {"refetch"}, Doing(r) # "CreateTeamWithMembers",
         ReadOnly, Verdict(r, e, Goto(l)), MemMoves(r)
  PROVE  DirectoryInv'
<1>1. TypeOK /\ ~Invalid(r) /\ tx[r] = NoTx
  BY AtStatement
<1>2. l \in Steps
  BY DEF Statements, Steps
<1>3. Moves(r)
  <2>1. /\ \E x \in Steps : pc' = [pc EXCEPT ![r] = x]
        /\ \E x \in Errors : err' = [err EXCEPT ![r] = x]
    BY <1>1, <1>2, GotoType, VerdictMoves
  <2>2. \E w \in Txs : tx' = [tx EXCEPT ![r] = w]
    BY <1>1, TxStays DEF ReadOnly
  <2> QED
    BY <2>1, <2>2 DEF Moves, ReadOnly, Private
<1>4. tx'[r] = NoTx /\ Quiet(r)
  BY <1>1 DEF ReadOnly, Quiet
<1>5. CASE e = "nil"
  <2>1. pc'[r] = l
    BY <1>1, <1>2, <1>5, GotoVerdict DEF TypeOK
  <2> QED
    BY <1>1, <1>3, <1>4, <2>1, ReadKeeps
<1>6. CASE e # "nil"
  <2>1. pc'[r] = "rollback" /\ err'[r] = e
    BY <1>1, <1>2, <1>6, GotoVerdict DEF TypeOK
  <2> QED
    BY <1>3, <1>4, <1>6, <2>1, FailureKeeps
<1> QED
  BY <1>5, <1>6

(* GetUserByID as a query of one of these. *)
LEMMA GetUserKeeps ==
  ASSUME DirectoryInv, NEW r \in Requests,
         NEW l \in (Statements \ {"refetch"}) \union {"rollback"},
         pc[r] \in Statements \ {"refetch"}, Doing(r) # "CreateTeamWithMembers",
         GetUserByID(r, op[r].user, Goto(l))
  PROVE  DirectoryInv'
<1>1. TypeOK /\ op[r].user \in Users
  BY AtStatement
<1>2. Found(r, op[r].user) \in Errors
  BY DEF Found, Errors
<1>3. MemMoves(r)
  BY <1>1, UserRowType, MemUser DEF GetUserByID
<1> QED
  BY <1>2, <1>3, QueryKeeps DEF GetUserByID

LEMMA GetTeamKeeps ==
  ASSUME DirectoryInv, NEW r \in Requests, NEW t,
         NEW l \in (Statements \ {"refetch"}) \union {"rollback"},
         pc[r] \in Statements \ {"refetch"}, Doing(r) # "CreateTeamWithMembers",
         GetTeamBy(r, t, Goto(l)), UNCHANGED mem
  PROVE  DirectoryInv'
<1>1. (IF SeesTeam(r, t) THEN "nil" ELSE "ErrTeamNotFound") \in Errors
  BY DEF Errors
<1>2. MemMoves(r)
  BY MemStays, AtStatement
<1> QED
  BY <1>1, <1>2, QueryKeeps DEF GetTeamBy

LEMMA FindTeamKeeps ==
  ASSUME DirectoryInv, NEW r \in Requests, FindTeam(r)
  PROVE  DirectoryInv'
<1>1. pc[r] \in Statements \ {"refetch"} /\ Doing(r) # "CreateTeamWithMembers"
  BY DEF FindTeam, In, Ready, Statements, Steps
<1>2. \/ GetTeamBy(r, op[r].team, Goto("getUser")) /\ UNCHANGED mem
      \/ GetTeamBy(r, op[r].team, Goto("rollback")) /\ UNCHANGED mem
  BY DEF FindTeam
<1>3. {"getUser", "rollback"} \subseteq (Statements \ {"refetch"}) \union {"rollback"}
  BY DEF Statements, Steps
<1> QED
  BY <1>1, <1>2, <1>3, GetTeamKeeps

LEMMA FindUserOfTeamKeeps ==
  ASSUME DirectoryInv, NEW r \in Requests, FindUserOfTeam(r)
  PROVE  DirectoryInv'
<1>1. pc[r] \in Statements \ {"refetch"} /\ Doing(r) # "CreateTeamWithMembers"
  BY DEF FindUserOfTeam, In, Ready, Statements, Steps
<1> DEFINE l == IF Doing(r) = "AddMember" THEN "addMember" ELSE "removeMember"
<1>2. l \in Statements \ {"refetch"}
  BY DEF Statements, Steps
<1> QED
  BY <1>1, <1>2, GetUserKeeps DEF FindUserOfTeam

LEMMA FindUserKeeps ==
  ASSUME DirectoryInv, NEW r \in Requests, FindUser(r)
  PROVE  DirectoryInv'
<1>1. pc[r] \in Statements \ {"refetch"} /\ Doing(r) # "CreateTeamWithMembers"
  BY DEF FindUser, In, Ready, Statements, Steps
<1> DEFINE l == IF Doing(r) = "GetUser" THEN "rollback" ELSE "updateActive"
<1>2. l \in (Statements \ {"refetch"}) \union {"rollback"}
  BY DEF Statements, Steps
<1> QED
  BY <1>1, <1>2, GetUserKeeps DEF FindUser

LEMMA ReadTeamNameKeeps ==
  ASSUME DirectoryInv, NEW r \in Requests, ReadTeamName(r)
  PROVE  DirectoryInv'
<1>1. pc[r] \in Statements \ {"refetch"} /\ Doing(r) # "CreateTeamWithMembers"
  BY DEF ReadTeamName, In, Ready, Statements, Steps
<1> QED
  BY <1>1, GetTeamKeeps DEF ReadTeamName

LEMMA ReadTeamsKeeps ==
  ASSUME DirectoryInv, NEW r \in Requests, ReadTeams(r)
  PROVE  DirectoryInv'
<1>1. pc[r] \in Statements \ {"refetch"} /\ Doing(r) # "CreateTeamWithMembers"
  BY DEF ReadTeams, In, Ready, Statements, Steps
<1>2. MemMoves(r)
  BY MemStays, AtStatement, <1>1 DEF ReadTeams
<1>3. "nil" \in Errors
  BY DEF Errors
<1> QED
  BY <1>1, <1>2, <1>3, QueryKeeps DEF ReadTeams, ListTeams

LEMMA ReadUsersKeeps ==
  ASSUME DirectoryInv, NEW r \in Requests, ReadUsers(r)
  PROVE  DirectoryInv'
<1>1. pc[r] \in Statements \ {"refetch"} /\ Doing(r) # "CreateTeamWithMembers"
  BY DEF ReadUsers, In, Ready, Statements, Steps
<1>2. PICK S \in SUBSET Users :
        /\ Verdict(r, "nil", Goto("rollback")) /\ ReadOnly
        /\ mem' = [mem EXCEPT ![r].listed = {[id |-> u, row |-> UserRow(r, u)] : u \in S}]
  BY DEF ReadUsers, ListUsers, ListMembersByTeamID
<1>3. {[id |-> u, row |-> UserRow(r, u)] : u \in S} \in SUBSET Listing
  BY <1>1, AtStatement, UserRowType DEF Listing
<1>4. MemMoves(r)
  BY <1>1, <1>2, <1>3, AtStatement, MemListed
<1>5. "nil" \in Errors
  BY DEF Errors
<1> QED
  BY <1>1, <1>2, <1>4, <1>5, QueryKeeps

(* A user without a team ends the method without an error. *)
LEMMA FindTeamOfUserKeeps ==
  ASSUME DirectoryInv, NEW r \in Requests, FindTeamOfUser(r)
  PROVE  DirectoryInv'
<1>1. pc[r] \in Statements \ {"refetch"} /\ Doing(r) # "CreateTeamWithMembers"
  BY DEF FindTeamOfUser, In, Ready, Statements, Steps
<1>2. TypeOK /\ ~Invalid(r) /\ tx[r] = NoTx
  BY <1>1, AtStatement
<1>3. PICK t \in Teams \union {None} : mem' = [mem EXCEPT ![r].team = t]
  BY DEF FindTeamOfUser, GetTeamIDByUserID
<1>4. \E l \in {"getTeam", "rollback"} : pc' = [pc EXCEPT ![r] = l]
      /\ err' = err /\ ReadOnly
  BY DEF FindTeamOfUser, GetTeamIDByUserID, Verdict
<1>5. Moves(r)
  <2>1. \E x \in Steps : pc' = [pc EXCEPT ![r] = x]
    BY <1>4 DEF Steps
  <2>2. \E x \in Errors : err' = [err EXCEPT ![r] = x]
    BY <1>2, <1>4 DEF TypeOK
  <2> QED
    BY <1>2, <1>3, <1>4, <2>1, <2>2, MemTeam, TxStays DEF Moves, ReadOnly, Private
<1>6. /\ tx'[r] = NoTx
      /\ pc'[r] \in (Statements \ {"refetch"}) \union {"rollback"}
  BY <1>2, <1>4 DEF ReadOnly, TypeOK, Statements, Steps
<1> QED
  BY <1>1, <1>2, <1>5, <1>6, ReadKeeps

-----------------------------------------------------------------------------
(* The methods that write with their last statement. *)

(* A row somebody is about to write is written by nobody else. *)
LEMMA NotBlocked ==
  ASSUME NEW r \in Requests, BlockedBy(r) = {}
  PROVE  \A q \in Requests \ {r} :
           /\ pc[r] = "createTeam" => op[r].team \notin tx[q].teams
           /\ pc[r] = "createUser" => ~Writes(q, Subject(r))
           /\ pc[r] \in {"updateActive", "updateName"} /\ Exists(users[Subject(r)]) =>
                ~Writes(q, Subject(r))
BY DEF BlockedBy

(* One more row of users, which nobody else has written. *)
LEMMA UserWritten ==
  ASSUME DirectoryInv, NEW r \in Requests, Moves(r), NEW u \in Users, NEW row \in Rows,
         tx'[r] = [tx[r] EXCEPT !.users[u] = row],
         \A q \in Requests \ {r} : ~Writes(q, u)
  PROVE  Apart(r) /\ WrittenOK(r)'
<1>1. /\ users' = users /\ teams' = teams /\ tx[r] \in Txs
  BY RequestType DEF Moves, DirectoryInv
<1>2. /\ tx'[r].teams = tx[r].teams /\ tx'[r].added = tx[r].added
      /\ \A v \in Users : tx'[r].users[v] = IF v = u THEN row ELSE tx[r].users[v]
  BY <1>1 DEF Txs
<1>3. Exists(row)
  BY DEF Rows, Activity, Exists
<1>4. Apart(r)
  BY <1>2 DEF DirectoryInv, Exclusive, Apart, Writes
<1>5. WrittenOK(r)'
  BY <1>1, <1>2, <1>3 DEF DirectoryInv, WrittenOK, SeesTeam, UserRow, Writes
<1> QED
  BY <1>4, <1>5

(* The write of such a method: what it may commit is what it promises.     *)
LEMMA WriteKeeps ==
  ASSUME DirectoryInv, NEW r \in Requests, Moves(r), pc[r] \in Statements,
         pc'[r] = "commit", CommitOK(r)', WrittenOK(r)', Apart(r)
  PROVE  DirectoryInv'
<1>1. op' = op /\ stage' = stage
  BY DEF Moves
<1>2. ~Invalid(r)'
  BY <1>1, AtStatement DEF Invalid, Doing
<1>3. CallOK(r)'
  BY <1>1, <1>2, IndexKeeps DEF DirectoryInv, CallOK, Statements, Doing
<1>4. LoopOK(r)'
  BY DEF LoopOK, InLoop, MemberSteps
<1> QED
  BY <1>3, <1>4, MoveKeeps DEF RequestOK

(* The outcome of Writing under Goto("commit").                            *)
LEMMA WritingMoves ==
  ASSUME DirectoryInv, NEW r \in Requests, NEW e \in Errors, NEW l \in Steps, NEW w \in Txs,
         Verdict(r, e, Goto(l)), Writing(r, e, w),
         MemMoves(r)
  PROVE  /\ Moves(r)
         /\ \/ e = "nil" /\ pc'[r] = l /\ err' = err /\ tx'[r] = w
            \/ e # "nil" /\ pc'[r] = "rollback" /\ err'[r] = e /\ tx'[r] = tx[r]
<1>1. TypeOK
  BY DEF DirectoryInv
<1>2. /\ \E x \in Steps : pc' = [pc EXCEPT ![r] = x]
      /\ \E x \in Errors : err' = [err EXCEPT ![r] = x]
  BY <1>1, GotoType, VerdictMoves
<1>3. \E x \in Txs : tx' = [tx EXCEPT ![r] = x]
  <2>1. CASE e = "nil"
    BY <2>1 DEF Writing
  <2>2. CASE e # "nil"
    BY <1>1, <2>2, TxStays DEF Writing
  <2> QED
    BY <2>1, <2>2
<1>4. Moves(r)
  BY <1>2, <1>3 DEF Moves, Writing, Private
<1>5. \/ e = "nil" /\ pc'[r] = l /\ err' = err /\ tx'[r] = w
      \/ e # "nil" /\ pc'[r] = "rollback" /\ err'[r] = e /\ tx'[r] = tx[r]
  BY <1>1, GotoVerdict DEF Writing, TypeOK
<1> QED
  BY <1>4, <1>5

LEMMA EnrolKeeps ==
  ASSUME DirectoryInv, NEW r \in Requests, Enrol(r)
  PROVE  DirectoryInv'
<1> DEFINE t == op[r].team
           u == op[r].user
           w == [tx[r] EXCEPT !.added = @ \union {<<t, u>>}, !.removed = @ \ {<<t, u>>}]
<1>1. /\ pc[r] \in Statements /\ pc[r] # "refetch" /\ Doing(r) = "AddMember"
      /\ AddMember(r, t, u, Goto("commit")) /\ UNCHANGED mem
  BY DEF Enrol, In, Ready, Statements, Steps
<1>2. TypeOK /\ t \in Teams /\ u \in Users /\ tx[r] = NoTx
  BY <1>1, AtStatement
<1>3. w = [NoTx EXCEPT !.added = {<<t, u>>}] /\ w \in Txs
  <2>1. /\ tx[r].added \union {<<t, u>>} = {<<t, u>>}
        /\ tx[r].removed \ {<<t, u>>} = {} /\ NoTx.removed = {}
    BY <1>2 DEF NoTx
  <2>2. w = [NoTx EXCEPT !.added = {<<t, u>>}]
    BY <1>2, <2>1 DEF NoTx
  <2>3. {<<t, u>>} \in SUBSET (Teams \X Users)
    BY <1>2
  <2> QED
    BY <2>2, <2>3, NoTxType DEF Txs
<1>4. PICK e \in Errors :
        /\ Verdict(r, e, Goto("commit")) /\ Writing(r, e, w)
        /\ e = "nil" => Exists(UserRow(r, u)) /\ SeesTeam(r, t)
  BY <1>1 DEF AddMember, Errors
<1> HIDE DEF w
<1>5. MemMoves(r)
  BY <1>1, <1>2, MemStays
<1>6. /\ Moves(r)
      /\ \/ e = "nil" /\ pc'[r] = "commit" /\ tx'[r] = w
         \/ e # "nil" /\ pc'[r] = "rollback" /\ err'[r] = e /\ tx'[r] = tx[r]
  <2>1. "commit" \in Steps
    BY DEF Steps
  <2>2. Verdict(r, e, Goto("commit")) /\ Writing(r, e, w) /\ w \in Txs
    BY <1>3, <1>4
  <2> QED
    BY <1>5, <2>1, <2>2, WritingMoves, Zenon
<1>7. CASE e = "nil"
  <2>1. /\ users' = users /\ teams' = teams /\ op' = op /\ stage' = stage
        /\ pc'[r] = "commit" /\ tx'[r] = [NoTx EXCEPT !.added = {<<t, u>>}]
    BY <1>3, <1>6, <1>7 DEF Moves
  <2>2. /\ tx'[r].teams = {} /\ tx'[r].added = {<<t, u>>}
        /\ \A v \in Users : tx'[r].users[v] = NoUser
    BY <2>1 DEF NoTx
  <2>3. t \in teams /\ Exists(users[u]) /\ ~Exists(NoUser)
    BY <1>2, <1>4, <1>7 DEF UserRow, SeesTeam, Writes, NoTx, NoUser, Exists
  <2>4. Apart(r)
    BY <2>2, <2>3 DEF Apart
  <2>5. WrittenOK(r)'
    BY <2>1, <2>2, <2>3 DEF WrittenOK, SeesTeam, UserRow, Writes
  <2>6. CommitOK(r)'
    BY <1>1, <2>1 DEF CommitOK, Doing
  <2> QED
    BY <1>1, <1>6, <2>1, <2>4, <2>5, <2>6, WriteKeeps
<1>8. CASE e # "nil"
  BY <1>6, <1>8, FailureKeeps DEF Quiet
<1> QED
  BY <1>7, <1>8

LEMMA DismissKeeps ==
  ASSUME DirectoryInv, NEW r \in Requests, Dismiss(r)
  PROVE  DirectoryInv'
<1> DEFINE t == op[r].team
           u == op[r].user
           w == [tx[r] EXCEPT !.added = @ \ {<<t, u>>}, !.removed = @ \union {<<t, u>>}]
<1>1. /\ pc[r] \in Statements /\ pc[r] # "refetch" /\ Doing(r) = "RemoveMember"
      /\ RemoveMember(r, t, u, Goto("commit"))
  BY DEF Dismiss, In, Ready, Statements, Steps
<1>2. TypeOK /\ t \in Teams /\ u \in Users /\ tx[r] = NoTx
  BY <1>1, AtStatement
<1>3. w = [NoTx EXCEPT !.removed = {<<t, u>>}] /\ w \in Txs
  <2>1. /\ tx[r].removed \union {<<t, u>>} = {<<t, u>>}
        /\ tx[r].added \ {<<t, u>>} = {} /\ NoTx.added = {}
    BY <1>2 DEF NoTx
  <2>2. w = [NoTx EXCEPT !.removed = {<<t, u>>}]
    BY <1>2, <2>1 DEF NoTx
  <2>3. {<<t, u>>} \in SUBSET (Teams \X Users)
    BY <1>2
  <2> QED
    BY <2>2, <2>3, NoTxType DEF Txs
<1>4. PICK e \in Errors : Verdict(r, e, Goto("commit")) /\ Writing(r, e, w)
  BY <1>1 DEF RemoveMember, Errors
<1> HIDE DEF w
<1>5. MemMoves(r)
  BY <1>1, <1>2, MemStays DEF RemoveMember
<1>6. /\ Moves(r)
      /\ \/ e = "nil" /\ pc'[r] = "commit" /\ tx'[r] = w
         \/ e # "nil" /\ pc'[r] = "rollback" /\ err'[r] = e /\ tx'[r] = tx[r]
  <2>1. "commit" \in Steps
    BY DEF Steps
  <2>2. Verdict(r, e, Goto("commit")) /\ Writing(r, e, w) /\ w \in Txs
    BY <1>3, <1>4
  <2> QED
    BY <1>5, <2>1, <2>2, WritingMoves, Zenon
<1>7. CASE e = "nil"
  <2>1. /\ users' = users /\ teams' = teams /\ op' = op /\ stage' = stage
        /\ pc'[r] = "commit" /\ tx'[r] = [NoTx EXCEPT !.removed = {<<t, u>>}]
    BY <1>3, <1>6, <1>7 DEF Moves
  <2>2. /\ tx'[r].teams = {} /\ tx'[r].added = {}
        /\ \A v \in Users : tx'[r].users[v] = NoUser
        /\ ~Exists(NoUser)
    BY <2>1 DEF NoTx, Exists, NoUser
  <2>3. Apart(r) /\ WrittenOK(r)'
    BY <2>2 DEF Apart, WrittenOK
  <2>4. CommitOK(r)'
    BY <1>1, <2>1 DEF CommitOK, Doing
  <2> QED
    BY <1>1, <1>6, <2>1, <2>3, <2>4, WriteKeeps
<1>8. CASE e # "nil"
  BY <1>6, <1>8, FailureKeeps DEF Quiet
<1> QED
  BY <1>7, <1>8

(* The three outcomes of an INSERT into users. *)
LEMMA CreateUserMoves ==
  ASSUME TypeOK, NEW r \in Requests, NEW u \in Users, NEW name \in Names \union {None},
         NEW state \in Activity, NEW next, CreateUser(r, u, name, state, next),
         \A x \in DOMAIN next : next[x] \in Steps
  PROVE  /\ Moves(r)
         /\ LET row == [name |-> name, state |-> state]
            IN \/ /\ Verdict(r, "nil", next) /\ name \in Names /\ ~Exists(UserRow(r, u))
                  /\ tx'[r] = [tx[r] EXCEPT !.users[u] = row]
                  /\ mem' = [mem EXCEPT ![r].user = row]
               \/ Verdict(r, "ErrUserExists", next) /\ tx'[r] = Aborted /\ UNCHANGED mem
               \/ Verdict(r, "ErrInvalidArgument", next) /\ UNCHANGED <<tx, mem>>
<1> DEFINE row == [name |-> name, state |-> state]
<1>1. /\ row \in UserRows /\ Private
      /\ \/ /\ Verdict(r, "nil", next) /\ name \in Names /\ ~Exists(UserRow(r, u))
            /\ tx' = [tx EXCEPT ![r] = [tx[r] EXCEPT !.users[u] = row]]
            /\ mem' = [mem EXCEPT ![r].user = row]
         \/ /\ Verdict(r, "ErrUserExists", next) /\ UNCHANGED mem
            /\ tx' = [tx EXCEPT ![r] = Aborted]
         \/ Verdict(r, "ErrInvalidArgument", next) /\ UNCHANGED <<tx, mem>>
  <2>1. row \in UserRows
    BY DEF UserRows
  <2>2. CASE name = None
    BY <2>1, <2>2 DEF CreateUser, TypeOK
  <2>3. CASE name # None /\ Exists(UserRow(r, u))
    BY <2>1, <2>3 DEF CreateUser
  <2>4. CASE name # None /\ ~Exists(UserRow(r, u))
    BY <2>1, <2>4 DEF CreateUser
  <2> QED
    BY <2>2, <2>3, <2>4
<1>2. /\ \E x \in Steps : pc' = [pc EXCEPT ![r] = x]
      /\ \E x \in Errors : err' = [err EXCEPT ![r] = x]
  BY <1>1, VerdictMoves DEF Errors
<1>3. \E w \in Txs : tx' = [tx EXCEPT ![r] = w]
  BY <1>1, WroteType, NoTxType, TxStays
<1>4. MemMoves(r)
  BY <1>1, MemUser, MemStays
<1>5. Moves(r)
  BY <1>1, <1>2, <1>3, <1>4 DEF Moves, Private
<1> QED
  BY <1>1, <1>5 DEF TypeOK

LEMMA InsertUserKeeps ==
  ASSUME DirectoryInv, NEW r \in Requests, InsertUser(r)
  PROVE  DirectoryInv'
<1> DEFINE u == op[r].user
           row == [name |-> op[r].name, state |-> op[r].state]
<1>1. /\ pc[r] \in Statements /\ pc[r] = "createUser" /\ Doing(r) = "CreateUser"
      /\ CreateUser(r, u, op[r].name, op[r].state, Goto("commit")) /\ BlockedBy(r) = {}
  BY DEF InsertUser, In, Ready, Statements, Steps
<1>2. /\ TypeOK /\ u \in Users /\ tx[r] = NoTx /\ ~Invalid(r)
      /\ op[r].name \in Names \union {None} /\ op[r].state \in Activity
      /\ "commit" \in Steps
  BY <1>1, AtStatement, RequestType DEF Calls, Steps
<1>3. op[r].name # None
  BY <1>1, <1>2 DEF Invalid
<1>4. /\ Moves(r)
      /\ \/ /\ Verdict(r, "nil", Goto("commit")) /\ op[r].name \in Names
            /\ ~Exists(UserRow(r, u)) /\ tx'[r] = [tx[r] EXCEPT !.users[u] = row]
         \/ Verdict(r, "ErrUserExists", Goto("commit")) /\ tx'[r] = Aborted
         \/ Verdict(r, "ErrInvalidArgument", Goto("commit")) /\ tx' = tx
  BY <1>1, <1>2, GotoType, CreateUserMoves
<1>5. CASE /\ Verdict(r, "nil", Goto("commit")) /\ op[r].name \in Names
           /\ ~Exists(UserRow(r, u)) /\ tx'[r] = [tx[r] EXCEPT !.users[u] = row]
  <2>1. pc'[r] = "commit"
    BY <1>2, <1>5, GotoVerdict DEF TypeOK, Errors
  <2>2. row \in Rows /\ ~Exists(users[u])
    BY <1>2, <1>5 DEF Rows, UserRow, Writes, NoTx, Exists, NoUser
  <2>3. \A q \in Requests \ {r} : ~Writes(q, u)
    BY <1>1, NotBlocked DEF Subject
  <2>4. Apart(r) /\ WrittenOK(r)'
    BY <1>2, <1>4, <1>5, <2>2, <2>3, UserWritten
  <2>5. op' = op /\ stage' = stage /\ users' = users
    BY <1>4 DEF Moves
  <2>6. CommitOK(r)'
    BY <1>1, <1>2, <1>5, <2>2, <2>5 DEF CommitOK, Doing
  <2> QED
    BY <1>1, <1>4, <2>1, <2>4, <2>6, WriteKeeps
<1>6. CASE \/ Verdict(r, "ErrUserExists", Goto("commit")) /\ tx'[r] = Aborted
           \/ Verdict(r, "ErrInvalidArgument", Goto("commit")) /\ tx' = tx
  <2>1. pc'[r] = "rollback" /\ err'[r] # "nil" /\ Quiet(r)
    BY <1>2, <1>6, GotoVerdict DEF TypeOK, Errors, Quiet
  <2> QED
    BY <1>4, <2>1, FailureKeeps
<1> QED
  BY <1>4, <1>5, <1>6

LEMMA SetActiveKeeps ==
  ASSUME DirectoryInv, NEW r \in Requests, SetActive(r)
  PROVE  DirectoryInv'
<1> DEFINE u == op[r].user
           row == [users[u] EXCEPT !.state = op[r].state]
           w == [tx[r] EXCEPT !.users[u] = row]
<1>1. /\ pc[r] \in Statements /\ pc[r] = "updateActive" /\ Doing(r) = "UpdateUserActive"
      /\ UpdateUserActive(r, u, op[r].state, Goto("commit")) /\ UNCHANGED mem
      /\ BlockedBy(r) = {}
  BY DEF SetActive, In, Ready, Statements, Steps
<1>2. TypeOK /\ u \in Users /\ tx[r] = NoTx /\ op[r].state \in Activity /\ "commit" \in Steps
  BY <1>1, AtStatement, RequestType DEF Calls, Steps
<1>3. UserRow(r, u) = users[u] /\ users[u] \in UserRows
  BY <1>2 DEF UserRow, Writes, NoTx, Exists, NoUser, TypeOK
<1>4. row \in UserRows /\ w \in Txs
  BY <1>2, <1>3, WroteType DEF UserRows
<1>5. PICK e \in Errors : /\ Verdict(r, e, Goto("commit")) /\ Writing(r, e, w)
                          /\ e = "nil" => Exists(users[u])
  BY <1>1, <1>3 DEF UpdateUserActive, Found, Errors
<1>6. MemMoves(r)
  BY <1>1, <1>2, MemStays
<1> HIDE DEF w
<1>7. /\ Moves(r)
      /\ \/ e = "nil" /\ pc'[r] = "commit" /\ tx'[r] = w
         \/ e # "nil" /\ pc'[r] = "rollback" /\ err'[r] = e /\ tx'[r] = tx[r]
  BY <1>2, <1>4, <1>5, <1>6, WritingMoves, Zenon
<1>8. CASE e = "nil"
  <2>1. row \in Rows
    BY <1>2, <1>5, <1>8 DEF DirectoryInv, TablesOK, Rows, Exists, NoUser
  <2>2. \A q \in Requests \ {r} : ~Writes(q, u)
    BY <1>1, <1>5, <1>8, NotBlocked DEF Subject
  <2>3. tx'[r] = [tx[r] EXCEPT !.users[u] = row]
    BY <1>7, <1>8 DEF w
  <2>4. Apart(r) /\ WrittenOK(r)'
    BY <1>2, <1>7, <2>1, <2>2, <2>3, UserWritten
  <2>5. op' = op /\ stage' = stage /\ users' = users
    BY <1>7 DEF Moves
  <2>6. CommitOK(r)'
    BY <1>1, <1>2, <1>5, <1>8, <2>3, <2>5 DEF CommitOK, Doing
  <2> QED
    BY <1>1, <1>7, <1>8, <2>4, <2>6, WriteKeeps
<1>9. CASE e # "nil"
  BY <1>7, <1>9, FailureKeeps DEF Quiet
<1> QED
  BY <1>8, <1>9

LEMMA RenameKeeps ==
  ASSUME DirectoryInv, NEW r \in Requests, Rename(r)
  PROVE  DirectoryInv'
<1> DEFINE u == op[r].user
           row == [users[u] EXCEPT !.name = op[r].name]
           w == [tx[r] EXCEPT !.users[u] = row]
<1>1. /\ pc[r] \in Statements /\ pc[r] = "updateName" /\ Doing(r) = "UpdateUserName"
      /\ UpdateUserName(r, u, op[r].name, Goto("commit")) /\ UNCHANGED mem
      /\ BlockedBy(r) = {}
  BY DEF Rename, In, Ready, Statements, Steps
<1>2. /\ TypeOK /\ u \in Users /\ tx[r] = NoTx /\ "commit" \in Steps
      /\ op[r].name \in Names /\ op[r].state \in Activity
  BY <1>1, AtStatement, RequestType DEF Calls, Steps, Invalid
<1>3. UserRow(r, u) = users[u] /\ users[u] \in UserRows
  BY <1>2 DEF UserRow, Writes, NoTx, Exists, NoUser, TypeOK
<1>4. row \in UserRows /\ w \in Txs
  BY <1>2, <1>3, WroteType DEF UserRows
<1>5. PICK e \in Errors : /\ Verdict(r, e, Goto("commit")) /\ Writing(r, e, w)
                          /\ e = "nil" => Exists(users[u])
  BY <1>1, <1>3 DEF UpdateUserName, Found, Errors
<1>6. MemMoves(r)
  BY <1>1, <1>2, MemStays
<1> HIDE DEF w
<1>7. /\ Moves(r)
      /\ \/ e = "nil" /\ pc'[r] = "commit" /\ tx'[r] = w
         \/ e # "nil" /\ pc'[r] = "rollback" /\ err'[r] = e /\ tx'[r] = tx[r]
  BY <1>2, <1>4, <1>5, <1>6, WritingMoves, Zenon
<1>8. CASE e = "nil"
  <2>1. row \in Rows
    BY <1>2, <1>5, <1>8 DEF DirectoryInv, TablesOK, Rows, Exists, NoUser
  <2>2. \A q \in Requests \ {r} : ~Writes(q, u)
    BY <1>1, <1>5, <1>8, NotBlocked DEF Subject
  <2>3. tx'[r] = [tx[r] EXCEPT !.users[u] = row]
    BY <1>7, <1>8 DEF w
  <2>4. Apart(r) /\ WrittenOK(r)'
    BY <1>2, <1>7, <2>1, <2>2, <2>3, UserWritten
  <2>5. op' = op /\ stage' = stage /\ users' = users
    BY <1>7 DEF Moves
  <2>6. CommitOK(r)'
    BY <1>1, <1>2, <1>5, <1>8, <2>3, <2>5 DEF CommitOK, Doing, Rows
  <2> QED
    BY <1>1, <1>7, <1>8, <2>4, <2>6, WriteKeeps
<1>9. CASE e # "nil"
  BY <1>7, <1>9, FailureKeeps DEF Quiet
<1> QED
  BY <1>8, <1>9

-----------------------------------------------------------------------------
(* CreateTeamWithMembers. *)

(* What the invariant says of a request in the loop.                       *)
LEMMA AtLoop ==
  ASSUME DirectoryInv, NEW r \in Requests, InLoop(r)
  PROVE  /\ TypeOK /\ ~Invalid(r) /\ pc[r] \in Statements /\ pc[r] # "refetch"
         /\ Doing(r) = "CreateTeamWithMembers"
         /\ Members(r) \in Seq(Specs) /\ op[r].team \in Teams
         /\ mem[r].next \in DOMAIN Members(r)
         /\ Member(r) = Members(r)[mem[r].next]
         /\ Member(r) \in Specs /\ Subject(r) = Member(r).id /\ Subject(r) \in Users
<1>1. /\ pc[r] \in Statements /\ pc[r] # "refetch" /\ Doing(r) = "CreateTeamWithMembers"
      /\ TypeOK
  BY DEF InLoop, MemberSteps, Statements, Steps, DirectoryInv
<1>2. ~Invalid(r) /\ op[r].team \in Teams /\ op[r].members \in Seq(Specs)
  BY <1>1, AtStatement, RequestType DEF Calls
<1>3. mem[r].next \in DOMAIN op[r].members
  BY DEF DirectoryInv, LoopOK, Members
<1> QED
  BY <1>1, <1>2, <1>3, MemberType DEF Members, Member

(* A step inside the loop. *)
LEMMA LoopKeeps ==
  ASSUME DirectoryInv, NEW r \in Requests, Moves(r), InLoop(r), pc'[r] \in MemberSteps,
         WrittenOK(r)', Apart(r), LoopOK(r)'
  PROVE  DirectoryInv'
<1>1. op' = op /\ stage' = stage
  BY DEF Moves
<1>2. ~Invalid(r)' /\ InLoop(r)' /\ Doing(r)' = "CreateTeamWithMembers"
  BY <1>1, AtLoop DEF Invalid, Doing, InLoop
<1>3. CallOK(r)'
  BY <1>1, <1>2 DEF DirectoryInv, CallOK, MemberSteps
<1>4. CommitOK(r)'
  BY DEF CommitOK, MemberSteps
<1> QED
  BY <1>3, <1>4, MoveKeeps DEF RequestOK

(* The operators a step of r alone does not change.                        *)
LEMMA SameCall ==
  ASSUME NEW r \in Requests, Moves(r)
  PROVE  /\ op' = op /\ stage' = stage /\ users' = users /\ teams' = teams
         /\ team_members' = team_members
         /\ Doing(r)' = Doing(r) /\ Members(r)' = Members(r) /\ IdsOf(r)' = IdsOf(r)
BY DEF Moves, Doing, Members, IdsOf

LEMMA InsertTeamKeeps ==
  ASSUME DirectoryInv, NEW r \in Requests, InsertTeam(r)
  PROVE  DirectoryInv'
<1> DEFINE t == op[r].team
           l == IF Doing(r) = "CreateTeam" THEN "commit" ELSE NextMember(r, 1)
<1>1. /\ pc[r] = "createTeam" /\ pc[r] \in Statements /\ pc[r] # "refetch"
      /\ Doing(r) \in {"CreateTeam", "CreateTeamWithMembers"}
      /\ CreateTeam(r, t, Goto(l)) /\ BlockedBy(r) = {}
  BY DEF InsertTeam, In, Ready, Statements, Steps
<1>2. /\ TypeOK /\ tx[r] = NoTx /\ ~Invalid(r) /\ t \in Teams /\ ~InLoop(r)
      /\ mem[r].next = 1 /\ Members(r) \in Seq(Specs)
  <2>1. mem[r].next = 1
    BY <1>1 DEF DirectoryInv, CallOK
  <2>2. op[r].members \in Seq(Specs)
    BY RequestType DEF DirectoryInv, Calls
  <2> QED
    BY <1>1, <2>1, <2>2, AtStatement DEF DirectoryInv, CallOK, InLoop, MemberSteps, Members
<1>3. l \in {"commit", "getUser"} /\ l \in Steps
  BY DEF NextMember, Steps
<1> DEFINE w == [tx[r] EXCEPT !.teams = @ \union {t}]
<1>4. w = [NoTx EXCEPT !.teams = {t}] /\ w \in Txs
  <2>1. tx[r].teams \union {t} = {t}
    BY <1>2 DEF NoTx
  <2>2. w = [NoTx EXCEPT !.teams = {t}]
    BY <1>2, <2>1 DEF NoTx
  <2> QED
    BY <1>2, <2>2, NoTxType DEF Txs
<1>5. \/ Verdict(r, "nil", Goto(l)) /\ t \notin teams /\ tx' = [tx EXCEPT ![r] = w]
      \/ Verdict(r, "ErrAlreadyExists", Goto(l)) /\ tx' = [tx EXCEPT ![r] = Aborted]
  <2>1. CASE SeesTeam(r, t)
    BY <1>1, <2>1 DEF CreateTeam
  <2>2. CASE ~SeesTeam(r, t)
    <3>1. t \notin teams
      BY <2>2 DEF SeesTeam
    <3>2. Verdict(r, "nil", Goto(l))
      BY <1>1, <2>2 DEF CreateTeam
    <3>3. tx' = [tx EXCEPT ![r] = w]
      BY <1>1, <1>2, <2>2 DEF CreateTeam, TypeOK
    <3> QED
      BY <3>1, <3>2, <3>3
  <2> QED
    BY <2>1, <2>2
<1> HIDE DEF w, l
<1>6. Moves(r)
  <2>1. /\ \E x \in Steps : pc' = [pc EXCEPT ![r] = x]
        /\ \E x \in Errors : err' = [err EXCEPT ![r] = x]
    BY <1>2, <1>3, <1>5, VerdictMoves, GotoType DEF Errors
  <2>2. \E x \in Txs : tx' = [tx EXCEPT ![r] = x]
    BY <1>4, <1>5, NoTxType
  <2>3. MemMoves(r)
    BY <1>1, <1>2, MemStays DEF CreateTeam
  <2> QED
    BY <1>1, <2>1, <2>2, <2>3 DEF Moves, CreateTeam, Private
<1>7. CASE Verdict(r, "nil", Goto(l)) /\ t \notin teams /\ tx' = [tx EXCEPT ![r] = w]
  <2>1. pc'[r] = l /\ tx'[r] = [NoTx EXCEPT !.teams = {t}] /\ mem' = mem
    <3>1. pc' = [pc EXCEPT ![r] = l]
      BY <1>2, <1>3, <1>7, GotoVerdict DEF Errors
    <3> QED
      BY <1>1, <1>2, <1>4, <1>7, <3>1 DEF TypeOK, CreateTeam
  <2>2. /\ tx'[r].teams = {t} /\ tx'[r].added = {} /\ tx'[r].removed = {}
        /\ \A v \in Users : tx'[r].users[v] = NoUser
        /\ ~Exists(NoUser)
    BY <2>1 DEF NoTx, Exists, NoUser
  <2>3. \A q \in Requests \ {r} : t \notin tx[q].teams
    BY <1>1, NotBlocked
  <2>4. Apart(r) /\ WrittenOK(r)'
    BY <1>6, <1>7, <2>2, <2>3, SameCall DEF Apart, WrittenOK
  <2>5. CASE l = "getUser"
    <3>1. Doing(r) = "CreateTeamWithMembers" /\ ~(Len(Members(r)) < 1)
      BY <1>1, <2>5, <1>2 DEF l, NextMember
    <3>2. 1 \in DOMAIN Members(r) /\ 1 .. 1 - 1 = {}
      BY <1>2, <3>1
    <3>3. {op[r].team} \X {Members(r)[i].id : i \in {}} = {}
      OBVIOUS
    <3>4. LoopOK(r)'
      BY <1>2, <1>6, <2>1, <2>2, <2>5, <3>2, <3>3, SameCall DEF LoopOK, Writes
    <3>5. CallOK(r)'
      BY <1>1, <1>2, <1>6, <2>1, <2>5, <3>1, SameCall
         DEF DirectoryInv, CallOK, InLoop, MemberSteps, Invalid
    <3>6. CommitOK(r)'
      BY <2>1, <2>5 DEF CommitOK
    <3> QED
      BY <1>6, <2>4, <3>4, <3>5, <3>6, MoveKeeps DEF RequestOK
  <2>6. CASE l = "commit"
    <3>1. CASE Doing(r) = "CreateTeam"
      BY <1>1, <1>6, <2>1, <2>4, <2>6, <3>1, WriteKeeps, SameCall DEF CommitOK
    <3>2. CASE Doing(r) = "CreateTeamWithMembers"
      <4>1. Members(r) = <<>>
        BY <1>2, <2>6, <3>2 DEF l, NextMember
      <4>2. IdsOf(r) = {} /\ {t} \X {} = {}
        BY <4>1 DEF IdsOf, Members
      <4>3. CommitOK(r)'
        BY <1>6, <2>1, <2>2, <3>2, <4>2, SameCall DEF CommitOK, Writes
      <4> QED
        BY <1>1, <1>6, <2>1, <2>4, <2>6, <4>3, WriteKeeps
    <3> QED
      BY <1>1, <3>1, <3>2
  <2> QED
    BY <1>3, <2>5, <2>6
<1>8. CASE Verdict(r, "ErrAlreadyExists", Goto(l)) /\ tx' = [tx EXCEPT ![r] = Aborted]
  <2>1. pc'[r] = "rollback" /\ err'[r] # "nil" /\ tx'[r] = Aborted
    BY <1>2, <1>3, <1>8, GotoVerdict DEF TypeOK, Errors
  <2> QED
    BY <1>6, <2>1, FailureKeeps DEF Quiet
<1> QED
  BY <1>5, <1>7, <1>8

LEMMA FindMemberKeeps ==
  ASSUME DirectoryInv, NEW r \in Requests, FindMember(r)
  PROVE  DirectoryInv'
<1> DEFINE u == Subject(r)
           l == UpdateOf(Member(r), UserRow(r, u))
<1>1. /\ pc[r] = "getUser" /\ InLoop(r)
      /\ GetUserByID(r, u, [nil |-> l, ErrUserNotFound |-> "createUser"])
  BY DEF FindMember, In, Ready, InLoop, MemberSteps
<1>2. l \in {"updateActive", "updateName", "addMember"}
      /\ (l = "updateName" => Member(r).name # None)
  BY DEF UpdateOf, Renamed
<1>3. /\ TypeOK /\ u \in Users /\ Member(r) = Members(r)[mem[r].next] /\ u = Member(r).id
  BY <1>1, AtLoop
<1> HIDE DEF l
<1>4. /\ \/ Exists(UserRow(r, u)) /\ pc' = [pc EXCEPT ![r] = l]
         \/ ~Exists(UserRow(r, u)) /\ pc' = [pc EXCEPT ![r] = "createUser"]
      /\ err' = err /\ tx' = tx /\ mem' = [mem EXCEPT ![r].user = UserRow(r, u)]
      /\ Private
  BY <1>1 DEF GetUserByID, Verdict, Found, ReadOnly
<1>5. Moves(r)
  <2>1. \E x \in Steps : pc' = [pc EXCEPT ![r] = x]
    BY <1>2, <1>4 DEF Steps
  <2>2. \E x \in Errors : err' = [err EXCEPT ![r] = x]
    BY <1>3, <1>4 DEF TypeOK
  <2>3. MemMoves(r)
    BY <1>3, <1>4, UserRowType, MemUser
  <2> QED
    BY <1>3, <1>4, <2>1, <2>2, <2>3, TxStays DEF Moves, Private
<1>6. /\ mem'[r].next = mem[r].next /\ tx'[r] = tx[r]
      /\ pc'[r] = IF Exists(UserRow(r, u)) THEN l ELSE "createUser"
  BY <1>3, <1>4 DEF TypeOK
<1>7. Apart(r) /\ WrittenOK(r)'
  BY <1>5, <1>6, QuietKeeps DEF Quiet
<1>8. pc'[r] \in MemberSteps
  BY <1>2, <1>6 DEF MemberSteps
<1>9. LoopOK(r)'
  <2>1. \A v \in Users : /\ Columns(r, v)' <=> Columns(r, v)
                         /\ Writes(r, v)' <=> Writes(r, v)
                         /\ UserRow(r, v)' = UserRow(r, v)
    BY <1>5, <1>6, SameCall DEF Columns, Writes, UserRow
  <2>2. LoopOK(r) /\ pc[r] \notin {"updateName", "addMember"}
    BY <1>1 DEF DirectoryInv
  <2> QED
    BY <1>1, <1>2, <1>3, <1>5, <1>6, <1>8, <2>1, <2>2, SameCall DEF LoopOK, InLoop
<1> QED
  BY <1>1, <1>5, <1>7, <1>8, <1>9, LoopKeeps

(* A row of users written in the loop is the current member's.             *)
LEMMA MemberWritten ==
  ASSUME DirectoryInv, NEW r \in Requests, Moves(r), InLoop(r), NEW row \in Rows,
         tx'[r] = [tx[r] EXCEPT !.users[Subject(r)] = row],
         \A q \in Requests \ {r} : ~Writes(q, Subject(r)),
         row.name \in {UserRow(r, Subject(r)).name, Member(r).name},
         row.state \in {UserRow(r, Subject(r)).state, Member(r).state},
         mem'[r].next = mem[r].next, pc'[r] \in {"updateName", "addMember"},
         pc'[r] = "updateName" => Member(r).name # None
  PROVE  DirectoryInv'
<1> DEFINE u == Subject(r)
           n == mem[r].next
<1>1. /\ TypeOK /\ u \in Users /\ n \in DOMAIN Members(r)
      /\ Member(r) = Members(r)[n] /\ u = Members(r)[n].id
      /\ Doing(r) = "CreateTeamWithMembers"
  BY AtLoop
<1>2. Apart(r) /\ WrittenOK(r)'
  BY <1>1, UserWritten
<1>3. /\ tx'[r].teams = tx[r].teams /\ tx'[r].added = tx[r].added
      /\ tx'[r].removed = tx[r].removed
      /\ \A v \in Users : tx'[r].users[v] = IF v = u THEN row ELSE tx[r].users[v]
      /\ Exists(row)
  BY <1>1, RequestType DEF Txs, Rows, Exists, Activity
<1>4. LoopOK(r)
  BY DEF DirectoryInv
<1>5. ASSUME NEW v \in Users, Writes(r, v)'
      PROVE  /\ Columns(r, v)'
             /\ \/ \E i \in 1 .. n - 1 : v = Members(r)[i].id
                \/ v = Members(r)[n].id
  <2>1. CASE v # u
    <3>1. Writes(r, v) /\ tx'[r].users[v] = tx[r].users[v]
      BY <1>3, <1>5, <2>1 DEF Writes
    <3>2. Columns(r, v)
      BY <1>4, <3>1 DEF LoopOK
    <3>3. Columns(r, v)'
      BY <3>1, <3>2, SameCall DEF Columns
    <3> QED
      BY <1>1, <1>4, <3>1, <3>3 DEF LoopOK
  <2>2. CASE v = u
    <3>1. Columns(r, u) \/ ~Writes(r, u)
      BY <1>1, <1>4 DEF LoopOK
    <3>2. tx'[r].users[v] = row
      BY <1>3, <2>2
    <3>3. /\ \/ row.name = users[u].name
             \/ \E i \in DOMAIN Members(r) :
                  Members(r)[i].id = u /\ Members(r)[i].name = row.name
          /\ \/ row.state = users[u].state
             \/ \E i \in DOMAIN Members(r) :
                  Members(r)[i].id = u /\ Members(r)[i].state = row.state
      <4>1. CASE Writes(r, u)
        BY <1>1, <3>1, <4>1 DEF Columns, UserRow
      <4>2. CASE ~Writes(r, u)
        BY <1>1, <4>2 DEF UserRow
      <4> QED
        BY <4>1, <4>2
    <3>4. Columns(r, v)'
      BY <2>2, <3>2, <3>3, SameCall DEF Columns
    <3> QED
      BY <1>1, <2>2, <3>4
  <2> QED
    BY <2>1, <2>2
<1>6. InLoop(r)' /\ pc'[r] \in MemberSteps
  BY <1>1, SameCall DEF InLoop, MemberSteps
<1>7. Exists(UserRow(r, Members(r)[n].id))'
  BY <1>1, <1>3, SameCall DEF UserRow, Writes
<1>8. LoopOK(r)'
  BY <1>1, <1>3, <1>4, <1>5, <1>6, <1>7, SameCall DEF LoopOK
<1> QED
  BY <1>2, <1>6, <1>8, LoopKeeps

LEMMA InsertMemberKeeps ==
  ASSUME DirectoryInv, NEW r \in Requests, InsertMember(r)
  PROVE  DirectoryInv'
<1> DEFINE u == Subject(r)
           row == [name |-> Member(r).name, state |-> Member(r).state]
           next == [nil |-> "addMember", ErrUserExists |-> "refetch"]
<1>1. /\ pc[r] = "createUser" /\ InLoop(r) /\ BlockedBy(r) = {}
      /\ CreateUser(r, u, Member(r).name, Member(r).state, next)
  BY DEF InsertMember, In, Ready, InLoop, MemberSteps
<1>2. /\ TypeOK /\ u \in Users /\ ~Invalid(r) /\ Doing(r) = "CreateTeamWithMembers"
      /\ Member(r).name \in Names \union {None} /\ Member(r).state \in Activity
  BY <1>1, AtLoop DEF Specs
<1>3. /\ \A x \in DOMAIN next : next[x] \in Steps
      /\ DOMAIN next = {"nil", "ErrUserExists"}
      /\ next["nil"] = "addMember" /\ next["ErrUserExists"] = "refetch"
  BY DEF Steps
<1> HIDE DEF next
<1>4. /\ Moves(r)
      /\ \/ /\ Verdict(r, "nil", next) /\ Member(r).name \in Names
            /\ tx'[r] = [tx[r] EXCEPT !.users[u] = row]
            /\ mem' = [mem EXCEPT ![r].user = row]
         \/ Verdict(r, "ErrUserExists", next) /\ tx'[r] = Aborted
         \/ Verdict(r, "ErrInvalidArgument", next) /\ tx' = tx
  BY <1>1, <1>2, <1>3, CreateUserMoves
<1>5. CASE /\ Verdict(r, "nil", next) /\ Member(r).name \in Names
           /\ tx'[r] = [tx[r] EXCEPT !.users[u] = row]
           /\ mem' = [mem EXCEPT ![r].user = row]
  <2>1. pc'[r] = "addMember"
    BY <1>2, <1>3, <1>5 DEF Verdict, TypeOK
  <2>2. row \in Rows /\ row.name = Member(r).name /\ row.state = Member(r).state
    BY <1>2, <1>5 DEF Rows
  <2>3. \A q \in Requests \ {r} : ~Writes(q, u)
    BY <1>1, NotBlocked
  <2>4. mem'[r].next = mem[r].next
    BY <1>2, <1>5 DEF TypeOK
  <2> QED
    BY <1>1, <1>4, <1>5, <2>1, <2>2, <2>3, <2>4, MemberWritten
<1>6. CASE Verdict(r, "ErrUserExists", next) /\ tx'[r] = Aborted
  <2>1. pc'[r] = "refetch"
    BY <1>2, <1>3, <1>6 DEF Verdict, TypeOK
  <2>2. CallOK(r)'
    BY <1>2, <1>4, <1>6, <2>1, SameCall DEF DirectoryInv, CallOK, Invalid
  <2>3. LoopOK(r)' /\ CommitOK(r)'
    BY <2>1 DEF LoopOK, InLoop, MemberSteps, CommitOK
  <2> QED
    BY <1>4, <1>6, <2>2, <2>3, QuietKeeps, MoveKeeps DEF RequestOK, Quiet
<1>7. CASE Verdict(r, "ErrInvalidArgument", next) /\ tx' = tx
  <2>1. pc'[r] = "rollback" /\ err'[r] # "nil"
    BY <1>2, <1>3, <1>7 DEF Verdict, TypeOK
  <2> QED
    BY <1>4, <1>7, <2>1, FailureKeeps DEF Quiet
<1> QED
  BY <1>4, <1>5, <1>6, <1>7

LEMMA FetchAfterConflictKeeps ==
  ASSUME DirectoryInv, NEW r \in Requests, FetchAfterConflict(r)
  PROVE  DirectoryInv'
<1>1. TypeOK /\ tx[r] = Aborted
  BY DEF DirectoryInv, CallOK, FetchAfterConflict, In, Ready
<1>2. Verdict(r, "ErrUserExists", <<>>) /\ ReadOnly /\ UNCHANGED mem
  BY <1>1 DEF FetchAfterConflict, Aborted
<1>3. /\ pc' = [pc EXCEPT ![r] = "rollback"] /\ err' = [err EXCEPT ![r] = "ErrUserExists"]
  BY <1>2 DEF Verdict
<1>4. Moves(r)
  BY <1>1, <1>2, <1>3, TxStays, MemStays DEF Moves, ReadOnly, Private, Steps, Errors
<1> QED
  BY <1>1, <1>2, <1>3, <1>4, FailureKeeps DEF Quiet, ReadOnly, TypeOK

(* The row of a member who is updated is written by nobody else.           *)
LEMMA MemberLocked ==
  ASSUME DirectoryInv, NEW r \in Requests, InLoop(r), BlockedBy(r) = {},
         pc[r] \in {"updateActive", "updateName"}
  PROVE  /\ UserRow(r, Subject(r)) \in Rows /\ Found(r, Subject(r)) = "nil"
         /\ \A q \in Requests \ {r} : ~Writes(q, Subject(r))
<1> DEFINE u == Subject(r)
<1>1. u \in Users /\ u = Members(r)[mem[r].next].id
  BY AtLoop
<1>2. Exists(UserRow(r, u))
  BY <1>1 DEF DirectoryInv, LoopOK
<1>3. UserRow(r, u) \in Rows
  <2>1. UserRow(r, u) \in {NoUser} \union Rows
    BY <1>1 DEF DirectoryInv, TablesOK, WrittenOK, UserRow
  <2> QED
    BY <1>2, <2>1 DEF Exists, NoUser
<1>4. \A q \in Requests \ {r} : ~Writes(q, u)
  <2>1. CASE Writes(r, u)
    BY <1>1, <2>1 DEF DirectoryInv, Exclusive
  <2>2. CASE ~Writes(r, u)
    BY <1>2, <2>2, NotBlocked DEF UserRow
  <2> QED
    BY <2>1, <2>2
<1> QED
  BY <1>2, <1>3, <1>4 DEF Found

LEMMA SetMemberActiveKeeps ==
  ASSUME DirectoryInv, NEW r \in Requests, SetMemberActive(r)
  PROVE  DirectoryInv'
<1> DEFINE u == Subject(r)
           row == [UserRow(r, u) EXCEPT !.state = Member(r).state]
           l == IF Renamed(Member(r), mem[r].user) THEN "updateName" ELSE "addMember"
           w == [tx[r] EXCEPT !.users[u] = row]
<1>1. /\ pc[r] = "updateActive" /\ InLoop(r) /\ BlockedBy(r) = {}
      /\ UpdateUserActive(r, u, Member(r).state, Goto(l))
      /\ mem' = [mem EXCEPT ![r].user.state = Member(r).state]
  BY DEF SetMemberActive, In, Ready, InLoop, MemberSteps
<1>2. /\ TypeOK /\ u \in Users /\ Member(r).state \in Activity
      /\ l \in {"updateName", "addMember"} /\ l \in Steps
      /\ l = "updateName" => Member(r).name # None
  BY <1>1, AtLoop DEF Specs, Steps, Renamed
<1>3. /\ UserRow(r, u) \in Rows /\ Found(r, u) = "nil"
      /\ \A q \in Requests \ {r} : ~Writes(q, u)
  BY <1>1, MemberLocked
<1>4. row \in Rows /\ row.name = UserRow(r, u).name /\ row.state = Member(r).state
  BY <1>2, <1>3 DEF Rows
<1>5. w \in Txs
  BY <1>2, <1>4, WroteType DEF Rows, UserRows
<1>6. MemMoves(r) /\ mem'[r].next = mem[r].next
  <2> DEFINE kept == [mem[r].user EXCEPT !.state = Member(r).state]
  <2>1. kept \in UserRows
    BY <1>2, RequestType DEF Mems, UserRows
  <2>2. mem' = [mem EXCEPT ![r].user = kept]
    BY <1>1
  <2> QED
    BY <1>2, <2>1, <2>2, MemUser DEF TypeOK
<1>7. Verdict(r, "nil", Goto(l)) /\ Writing(r, "nil", w)
  BY <1>1, <1>3 DEF UpdateUserActive
<1> HIDE DEF w, l
<1>8. Moves(r) /\ pc'[r] = l /\ tx'[r] = w
  <2>1. "nil" \in Errors
    BY DEF Errors
  <2> QED
    BY <1>2, <1>5, <1>6, <1>7, <2>1, WritingMoves, Zenon
<1> QED
  BY <1>1, <1>2, <1>3, <1>4, <1>6, <1>8, MemberWritten DEF w

LEMMA SetMemberNameKeeps ==
  ASSUME DirectoryInv, NEW r \in Requests, SetMemberName(r)
  PROVE  DirectoryInv'
<1> DEFINE u == Subject(r)
           row == [UserRow(r, u) EXCEPT !.name = Member(r).name]
           w == [tx[r] EXCEPT !.users[u] = row]
<1>1. /\ pc[r] = "updateName" /\ InLoop(r) /\ BlockedBy(r) = {}
      /\ UpdateUserName(r, u, Member(r).name, Goto("addMember"))
      /\ mem' = [mem EXCEPT ![r].user.name = Member(r).name]
  BY DEF SetMemberName, In, Ready, InLoop, MemberSteps
<1>2. TypeOK /\ u \in Users /\ Member(r).name \in Names /\ "addMember" \in Steps
  <2>1. Member(r).name # None
    BY <1>1, AtLoop DEF DirectoryInv, LoopOK
  <2> QED
    BY <1>1, <2>1, AtLoop DEF Specs, Steps
<1>3. /\ UserRow(r, u) \in Rows /\ Found(r, u) = "nil"
      /\ \A q \in Requests \ {r} : ~Writes(q, u)
  BY <1>1, MemberLocked
<1>4. row \in Rows /\ row.name = Member(r).name /\ row.state = UserRow(r, u).state
  BY <1>2, <1>3 DEF Rows
<1>5. w \in Txs
  BY <1>2, <1>4, WroteType DEF Rows, UserRows
<1>6. MemMoves(r) /\ mem'[r].next = mem[r].next
  <2> DEFINE kept == [mem[r].user EXCEPT !.name = Member(r).name]
  <2>1. kept \in UserRows
    BY <1>2, RequestType DEF Mems, UserRows
  <2>2. mem' = [mem EXCEPT ![r].user = kept]
    BY <1>1
  <2> QED
    BY <1>2, <2>1, <2>2, MemUser DEF TypeOK
<1>7. Verdict(r, "nil", Goto("addMember")) /\ Writing(r, "nil", w)
  BY <1>1, <1>3 DEF UpdateUserName
<1> HIDE DEF w
<1>8. Moves(r) /\ pc'[r] = "addMember" /\ tx'[r] = w
  <2>1. "nil" \in Errors
    BY DEF Errors
  <2> QED
    BY <1>2, <1>5, <1>6, <1>7, <2>1, WritingMoves, Zenon
<1> QED
  BY <1>1, <1>2, <1>3, <1>4, <1>6, <1>8, MemberWritten DEF w

(* INSERT ... ON CONFLICT DO NOTHING of a membership that is there.        *)
LEMMA AlreadyMember ==
  ASSUME NEW r, NEW t, NEW u, NEW next, AddMember(r, t, u, next), <<t, u>> \in SeesMembers(r)
  PROVE  Verdict(r, "ErrAlreadyExists", next) /\ Private /\ tx' = tx
<1> DEFINE e == IF <<t, u>> \in SeesMembers(r) THEN "ErrAlreadyExists"
                ELSE IF ~Exists(UserRow(r, u)) THEN "ErrUserNotFound"
                ELSE IF ~SeesTeam(r, t) THEN "ErrTeamNotFound" ELSE "nil"
           w == [tx[r] EXCEPT !.added = @ \union {<<t, u>>}, !.removed = @ \ {<<t, u>>}]
<1>1. Verdict(r, e, next) /\ Writing(r, e, w)
  BY DEF AddMember
<1>2. e = "ErrAlreadyExists"
  OBVIOUS
<1> HIDE DEF e, w
<1> QED
  BY <1>1, <1>2 DEF Writing

(* The membership of the current member is inserted, or has been for an    *)
(* earlier mention of him: either way the loop goes on.                    *)
LEMMA EnrolMemberWrites ==
  ASSUME DirectoryInv, NEW r \in Requests, EnrolMember(r)
  PROVE  LET t == op[r].team
             list == Members(r)
             n == mem[r].next
             l == NextMember(r, n + 1)
         IN /\ Moves(r) /\ pc'[r] = l /\ err' = err /\ mem'[r].next = n + 1
            /\ tx'[r].users = tx[r].users /\ tx'[r].teams = tx[r].teams
            /\ tx'[r].removed = {}
            /\ tx'[r].added = tx[r].added \union {<<t, list[n].id>>}
<1> DEFINE t == op[r].team
           u == Subject(r)
           n == mem[r].next
           l == NextMember(r, n + 1)
           next == [nil |-> l, ErrAlreadyExists |-> l]
           w == [tx[r] EXCEPT !.added = @ \union {<<t, u>>}, !.removed = @ \ {<<t, u>>}]
           rows == mem[r].listed \union {[id |-> u, row |-> mem[r].user]}
<1>1. /\ pc[r] = "addMember" /\ InLoop(r)
      /\ AddMember(r, t, u, next)
      /\ mem' = [mem EXCEPT ![r].listed = rows, ![r].next = n + 1]
  BY DEF EnrolMember, In, Ready, InLoop, MemberSteps
<1>2. /\ TypeOK /\ u \in Users /\ t \in Teams /\ u = Members(r)[n].id
      /\ mem[r] \in Mems /\ tx[r] \in Txs
  BY <1>1, AtLoop, RequestType DEF DirectoryInv
<1>3. /\ tx[r].teams = {t} /\ tx[r].removed = {} /\ Exists(UserRow(r, u))
      /\ t \notin teams /\ <<t, u>> \notin team_members
  <2>1. LoopOK(r) /\ WrittenOK(r) /\ TablesOK
    BY DEF DirectoryInv
  <2>2. tx[r].teams = {t} /\ tx[r].removed = {} /\ Exists(UserRow(r, u))
    BY <1>1, <1>2, <2>1 DEF LoopOK
  <2>3. t \notin teams
    BY <2>1, <2>2 DEF WrittenOK
  <2> QED
    BY <1>2, <2>1, <2>2, <2>3 DEF TablesOK
<1>4. l \in Steps /\ DOMAIN next = {"nil", "ErrAlreadyExists"}
      /\ next["nil"] = l /\ next["ErrAlreadyExists"] = l
  BY DEF NextMember, Steps
<1> HIDE DEF next, l
<1>5. /\ Private
      /\ \/ <<t, u>> \in tx[r].added /\ Verdict(r, "ErrAlreadyExists", next) /\ tx' = tx
         \/ Verdict(r, "nil", next) /\ tx' = [tx EXCEPT ![r] = w]
  <2>1. CASE <<t, u>> \in SeesMembers(r)
    <3>1. <<t, u>> \in tx[r].added
      BY <1>3, <2>1 DEF SeesMembers
    <3> QED
      BY <1>1, <2>1, <3>1, AlreadyMember
  <2>2. CASE <<t, u>> \notin SeesMembers(r)
    <3>1. SeesTeam(r, t)
      BY <1>3 DEF SeesTeam
    <3>2. Verdict(r, "nil", next) /\ Writing(r, "nil", w)
      BY <1>1, <1>3, <2>2, <3>1 DEF AddMember
    <3> QED
      BY <3>2 DEF Writing
  <2> QED
    BY <2>1, <2>2
<1>6. tx[r].removed \ {<<t, u>>} = {}
  BY <1>3
<1>7. /\ w \in Txs /\ w.users = tx[r].users /\ w.teams = tx[r].teams /\ w.removed = {}
      /\ w.added = tx[r].added \union {<<t, u>>}
  <2>1. {<<t, u>>} \in SUBSET (Teams \X Users)
    BY <1>2
  <2>2. /\ tx[r].added \union {<<t, u>>} \in SUBSET (Teams \X Users)
        /\ tx[r].removed \ {<<t, u>>} \in SUBSET (Teams \X Users)
    BY <1>2, <2>1 DEF Txs
  <2> QED
    BY <1>2, <1>6, <2>2 DEF Txs
<1> HIDE DEF w
<1>8. /\ pc' = [pc EXCEPT ![r] = l] /\ err' = err
  BY <1>4, <1>5 DEF Verdict
<1>9. MemMoves(r) /\ mem'[r].next = n + 1
  <2>1. [id |-> u, row |-> mem[r].user] \in Listing
    BY <1>2 DEF Listing, Mems
  <2>2. rows \in SUBSET Listing /\ n + 1 \in Nat \ {0}
    BY <1>2, <2>1 DEF Mems
  <2> HIDE DEF rows
  <2> DEFINE m == [mem[r] EXCEPT !.listed = rows, !.next = n + 1]
  <2>3. m \in Mems /\ m.next = n + 1
    BY <1>2, <2>2 DEF Mems
  <2>4. mem' = [mem EXCEPT ![r] = m]
    BY <1>1, <1>2 DEF TypeOK
  <2> QED
    BY <1>1, <1>2, <2>3, <2>4 DEF MemMoves, TypeOK
<1>10. Moves(r)
  <2>1. \E x \in Errors : err' = [err EXCEPT ![r] = x]
    BY <1>2, <1>8 DEF TypeOK
  <2>2. \E x \in Txs : tx' = [tx EXCEPT ![r] = x]
    BY <1>2, <1>5, <1>7, TxStays
  <2> QED
    BY <1>4, <1>5, <1>8, <1>9, <2>1, <2>2 DEF Moves, Private
<1>11. CASE <<t, u>> \in tx[r].added /\ tx' = tx
  <2>1. tx[r].added = tx[r].added \union {<<t, u>>}
    BY <1>11
  <2> QED
    BY <1>2, <1>3, <1>8, <1>9, <1>10, <1>11, <2>1 DEF TypeOK, l
<1>12. CASE tx' = [tx EXCEPT ![r] = w]
  <2>1. tx'[r] = w
    BY <1>2, <1>12 DEF TypeOK
  <2> QED
    BY <1>2, <1>7, <1>8, <1>9, <1>10, <2>1 DEF TypeOK, l
<1> QED
  BY <1>5, <1>11, <1>12

LEMMA EnrolMemberKeeps ==
  ASSUME DirectoryInv, NEW r \in Requests, EnrolMember(r)
  PROVE  DirectoryInv'
<1> DEFINE t == op[r].team
           list == Members(r)
           n == mem[r].next
           l == NextMember(r, n + 1)
<1>1. /\ pc[r] = "addMember" /\ InLoop(r)
  BY DEF EnrolMember, In, Ready, InLoop, MemberSteps
<1>2. /\ TypeOK /\ t \in Teams /\ list \in Seq(Specs) /\ n \in DOMAIN list
      /\ Doing(r) = "CreateTeamWithMembers" /\ pc[r] \in Statements
      /\ list[n].id \in Users
  BY <1>1, AtLoop
<1>3. /\ Moves(r) /\ pc'[r] = l /\ mem'[r].next = n + 1
      /\ tx'[r].users = tx[r].users /\ tx'[r].teams = tx[r].teams
      /\ tx'[r].removed = {}
      /\ tx'[r].added = tx[r].added \union {<<t, list[n].id>>}
  BY EnrolMemberWrites
<1>4. LoopOK(r) /\ WrittenOK(r) /\ Exists(UserRow(r, list[n].id))
  BY <1>1 DEF DirectoryInv, LoopOK
<1>5. Apart(r)
  BY <1>3 DEF DirectoryInv, Exclusive, Apart, Writes
<1>6. /\ \A v \in Users : /\ Writes(r, v)' <=> Writes(r, v)
                          /\ UserRow(r, v)' = UserRow(r, v)
                          /\ Columns(r, v)' <=> Columns(r, v)
      /\ \A s \in Teams : SeesTeam(r, s)' <=> SeesTeam(r, s)
  BY <1>3, SameCall DEF Writes, UserRow, Columns, SeesTeam
<1>7. WrittenOK(r)'
  <2>1. SeesTeam(r, t)
    BY <1>1, <1>4 DEF LoopOK, SeesTeam
  <2> QED
    BY <1>2, <1>3, <1>4, <1>6, <2>1, SameCall DEF WrittenOK
<1>8. tx'[r].teams = {t} /\ tx'[r].added = {t} \X {list[i].id : i \in 1 .. n}
  <2>1. tx[r].teams = {t} /\ tx[r].added = {t} \X {list[i].id : i \in 1 .. n - 1}
    BY <1>1, <1>4 DEF LoopOK
  <2>2. 1 .. n = (1 .. n - 1) \union {n}
    BY <1>2
  <2>3. {list[i].id : i \in 1 .. n} = {list[i].id : i \in 1 .. n - 1} \union {list[n].id}
    BY <2>2
  <2>4. ({t} \X {list[i].id : i \in 1 .. n - 1}) \union {<<t, list[n].id>>}
          = {t} \X {list[i].id : i \in 1 .. n}
    BY <2>3
  <2> QED
    BY <1>3, <2>1, <2>4
<1>9. \A v \in Users : Writes(r, v) =>
        Columns(r, v) /\ \E i \in 1 .. n : v = list[i].id
  BY <1>1, <1>2, <1>4 DEF LoopOK
<1>10. CASE n + 1 <= Len(list)
  <2>1. l = "getUser" /\ n + 1 \in DOMAIN list /\ (n + 1) - 1 = n
    BY <1>2, <1>10 DEF NextMember
  <2>2. LoopOK(r)'
    BY <1>2, <1>3, <1>6, <1>8, <1>9, <2>1, SameCall DEF LoopOK
  <2> QED
    BY <1>1, <1>3, <1>5, <1>7, <2>1, <2>2, LoopKeeps DEF MemberSteps
<1>11. CASE ~(n + 1 <= Len(list))
  <2>1. l = "commit" /\ DOMAIN list = 1 .. n
    BY <1>2, <1>11 DEF NextMember
  <2>2. IdsOf(r) = {list[i].id : i \in 1 .. n}
    BY <2>1 DEF IdsOf, Members
  <2>3. tx'[r].added = {t} \X IdsOf(r)
    BY <1>8, <2>2
  <2>4. \A v \in Users : Writes(r, v) => v \in IdsOf(r) /\ Columns(r, v)
    BY <1>9, <2>2
  <2>5. ASSUME NEW v \in Users, Writes(r, v)'
        PROVE  v \in IdsOf(r)' /\ Columns(r, v)'
    BY <1>3, <1>6, <2>4, <2>5, SameCall
  <2>6. CommitOK(r)'
    BY <1>2, <1>3, <1>8, <2>3, <2>5, SameCall DEF CommitOK
  <2> QED
    BY <1>2, <1>3, <1>5, <1>7, <2>1, <2>6, WriteKeeps
<1> QED
  BY <1>10, <1>11

-----------------------------------------------------------------------------
(* The beginning of a method, and what goes wrong. *)

LEMMA BeginKeeps ==
  ASSUME DirectoryInv, NEW r \in Requests, Begin(r)
  PROVE  DirectoryInv'
<1> DEFINE l == First[Doing(r)]
<1>1. /\ TypeOK /\ CallOK(r) /\ tx[r] = NoTx /\ mem[r].next = 1
      /\ stage[r] \in DOMAIN Plan(op[r].kind)
  BY DEF DirectoryInv, CallOK, Begin
<1>2. Doing(r) \in Methods /\ l \in Statements \ {"refetch"}
  BY <1>1, DoingType, FirstType
<1>3. Doing(r) = "CreateTeamWithMembers" => l \notin MemberSteps
  BY DEF First, MemberSteps
<1>4. Moves(r) /\ tx' = tx /\ mem' = mem /\ pc'[r] = l
  <2>1. err' = [err EXCEPT ![r] = err[r]] /\ err[r] \in Errors
    BY <1>1 DEF Begin, TypeOK
  <2>2. pc' = [pc EXCEPT ![r] = l] /\ l \in Steps
    BY <1>2 DEF Begin, Statements
  <2> QED
    BY <1>1, <2>1, <2>2, TxStays, MemStays DEF Begin, Moves, TypeOK
<1> QED
  BY <1>1, <1>2, <1>3, <1>4, ReadKeeps DEF Begin

(* A call that ends before it began anything. *)
LEMMA AnswerKeeps ==
  ASSUME DirectoryInv, NEW r \in Requests, Moves(r), pc[r] = "begin", pc'[r] = "done",
         tx'[r] = tx[r]
  PROVE  DirectoryInv'
<1>1. /\ op' = op /\ stage' = stage
  BY DEF Moves
<1>2. CallOK(r)'
  BY <1>1, IndexKeeps DEF DirectoryInv, CallOK, Statements, Doing
<1>3. LoopOK(r)' /\ CommitOK(r)'
  BY DEF LoopOK, InLoop, MemberSteps, CommitOK
<1> QED
  BY <1>2, <1>3, QuietKeeps, MoveKeeps DEF RequestOK, Quiet

LEMMA RejectKeeps ==
  ASSUME DirectoryInv, NEW r \in Requests, Reject(r)
  PROVE  DirectoryInv'
<1>1. TypeOK
  BY DEF DirectoryInv
<1>2. Moves(r)
  BY <1>1, TxStays, MemStays DEF Reject, Moves, Steps, Errors
<1> QED
  BY <1>1, <1>2, AnswerKeeps DEF Reject, TypeOK

LEMMA CallFailsKeeps ==
  ASSUME DirectoryInv, NEW r \in Requests, CallFails(r)
  PROVE  DirectoryInv'
<1>1. TypeOK /\ err[r] \in Errors /\ UNCHANGED <<users, teams, team_members, tx, op, stage>>
  BY RequestType DEF DirectoryInv, CallFails
<1>2. PICK e \in Errors \ {"nil"} : err' = [err EXCEPT ![r] = e]
  <2>1. CASE pc[r] = "rollback"
    BY <1>1, <2>1 DEF CallFails
  <2>2. CASE pc[r] = "refetch"
    BY <2>2 DEF CallFails, Errors
  <2>3. CASE pc[r] \notin {"rollback", "refetch"}
    BY <2>3 DEF CallFails, Errors
  <2> QED
    BY <2>1, <2>2, <2>3
<1>3. /\ \E l \in Steps : pc' = [pc EXCEPT ![r] = l]
      /\ pc'[r] = IF pc[r] = "begin" THEN "done"
                  ELSE IF pc[r] = "commit" THEN "orphanCommit" ELSE "orphan"
  BY <1>1 DEF CallFails, TypeOK, Steps
<1>4. Locals.next = 1 /\ mem' = [mem EXCEPT ![r] = Locals]
  BY DEF Locals, CallFails
<1>5. MemMoves(r)
  BY <1>4, LocalsType DEF MemMoves
<1>6. Moves(r)
  BY <1>1, <1>2, <1>3, <1>5, TxStays DEF Moves
<1>7. CASE pc[r] = "begin"
  BY <1>1, <1>3, <1>6, <1>7, AnswerKeeps
<1>8. CASE pc[r] = "commit"
  <2>1. pc'[r] = "orphanCommit" /\ mem'[r].next = 1
    BY <1>1, <1>3, <1>4, <1>8 DEF TypeOK
  <2>2. CallOK(r)'
    BY <1>1, <2>1 DEF DirectoryInv, CallOK, Statements, Doing
  <2>3. LoopOK(r)'
    BY <2>1 DEF LoopOK, InLoop, MemberSteps
  <2>4. CommitOK(r)'
    <3>1. CommitOK(r)
      BY DEF DirectoryInv
    <3>2. \A v \in Users : Columns(r, v)' = Columns(r, v) /\ Writes(r, v)' = Writes(r, v)
      BY <1>1 DEF Columns, Writes, Members
    <3> QED
      BY <1>1, <1>8, <3>1, <3>2 DEF CommitOK, Doing, IdsOf
  <2> QED
    BY <1>1, <1>6, <2>2, <2>3, <2>4, QuietKeeps, MoveKeeps DEF RequestOK, Quiet
<1>9. CASE pc[r] \notin {"begin", "commit"}
  <2>1. pc'[r] = "orphan" /\ err'[r] # "nil" /\ Quiet(r)
    BY <1>1, <1>2, <1>3, <1>9 DEF TypeOK, Quiet
  <2> QED
    BY <1>6, <2>1, FailureKeeps
<1> QED
  BY <1>7, <1>8, <1>9

LEMMA DeadlockDetectedKeeps ==
  ASSUME DirectoryInv, NEW r \in Requests, DeadlockDetected(r)
  PROVE  DirectoryInv'
<1>1. TypeOK
  BY DEF DirectoryInv
<1>2. Moves(r)
  BY <1>1, NoTxType, MemStays DEF DeadlockDetected, Moves, Steps, Errors
<1> QED
  BY <1>1, <1>2, FailureKeeps DEF DeadlockDetected, TypeOK, Quiet

-----------------------------------------------------------------------------
(* The end of a transaction. *)

(* CreateTeamWithMembers is the last method of any call that has it. *)
LEMMA LoopIsLast ==
  ASSUME TypeOK, NEW r \in Requests, stage[r] \in DOMAIN Plan(op[r].kind),
         stage[r] < Len(Plan(op[r].kind))
  PROVE  Doing(r) # "CreateTeamWithMembers" /\ stage[r] + 1 \in DOMAIN Plan(op[r].kind)
<1>1. op[r].kind \in Kinds /\ stage[r] \in Nat \ {0}
  BY RequestType DEF Calls
<1>2. Plan(op[r].kind) \in Seq(Methods)
  BY <1>1, PlanType
<1>3. stage[r] + 1 \in DOMAIN Plan(op[r].kind)
  BY <1>1, <1>2
<1>4. CASE op[r].kind \notin DOMAIN Handlers
  BY <1>1, <1>4 DEF Plan
<1>5. CASE op[r].kind \in {"SetIsActive", "ShowTeam"}
  <2>1. op[r].kind \in DOMAIN Handlers
    BY <1>5 DEF Handlers
  <2>2. \A i \in DOMAIN Plan(op[r].kind) : Plan(op[r].kind)[i] # "CreateTeamWithMembers"
    BY <1>5, <2>1 DEF Plan, Handlers
  <2> QED
    BY <1>3, <2>2 DEF Doing
<1>6. CASE op[r].kind = "AddTeam"
  <2>1. Plan(op[r].kind) = <<"CreateTeamWithMembers">>
    BY <1>6 DEF Plan, Handlers
  <2> QED
    BY <1>1, <2>1
<1> QED
  BY <1>3, <1>4, <1>5, <1>6 DEF Handlers

LEMMA EndTxMoves ==
  ASSUME DirectoryInv, NEW r \in Requests, EndTx(r)
  PROVE  /\ tx' \in [Requests -> Txs] /\ op' = op /\ stage' \in [Requests -> Nat \ {0}]
         /\ pc' \in [Requests -> Steps] /\ err' = err /\ mem' \in [Requests -> Mems]
         /\ tx'[r] = NoTx /\ pc'[r] \in {"begin", "done"} /\ CallOK(r)'
         /\ \A q \in Requests \ {r} :
              tx'[q] = tx[q] /\ stage'[q] = stage[q] /\ pc'[q] = pc[q] /\ mem'[q] = mem[q]
<1>1. /\ TypeOK /\ CallOK(r) /\ stage[r] \in DOMAIN Plan(op[r].kind)
      /\ tx \in [Requests -> Txs] /\ mem \in [Requests -> Mems]
  BY DEF DirectoryInv, CallOK, TypeOK, Txs, Mems
<1> DEFINE more == err[r] = "nil" /\ stage[r] < Len(Plan(op[r].kind))
<1>2. /\ tx' = [tx EXCEPT ![r] = NoTx]
      /\ pc' = [pc EXCEPT ![r] = IF more THEN "begin" ELSE "done"]
      /\ stage' = [stage EXCEPT ![r] = IF more THEN stage[r] + 1 ELSE stage[r]]
      /\ mem' = [mem EXCEPT ![r] = IF err[r] = "nil" THEN mem[r] ELSE Locals]
      /\ op' = op /\ err' = err
  BY <1>1 DEF EndTx, TypeOK
<1>3. /\ tx' \in [Requests -> Txs] /\ pc' \in [Requests -> Steps]
      /\ stage' \in [Requests -> Nat \ {0}] /\ mem' \in [Requests -> Mems]
  <2>1. stage' \in [Requests -> Nat \ {0}]
    BY <1>1, <1>2 DEF TypeOK
  <2>2. mem' \in [Requests -> Mems]
    BY <1>1, <1>2, LocalsType
  <2>3. tx' \in [Requests -> Txs]
    BY <1>1, <1>2, NoTxType
  <2>4. pc' \in [Requests -> Steps]
    BY <1>1, <1>2 DEF TypeOK, Steps
  <2> QED
    BY <2>1, <2>2, <2>3, <2>4
<1>4. /\ tx'[r] = NoTx /\ pc'[r] = (IF more THEN "begin" ELSE "done")
      /\ stage'[r] = (IF more THEN stage[r] + 1 ELSE stage[r])
      /\ mem'[r] = (IF err[r] = "nil" THEN mem[r] ELSE Locals)
  BY <1>1, <1>2 DEF TypeOK
<1>5. Locals.next = 1
  BY DEF Locals
<1>6. CallOK(r)'
  <2>1. CASE more
    <3>1. Doing(r) # "CreateTeamWithMembers" /\ stage[r] + 1 \in DOMAIN Plan(op[r].kind)
      BY <1>1, <2>1, LoopIsLast
    <3>2. mem[r].next = 1
      BY <1>1, <3>1 DEF CallOK
    <3>3. /\ op'[r] \in Workload /\ stage'[r] \in DOMAIN Plan(op'[r].kind)
          /\ pc'[r] = "begin" /\ tx'[r] = NoTx /\ mem'[r].next = 1
      BY <1>1, <1>2, <1>4, <2>1, <3>1, <3>2 DEF CallOK
    <3> QED
      BY <3>3 DEF CallOK, Statements
  <2>2. CASE ~more
    <3>1. Doing(r)' = Doing(r)
      BY <1>2, <1>4, <2>2 DEF Doing
    <3> QED
      BY <1>1, <1>2, <1>4, <1>5, <2>2, <3>1 DEF CallOK, Statements
  <2> QED
    BY <2>1, <2>2
<1> HIDE DEF more
<1> QED
  BY <1>1, <1>2, <1>3, <1>4, <1>6 DEF TypeOK

(* The tables after somebody else's transaction: rows only appear or       *)
(* change, and not those that q has written.                               *)
Grown(q) ==
  /\ teams \subseteq teams' /\ tx[q].teams \intersect teams' = {}
  /\ \A u \in Users : /\ Exists(users[u]) => Exists(users'[u])
                      /\ Writes(q, u) => users'[u] = users[u]

LEMMA GrownKeeps ==
  ASSUME DirectoryInv, NEW q \in Requests, Grown(q),
         tx'[q] = tx[q], op' = op, stage'[q] = stage[q], pc'[q] = pc[q], err' = err,
         mem'[q] = mem[q]
  PROVE  RequestOK(q)'
<1>1. WrittenOK(q) /\ CallOK(q) /\ LoopOK(q) /\ CommitOK(q) /\ TypeOK
  BY DEF DirectoryInv
<1>2. /\ Doing(q)' = Doing(q) /\ Members(q)' = Members(q) /\ IdsOf(q)' = IdsOf(q)
      /\ InLoop(q)' = InLoop(q)
  BY DEF Doing, Members, IdsOf, InLoop
<1>3. \A u \in Users : /\ Writes(q, u)' <=> Writes(q, u)
                       /\ Exists(UserRow(q, u)) => Exists(UserRow(q, u))'
                       /\ Writes(q, u) /\ Columns(q, u) => Columns(q, u)'
  <2> SUFFICES ASSUME NEW u \in Users
               PROVE  /\ Writes(q, u)' <=> Writes(q, u)
                      /\ Exists(UserRow(q, u)) => Exists(UserRow(q, u))'
                      /\ Writes(q, u) /\ Columns(q, u) => Columns(q, u)'
    OBVIOUS
  <2>1. Writes(q, u)' <=> Writes(q, u)
    BY DEF Writes
  <2>2. Exists(UserRow(q, u)) => Exists(UserRow(q, u))'
    BY DEF Grown, UserRow, Writes
  <2>3. Writes(q, u) /\ Columns(q, u) => Columns(q, u)'
    BY <1>2 DEF Grown, Columns
  <2> QED
    BY <2>1, <2>2, <2>3
<1>4. WrittenOK(q)'
  <2>1. \A t \in Teams : SeesTeam(q, t) => SeesTeam(q, t)'
    BY DEF Grown, SeesTeam
  <2> QED
    BY <1>1, <1>3, <2>1 DEF WrittenOK, Grown
<1>5. CallOK(q)'
  BY <1>1, <1>2 DEF CallOK, Invalid
<1>6. LoopOK(q)'
  <2>1. CASE InLoop(q)
    <3>1. /\ Members(q)[mem[q].next].id \in Users
      BY <2>1, AtLoop
    <3> QED
      BY <1>1, <1>2, <1>3, <2>1, <3>1 DEF LoopOK
  <2>2. CASE ~InLoop(q)
    BY <1>2, <2>2 DEF LoopOK
  <2> QED
    BY <2>1, <2>2
<1>7. CommitOK(q)'
  <2> SUFFICES ASSUME pc[q] \in {"commit", "orphanCommit"}
               PROVE  CommitOK(q)'
    BY DEF CommitOK
  <2> DEFINE u == op[q].user
             row == [name |-> op[q].name, state |-> op[q].state]
  <2>1. u \in Users /\ op[q].state \in Activity /\ ~Exists(NoUser) /\ tx[q] \in Txs
    BY <1>1, RequestType DEF Calls, Exists, NoUser
  <2>2. CASE /\ Doing(q) = "CreateTeamWithMembers"
             /\ tx[q].teams = {op[q].team} /\ tx[q].removed = {}
             /\ tx[q].added = {op[q].team} \X IdsOf(q)
             /\ \A v \in Users : Writes(q, v) => v \in IdsOf(q) /\ Columns(q, v)
    BY <1>2, <1>3, <2>2 DEF CommitOK
  <2>3. CASE \/ Doing(q) = "CreateTeam" /\ tx[q] = [NoTx EXCEPT !.teams = {op[q].team}]
             \/ Doing(q) = "AddMember" /\ tx[q] = [NoTx EXCEPT !.added = {<<op[q].team, u>>}]
             \/ /\ Doing(q) = "RemoveMember"
                /\ tx[q] = [NoTx EXCEPT !.removed = {<<op[q].team, u>>}]
    BY <1>2, <2>3 DEF CommitOK
  <2>4. CASE /\ Doing(q) = "CreateUser" /\ ~Exists(users[u]) /\ row \in Rows
             /\ tx[q] = [NoTx EXCEPT !.users[u] = row]
    <3>1. tx[q].users[u] = row /\ Exists(row)
      BY <2>1, <2>4 DEF NoTx, Rows, Activity, Exists
    <3>2. users'[u] = users[u]
      BY <2>1, <3>1 DEF Grown, Writes
    <3> QED
      BY <1>2, <2>4, <3>2 DEF CommitOK
  <2>5. CASE /\ Doing(q) = "UpdateUserActive" /\ Exists(users[u])
             /\ tx[q] = [NoTx EXCEPT !.users[u] = [users[u] EXCEPT !.state = row.state]]
    <3>1. tx[q].users[u] = [users[u] EXCEPT !.state = row.state]
      BY <2>1, <2>5 DEF NoTx
    <3>2. Exists(tx[q].users[u])
      BY <1>1, <2>1, <3>1 DEF TypeOK, UserRows, Exists, Activity
    <3>3. users'[u] = users[u]
      BY <2>1, <3>2 DEF Grown, Writes
    <3> QED
      BY <1>2, <2>5, <3>3 DEF CommitOK
  <2>6. CASE /\ Doing(q) = "UpdateUserName" /\ Exists(users[u]) /\ row \in Rows
             /\ tx[q] = [NoTx EXCEPT !.users[u] = [users[u] EXCEPT !.name = row.name]]
    <3>1. tx[q].users[u] = [users[u] EXCEPT !.name = row.name]
      BY <2>1, <2>6 DEF NoTx
    <3>2. Exists(tx[q].users[u])
      BY <1>1, <2>1, <2>6, <3>1 DEF TypeOK, UserRows, Exists
    <3>3. users'[u] = users[u]
      BY <2>1, <3>2 DEF Grown, Writes
    <3> QED
      BY <1>2, <2>6, <3>3 DEF CommitOK
  <2> QED
    BY <1>1, <2>2, <2>3, <2>4, <2>5, <2>6 DEF CommitOK
<1> QED
  BY <1>4, <1>5, <1>6, <1>7 DEF RequestOK

(* A transaction that ended leaves tables that the others can live with.   *)
LEMMA EndKeeps ==
  ASSUME DirectoryInv, NEW r \in Requests, EndTx(r), TablesOK',
         users' \in [Users -> UserRows], teams' \in SUBSET Teams,
         team_members' \in SUBSET (Teams \X Users),
         \A q \in Requests \ {r} : Grown(q)
  PROVE  DirectoryInv'
<1>1. TypeOK'
  BY EndTxMoves DEF DirectoryInv, TypeOK, Txs, Mems
<1>2. RequestOK(r)'
  <2>1. /\ tx'[r].teams = {} /\ tx'[r].added = {}
        /\ \A u \in Users : tx'[r].users[u] = NoUser
    BY EndTxMoves DEF NoTx
  <2>2. WrittenOK(r)'
    BY <2>1 DEF WrittenOK
  <2>3. LoopOK(r)' /\ CommitOK(r)'
    BY EndTxMoves DEF LoopOK, InLoop, MemberSteps, CommitOK
  <2> QED
    BY <2>2, <2>3, EndTxMoves DEF RequestOK
<1>3. \A q \in Requests \ {r} : RequestOK(q)'
  BY EndTxMoves, GrownKeeps
<1>4. Exclusive'
  <2>1. tx'[r].teams = {} /\ \A u \in Users : ~Exists(tx'[r].users[u])
    BY EndTxMoves DEF NoTx, NoUser, Exists
  <2> QED
    BY <2>1, EndTxMoves DEF DirectoryInv, Exclusive, Writes
<1> QED
  BY <1>1, <1>2, <1>3, <1>4 DEF DirectoryInv, RequestOK

LEMMA DiscardKeeps ==
  ASSUME DirectoryInv, NEW r \in Requests, UNCHANGED tables, EndTx(r)
  PROVE  DirectoryInv'
<1>1. TablesOK'
  BY DEF DirectoryInv, TablesOK, tables
<1>2. \A q \in Requests \ {r} : Grown(q)
  BY DEF DirectoryInv, WrittenOK, Grown, tables
<1> QED
  BY <1>1, <1>2, EndKeeps DEF DirectoryInv, TypeOK, tables

LEMMA PublishKeeps ==
  ASSUME DirectoryInv, NEW r \in Requests, Publish(r), EndTx(r)
  PROVE  DirectoryInv'
<1>1. TypeOK /\ TablesOK /\ WrittenOK(r) /\ Exclusive /\ tx[r] \in Txs
  BY RequestType DEF DirectoryInv
<1>2. /\ teams' = teams \union tx[r].teams /\ team_members' = SeesMembers(r)
      /\ \A u \in Users : users'[u] = UserRow(r, u)
  BY DEF Publish
<1>3. \A u \in Users : /\ Exists(users[u]) => Exists(users'[u])
                       /\ ~Writes(r, u) => users'[u] = users[u]
  BY <1>2 DEF UserRow, Writes
<1>4. TablesOK'
  <2>1. \A u \in Users : users'[u] \in {NoUser} \union Rows
    BY <1>1, <1>2 DEF TablesOK, WrittenOK, UserRow
  <2>2. ASSUME NEW t \in Teams, NEW u \in Users, <<t, u>> \in team_members'
        PROVE  t \in teams' /\ Exists(users'[u])
    <3>1. CASE <<t, u>> \in team_members
      BY <1>1, <1>2, <1>3, <3>1 DEF TablesOK
    <3>2. CASE <<t, u>> \in tx[r].added
      BY <1>1, <1>2, <3>2 DEF WrittenOK, SeesTeam
    <3> QED
      BY <1>2, <2>2, <3>1, <3>2 DEF SeesMembers
  <2> QED
    BY <2>1, <2>2 DEF TablesOK
<1>5. ASSUME NEW q \in Requests \ {r}
      PROVE  Grown(q)
  <2>1. tx[q].teams \intersect teams' = {}
    BY <1>1, <1>2 DEF DirectoryInv, WrittenOK, Exclusive
  <2>2. \A u \in Users : Writes(q, u) => users'[u] = users[u]
    BY <1>1, <1>3 DEF Exclusive
  <2> QED
    BY <1>2, <1>3, <2>1, <2>2 DEF Grown
<1>6. /\ users' \in [Users -> UserRows] /\ teams' \in SUBSET Teams
      /\ team_members' \in SUBSET (Teams \X Users)
  <2>1. users' \in [Users -> UserRows]
    BY <1>1, UserRowType DEF Publish
  <2>2. teams' \in SUBSET Teams /\ team_members' \in SUBSET (Teams \X Users)
    BY <1>1, <1>2 DEF TypeOK, Txs, SeesMembers
  <2> QED
    BY <2>1, <2>2
<1> QED
  BY <1>4, <1>5, <1>6, EndKeeps

-----------------------------------------------------------------------------
(* The invariant. *)

LEMMA InitInv == Init => DirectoryInv
<1> SUFFICES ASSUME Init
             PROVE  DirectoryInv
  OBVIOUS
<1>1. PICK d \in Directories : users = d.users /\ teams = d.teams /\ team_members = d.members
  BY DEF Init
<1>2. /\ users \in [Users -> {NoUser} \union Rows] /\ teams \subseteq Teams
      /\ team_members \subseteq {p \in teams \X Users : Exists(users[p[2]])}
  BY <1>1, DirectoryAssumption DEF Rows
<1>3. TablesOK
  BY <1>2 DEF TablesOK
<1>4. TypeOK
  <2>1. {NoUser} \union Rows \subseteq UserRows
    BY DEF NoUser, Rows, UserRows
  <2>2. users \in [Users -> UserRows] /\ team_members \in SUBSET (Teams \X Users)
    BY <1>2, <2>1
  <2>3. op \in [Requests -> Calls]
    BY WorkloadAssumption DEF Init
  <2>4. tx \in [Requests -> Txs] /\ mem \in [Requests -> Mems]
    BY NoTxType, LocalsType DEF Init
  <2> QED
    BY <1>2, <2>2, <2>3, <2>4 DEF Init, TypeOK, Steps, Errors, Txs, Mems
<1>5. ASSUME NEW r \in Requests
      PROVE  RequestOK(r)
  <2>1. tx[r] = NoTx /\ pc[r] = "begin" /\ mem[r].next = 1 /\ stage[r] = 1
    BY DEF Init, Locals
  <2>2. stage[r] \in DOMAIN Plan(op[r].kind)
    <3>1. Plan(op[r].kind) \in Seq(Methods) /\ Plan(op[r].kind) # <<>>
      BY <1>4, RequestType, PlanType DEF Calls
    <3> QED
      BY <2>1, <3>1
  <2>3. WrittenOK(r)
    BY <2>1 DEF WrittenOK, NoTx
  <2>4. CallOK(r)
    BY <2>1, <2>2 DEF Init, CallOK, Statements
  <2>5. LoopOK(r) /\ CommitOK(r)
    BY <2>1 DEF LoopOK, InLoop, MemberSteps, CommitOK
  <2> QED
    BY <2>3, <2>4, <2>5 DEF RequestOK
<1>6. Exclusive
  <2>1. ~Exists(NoUser)
    BY DEF Exists, NoUser
  <2> QED
    BY <2>1 DEF Init, Exclusive, NoTx, Writes
<1> QED
  BY <1>3, <1>4, <1>5, <1>6 DEF DirectoryInv, RequestOK

LEMMA NextInv == DirectoryInv /\ [Next]_vars => DirectoryInv'
<1> SUFFICES ASSUME DirectoryInv, [Next]_vars
             PROVE  DirectoryInv'
  OBVIOUS
<1>1. CASE UNCHANGED vars
  <2>1. TypeOK'
    BY <1>1 DEF vars, DirectoryInv, TypeOK
  <2>2. TablesOK' /\ Exclusive'
    BY <1>1 DEF vars, DirectoryInv, TablesOK, Exclusive, Writes
  <2>3. \A q \in Requests : Grown(q)
    BY <1>1 DEF vars, DirectoryInv, WrittenOK, Grown
  <2>4. \A q \in Requests : RequestOK(q)'
    BY <1>1, <2>3, GrownKeeps DEF vars
  <2> QED
    BY <2>1, <2>2, <2>4 DEF DirectoryInv, RequestOK
<1>2. ASSUME NEW r \in Requests, Step(r) PROVE DirectoryInv'
  <2>1. CASE Reject(r)
    BY <2>1, RejectKeeps
  <2>2. CASE Begin(r)
    BY <2>2, BeginKeeps
  <2>3. CASE TeamStep(r)
    BY <2>3, InsertTeamKeeps, FindMemberKeeps, InsertMemberKeeps, FetchAfterConflictKeeps,
       SetMemberActiveKeeps, SetMemberNameKeeps, EnrolMemberKeeps, FindTeamKeeps,
       FindUserOfTeamKeeps, EnrolKeeps, DismissKeeps, ReadTeamsKeeps DEF TeamStep
  <2>4. CASE AccountStep(r)
    BY <2>4, InsertUserKeeps, FindUserKeeps, SetActiveKeeps, RenameKeeps, FindTeamOfUserKeeps,
       ReadTeamNameKeeps, ReadUsersKeeps DEF AccountStep
  <2>5. CASE Commit(r)
    BY <2>5, PublishKeeps DEF Commit
  <2>6. CASE Rollback(r)
    BY <2>6, DiscardKeeps DEF Rollback
  <2> QED
    BY <1>2, <2>1, <2>2, <2>3, <2>4, <2>5, <2>6 DEF Step
<1>3. ASSUME NEW r \in Requests, Settle(r) PROVE DirectoryInv'
  <2>1. CASE ServerAborts(r)
    BY <2>1, DiscardKeeps DEF ServerAborts
  <2>2. CASE ServerCommits(r)
    BY <2>2, PublishKeeps DEF ServerCommits
  <2>3. CASE DeadlockDetected(r)
    BY <2>3, DeadlockDetectedKeeps
  <2> QED
    BY <1>3, <2>1, <2>2, <2>3 DEF Settle
<1> QED
  BY <1>1, <1>2, <1>3, CallFailsKeeps DEF Next

(* Whatever runs at the same time and whichever calls fail: a transaction  *)
(* that is about to commit holds what its method promises and nothing      *)
(* else, no two transactions have written the same user or created the     *)
(* same team, and every membership has its team and its user.              *)
THEOREM Invariance == Spec => []DirectoryInv
<1> QED
  BY InitInv, NextInv, PTL DEF Spec

(* Every variable keeps its type.                                          *)
THEOREM TypeCorrect == Spec => []TypeOK
<1>1. DirectoryInv => TypeOK
  BY DEF DirectoryInv
<1> QED
  BY <1>1, Invariance, PTL
==============================================================================
