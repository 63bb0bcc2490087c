------------------------------- MODULE Directory -------------------------------
(***************************************************************************)
(* Users, teams and memberships: the tables users, teams and team_members  *)
(* of migrations/000001_init_tables.up.sql behind the unit of work, for    *)
(* the team service and the user service.                                  *)
(*                                                                         *)
(* A request is a call of a handler or of a service.  A handler may call   *)
(* several methods of the services, one after the other, each in a         *)
(* transaction of its own at READ COMMITTED.  Who has written a row and    *)
(* not committed it holds its lock: locks need no variables here.          *)
(***************************************************************************)
EXTENDS Naturals, Sequences, FiniteSets

CONSTANTS
  Users,        \* primary keys of users
  Teams,        \* teams; a team is known by its unique name
  Names,        \* values of users.name
  Requests,     \* requests, each with its own connection
  Workload,     \* the calls a request may be
  Directories,  \* contents of the tables at the start
  MaxConns,     \* size of the pgxpool
  None          \* SQL NULL, the empty string of Go

Activity == {"active", "inactive"}

(* A row of users; NoUser where there is none. *)
UserRows == [name : Names \union {None}, state : Activity \union {"absent"}]
NoUser == [name |-> None, state |-> "absent"]
Exists(row) == row.state # "absent"

(* An element of the list of members given to CreateTeamWithMembers.  The  *)
(* validator does not dive into the list: empty fields get this far.       *)
Specs == [id : Users \union {None}, name : Names \union {None}, state : Activity]

(* The methods of the services.                                            *)
Methods == {"CreateTeam", "CreateTeamWithMembers", "AddMember", "RemoveMember",
            "GetTeam", "GetTeamByName", "ListTeams",
            "CreateUser", "UpdateUserActive", "UpdateUserName",
            "GetUser", "ListUsers", "GetUserTeamName", "ListMembersByTeamID"}

(* Mutation: the user is read before he is updated. *)
HandlersReadFirst == [SetIsActive |-> <<"GetUser", "UpdateUserActive", "GetUserTeamName">>,
                      AddTeam |-> <<"CreateTeamWithMembers">>,
                      ShowTeam |-> <<"GetTeamByName", "ListMembersByTeamID">>]

(* The handlers of /users/setIsActive, /team/add and /team/get, with the   *)
(* methods they call; every other call is of one method alone.             *)
Handlers == [SetIsActive |-> <<"UpdateUserActive", "GetUser", "GetUserTeamName">>,
             AddTeam |-> <<"CreateTeamWithMembers">>,
             ShowTeam |-> <<"GetTeamByName", "ListMembersByTeamID">>]

Kinds == Methods \union DOMAIN Handlers

Plan(kind) == IF kind \in DOMAIN Handlers THEN Handlers[kind] ELSE <<kind>>

(* A call with its arguments; it ignores those it does not have. *)
Calls == [kind : Kinds, team : Teams, user : Users, name : Names \union {None},
          state : Activity, members : Seq(Specs)]

ASSUME NullAssumption == None \notin Users \union Teams \union Names \union Requests

ASSUME FiniteAssumption == IsFiniteSet(Users) /\ IsFiniteSet(Requests)

ASSUME WorkloadAssumption == Workload \subseteq Calls

ASSUME DirectoryAssumption ==
  \A d \in Directories :
    /\ d.users \in [Users -> {NoUser} \union [name : Names, state : Activity]]
    /\ d.teams \subseteq Teams
    /\ d.members \subseteq {p \in d.teams \X Users : Exists(d.users[p[2]])}

ASSUME PoolAssumption == MaxConns \in Nat \ {0}

VARIABLES
  users,         \* table users
  teams,         \* table teams
  team_members,  \* table team_members: a set of <<team, user>>
  tx,            \* what each transaction has written and not committed
  op,            \* the call each request makes
  stage,         \* which of its methods it is in
  pc,            \* the statement it is about to execute
  err,           \* the error it returns, "nil" when there is none
  mem            \* the Go variables that outlive a statement

tables == <<users, teams, team_members>>
vars == <<users, teams, team_members, tx, op, stage, pc, err, mem>>

-----------------------------------------------------------------------------
NoTx == [users |-> [u \in Users |-> NoUser], teams |-> {}, added |-> {}, removed |-> {},
         status |-> "open"]

(* The server has rejected a statement: nothing the transaction wrote is   *)
(* left, and it executes nothing more (25P02) until it is rolled back.     *)
Aborted == [NoTx EXCEPT !.status = "failed"]

Writes(r, u) == Exists(tx[r].users[u])

(* The tables as the transaction of r sees them. *)
UserRow(r, u) == IF Writes(r, u) THEN tx[r].users[u] ELSE users[u]
SeesTeam(r, t) == t \in teams \union tx[r].teams
SeesMembers(r) == (team_members \ tx[r].removed) \union tx[r].added

Doing(r) == Plan(op[r].kind)[stage[r]]

(* Mutation: the list is kept in a map, whose order is not that of the list. *)
MemberOfMap(r) ==
  LET list == op[r].members
      backwards == op[r].team = CHOOSE t \in Teams : TRUE
  IN  list[IF backwards THEN Len(list) + 1 - mem[r].next ELSE mem[r].next]

(* The user and the membership a statement of r is about. *)
Member(r) == op[r].members[mem[r].next]
Subject(r) == IF Doing(r) = "CreateTeamWithMembers" THEN Member(r).id ELSE op[r].user
Pair(r) == <<op[r].team, Subject(r)>>

(* The transactions the next statement of r has to wait for: an INSERT for *)
(* an uncommitted version of its key, an UPDATE or DELETE for an           *)
(* uncommitted version of a row it can see.                                *)
BlockedBy(r) ==
  {q \in Requests \ {r} :
     \/ pc[r] = "createTeam" /\ op[r].team \in tx[q].teams
     \/ pc[r] = "createUser" /\ Writes(q, Subject(r))
     \/ /\ pc[r] \in {"updateActive", "updateName"}
        /\ Exists(users[Subject(r)]) /\ Writes(q, Subject(r))
     \/ pc[r] = "addMember" /\ Pair(r) \in tx[q].added \union tx[q].removed
     \/ pc[r] = "removeMember" /\ Pair(r) \in tx[q].removed}

Ready(r, label) == pc[r] = label /\ BlockedBy(r) = {}

(* The requests that own a connection of the pool. *)
Connected ==
  {r \in Requests : pc[r] \notin {"begin", "done", "orphan", "orphanCommit"}}

(* The first statement of every method. *)
First ==
  [CreateTeam |-> "createTeam", CreateTeamWithMembers |-> "createTeam",
   AddMember |-> "getTeam", RemoveMember |-> "getTeam", GetTeam |-> "getTeam",
   GetTeamByName |-> "getTeamByName", ListTeams |-> "listTeams",
   CreateUser |-> "createUser", UpdateUserActive |-> "getUser",
   UpdateUserName |-> "updateName", GetUser |-> "getUser", ListUsers |-> "listUsers",
   GetUserTeamName |-> "getUserTeam", ListMembersByTeamID |-> "listMembers"]

(* The arguments the services refuse before they begin.                    *)
Invalid(r) ==
  \/ Doing(r) \in {"CreateUser", "UpdateUserName"} /\ op[r].name = None
  \/ /\ Doing(r) = "CreateTeamWithMembers"
     /\ \E i \in DOMAIN op[r].members : op[r].members[i].id = None

Reject(r) ==
  /\ pc[r] = "begin" /\ Invalid(r)
  /\ pc' = [pc EXCEPT ![r] = "done"]
  /\ err' = [err EXCEPT ![r] = "ErrInvalidArgument"]
  /\ UNCHANGED <<users, teams, team_members, tx, op, stage, mem>>

(* Mutation: a transaction inside a transaction, on two connections. *)
BeginTwice(r) ==
  /\ pc[r] = "begin" /\ ~Invalid(r) /\ Cardinality(Connected) + 1 < MaxConns
  /\ pc' = [pc EXCEPT ![r] = First[Doing(r)]]
  /\ UNCHANGED <<users, teams, team_members, tx, op, stage, err, mem>>

(* uow.Begin: a connection and a transaction. *)
Begin(r) ==
  /\ pc[r] = "begin" /\ ~Invalid(r) /\ Cardinality(Connected) < MaxConns
  /\ pc' = [pc EXCEPT ![r] = First[Doing(r)]]
  /\ UNCHANGED <<users, teams, team_members, tx, op, stage, err, mem>>

(* The Go variables of a request before its first assignment. *)
Locals == [user |-> NoUser, team |-> None, listed |-> {}, next |-> 1]

(* The server ends the transaction of r.  The request goes on with the     *)
(* next method of its handler, or is answered.                             *)
EndTx(r) ==
  LET more == err[r] = "nil" /\ stage[r] < Len(Plan(op[r].kind))
  IN  /\ tx' = [tx EXCEPT ![r] = NoTx]
      /\ pc' = [pc EXCEPT ![r] = IF more THEN "begin" ELSE "done"]
      /\ stage' = [stage EXCEPT ![r] = IF more THEN @ + 1 ELSE @]
      /\ mem' = [mem EXCEPT ![r] = IF err[r] = "nil" THEN @ ELSE Locals]
      /\ UNCHANGED <<op, err>>

(* The writes of r become the committed rows. *)
Publish(r) ==
  /\ users' = [u \in Users |-> UserRow(r, u)]
  /\ teams' = teams \union tx[r].teams
  /\ team_members' = SeesMembers(r)

(* Transaction.Commit, acknowledged by the server. *)
Commit(r) == pc[r] = "commit" /\ Publish(r) /\ EndTx(r)

(* The deferred Transaction.Rollback, which is also how a method that only *)
(* reads ends.                                                             *)
Rollback(r) == pc[r] = "rollback" /\ UNCHANGED tables /\ EndTx(r)

-----------------------------------------------------------------------------
(* The context ends or the connection breaks, as in Store: the request     *)
(* returns an error at once, the server ends the transaction later, and a  *)
(* COMMIT that was on its way may have been executed.  A Rollback that     *)
(* fails after nothing but reads changes nothing anybody can see.          *)
CallFails(r) ==
  /\ pc[r] \notin {"done", "orphan", "orphanCommit"}
  /\ ~(pc[r] = "rollback" /\ err[r] = "nil")
  /\ err' = [err EXCEPT ![r] = CASE pc[r] = "rollback" -> @
                                [] pc[r] = "refetch" -> "ErrUserExists"
                                [] OTHER -> "ErrInternal"]
  /\ pc' = [pc EXCEPT ![r] = IF @ = "begin" THEN "done"
                             ELSE IF @ = "commit" THEN "orphanCommit"
                             ELSE "orphan"]
  /\ mem' = [mem EXCEPT ![r] = Locals]
  /\ UNCHANGED <<users, teams, team_members, tx, op, stage>>

ServerAborts(r) ==
  pc[r] \in {"orphan", "orphanCommit"} /\ UNCHANGED tables /\ EndTx(r)

ServerCommits(r) == pc[r] = "orphanCommit" /\ Publish(r) /\ EndTx(r)

(* The requests that wait for each other in a circle. *)
InCycle(r) ==
  \E C \in SUBSET Requests :
    /\ r \in C
    /\ \A q \in C : BlockedBy(q) \intersect C # {}
    /\ \A q \in C : \E p \in C : q \in BlockedBy(p)

(* PostgreSQL's deadlock detector (40P01) ends the statement of one of     *)
(* them with an error no repository knows.                                 *)
DeadlockDetected(r) ==
  /\ InCycle(r)
  /\ tx' = [tx EXCEPT ![r] = Aborted]
  /\ err' = [err EXCEPT ![r] = "ErrInternal"]
  /\ pc' = [pc EXCEPT ![r] = "rollback"]
  /\ UNCHANGED <<users, teams, team_members, op, stage, mem>>
==============================================================================
