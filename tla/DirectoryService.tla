--------------------------- MODULE DirectoryService ---------------------------
(***************************************************************************)
(* The team and user services over one database, called by the handlers of *)
(* /team/add, /team/get and /users/setIsActive or one method at a time:    *)
(* any number of requests at once, each one at some step of its call.      *)
(***************************************************************************)
EXTENDS UserAccounts

Steps == {"begin", "createTeam", "getTeam", "getTeamByName", "listTeams", "addMember",
          "removeMember", "createUser", "getUser", "refetch", "updateActive",
          "updateName", "listUsers", "listMembers", "getUserTeam",
          "commit", "rollback", "orphan", "orphanCommit", "done"}

Errors == {"nil", "ErrInvalidArgument", "ErrAlreadyExists", "ErrNotFound", "ErrTeamNotFound",
           "ErrUserNotFound", "ErrUserExists", "ErrUserNoTeam", "ErrInternal"}

Init ==
  /\ \E d \in Directories : users = d.users /\ teams = d.teams /\ team_members = d.members
  /\ tx = [r \in Requests |-> NoTx]
  /\ op \in [Requests -> Workload]
  /\ stage = [r \in Requests |-> 1]
  /\ pc = [r \in Requests |-> "begin"]
  /\ err = [r \in Requests |-> "nil"]
  /\ mem = [r \in Requests |-> Locals]

Step(r) ==
  \/ Reject(r) \/ Begin(r)
  \/ TeamStep(r) \/ AccountStep(r)
  \/ Commit(r) \/ Rollback(r)

(* What the server does of its own accord.                                 *)
Settle(r) == ServerAborts(r) \/ ServerCommits(r) \/ DeadlockDetected(r)

Quiescent == \A r \in Requests : pc[r] = "done"

Next ==
  \/ \E r \in Requests : Step(r) \/ Settle(r) \/ CallFails(r)
  \/ Quiescent /\ UNCHANGED vars

Spec == Init /\ [][Next]_vars

-----------------------------------------------------------------------------
(* Properties.                                                             *)

Listing == [id : Users, row : UserRows]

(* Type correctness of every variable. *)
TypeOK ==
  /\ users \in [Users -> UserRows]
  /\ teams \in SUBSET Teams
  /\ team_members \in SUBSET (Teams \X Users)
  /\ tx \in [Requests -> [users : [Users -> UserRows], teams : SUBSET Teams,
                         added : SUBSET (Teams \X Users), removed : SUBSET (Teams \X Users),
                         status : {"open", "failed"}]]
  /\ op \in [Requests -> Calls]
  /\ stage \in [Requests -> Nat \ {0}]
  /\ pc \in [Requests -> Steps]
  /\ err \in [Requests -> Errors]
  /\ mem \in [Requests -> [user : UserRows, team : Teams \union {None},
                          listed : SUBSET Listing, next : Nat \ {0}]]

(* The services implement Teams: whatever runs at the same time and        *)
(* whichever calls fail, a team appears with its members and the users     *)
(* they need, or not at all; no column changes unless somebody asked.      *)
Specification ==
  INSTANCE Teams WITH Lists <- {<<>>} \union {call.members : call \in Workload}

ImplementsTeams == Specification!Spec

(* The pull-request half is right about this one.  Where only routes are   *)
(* called, the states and memberships change as in Membership: each commit *)
(* adds a team with all its members or sets the state of one user.         *)
TeamOf(call, state) ==
  [team |-> call.team, members |-> {call.members[i].id : i \in DOMAIN call.members},
   state |-> state]

AsListed(call, state) ==
  /\ call.kind \in {"AddTeam", "CreateTeamWithMembers"}
  /\ \A u \in TeamOf(call, state).members :
       /\ u \in Users
       /\ \E i \in DOMAIN call.members :
            call.members[i].id = u /\ call.members[i].state = state[u]

TeamsAsked ==
  {TeamOf(asked[1], asked[2]) :
     asked \in {p \in Workload \X [Users -> Activity] : AsListed(p[1], p[2])}}

States == [u \in Users |-> users[u].state]

Shared == INSTANCE Membership WITH NewTeams <- TeamsAsked, users <- States

ImplementsMembership == Shared!Spec

(* Those methods that create users and move members have no route. *)
OnlyRoutesWrite ==
  \A call \in Workload : call.kind \notin {"CreateUser", "AddMember", "RemoveMember"}

Answered(r) == pc[r] \in {"done", "orphan", "orphanCommit"}

Creates(r) == op[r].kind \in {"AddTeam", "CreateTeamWithMembers"}
IdsOf(r) == {op[r].members[i].id : i \in DOMAIN op[r].members}

(* The requests that may have changed u by now. *)
Changers(u) ==
  {q \in Requests :
     /\ Answered(q) \/ stage[q] > 1
     /\ \/ Creates(q) /\ u \in IdsOf(q)
        \/ op[q].user = u /\ op[q].kind \in {"SetIsActive", "UpdateUserActive",
                                              "UpdateUserName", "CreateUser"}}

(* Those of them that asked for this state of u. *)
Askers(u, state) ==
  {q \in Changers(u) :
     IF Creates(q)
     THEN \E i \in DOMAIN op[q].members :
            op[q].members[i].id = u /\ op[q].members[i].state = state
     ELSE op[q].kind # "UpdateUserName" /\ op[q].state = state}

NamedOnce(r, u) ==
  \A i, j \in DOMAIN op[r].members :
    op[r].members[i].id = u /\ op[r].members[j].id = u => i = j

(* The statements of the loop of CreateTeamWithMembers. *)
MemberSteps == {"getUser", "createUser", "updateActive", "updateName", "addMember"}

(* The rows CreateTeamWithMembers is going to answer, or has answered, and *)
(* the one it has read of the current member and is going to add.          *)
Composing(r) ==
  /\ Doing(r) = "CreateTeamWithMembers"
  /\ pc[r] \in MemberSteps \union {"commit"} \/ (pc[r] = "done" /\ err[r] = "nil")

Expects(r) ==
  mem[r].listed \union
    IF pc[r] \in {"updateActive", "updateName", "addMember"}
    THEN {[id |-> Subject(r), row |-> mem[r].user]} ELSE {}

AsExpected(r, u) == \A e \in Expects(r) : e.id = u => e.row = UserRow(r, u)

(* Another request commits what it has written of u, and r has not written *)
(* him itself.                                                             *)
Overtakes(r, u) ==
  /\ ~Writes(r, u)
  /\ \E q \in Requests \ {r} : Writes(q, u) /\ Publish(q) /\ EndTx(q)

(* CreateTeamWithMembers writes only the columns that differ from a row it *)
(* read without a lock and answers with the row it expects.  From the      *)
(* instant it has read or created a member up to its answer that row is    *)
(* the one it will leave in the table; the two begin to differ only at the *)
(* instant another request commits a change of that member, and never once *)
(* it has written him.                                                     *)
AnsweredAsCommittedUnlessOvertaken ==
  [][\A r \in Requests : \A u \in Users :
       NamedOnce(r, u) /\ Composing(r)' /\ ~AsExpected(r, u)' =>
         (Composing(r) /\ ~AsExpected(r, u)) \/ Overtakes(r, u)]_vars

(* Lists that name their members in an order common to all of them never   *)
(* end in a deadlock, whatever other calls change the same users.          *)
Follows(rank, list) ==
  \A i, j \in DOMAIN list : i < j => rank[list[i].id] < rank[list[j].id]

NoDeadlockInCommonOrder ==
  \A rank \in [Users -> 1 .. Cardinality(Users)] :
    (\A r \in Requests : Creates(r) => Follows(rank, Members(r))) =>
      \A r \in Requests : ~InCycle(r)

(* A team that is shown by /team/get, in two transactions, is shown with   *)
(* all the members it was created with, unless somebody removes members.   *)
ShownTeamIsComplete ==
  \A r, q \in Requests :
    /\ op[r].kind = "ShowTeam" /\ Answered(r) /\ err[r] = "nil"
    /\ Creates(q) /\ op[q].team = op[r].team /\ Answered(q) /\ err[q] = "nil"
    /\ \A p \in Requests : op[p].kind # "RemoveMember"
    => IdsOf(q) \subseteq {e.id : e \in mem[r].listed}

(* /users/setIsActive updates, reads and looks for a team in three         *)
(* transactions.  An answer "not found" means that nothing was changed;    *)
(* the team it found by a membership exists; and a state other than the    *)
(* requested one is answered only if another request that has ended, if    *)
(* only in doubt, asked for that state of the user.                        *)
SetIsActiveIsConsistent ==
  \A r \in Requests : op[r].kind = "SetIsActive" =>
    /\ err[r] = "ErrUserNotFound" => stage[r] = 1
    /\ err[r] # "ErrTeamNotFound"
    /\ Answered(r) /\ err[r] = "nil" =>
         mem[r].user.state = op[r].state \/ Askers(op[r].user, mem[r].user.state) \ {r} # {}

(* docs/openapi.yml: /team/add creates and updates users.  When every call *)
(* has succeeded, each user is as one of them sent him.                    *)
UsersAreAsSent ==
  Quiescent /\ (\A r \in Requests : Creates(r) /\ err[r] = "nil") =>
    \A u \in Users :
      (\E r \in Requests : u \in IdsOf(r)) =>
        \E r \in Requests : \E i \in DOMAIN op[r].members :
          op[r].members[i] = [id |-> u, name |-> users[u].name, state |-> users[u].state]
==============================================================================
