--------------------------- MODULE DirectoryTheorems ---------------------------
(***************************************************************************)
(* What follows from DirectoryInv, for any values of the constants.        *)
(*                                                                         *)
(* DirectoryService implements Teams: the tables change when a transaction *)
(* ends with a COMMIT, and then by one operation of Teams; and where only  *)
(* routes are called, by one of Membership, as the other half assumes.     *)
(*                                                                         *)
(* Lists that name their members in a common order never end in a          *)
(* deadlock; and in any deadlock, or without one, somebody goes on, and    *)
(* every step brings a call nearer to its end.                             *)
(***************************************************************************)
EXTENDS DirectoryAnswers, DirectoryProgress

-----------------------------------------------------------------------------
(* Refinement. *)

TeamLists == {<<>>} \union {call.members : call \in Workload}

(* A user who is there, to the services and to the specification. *)
LEMMA SameExists ==
  ASSUME TablesOK, NEW u \in Users
  PROVE  Specification!Exists(u) <=> Exists(users[u])
<1>1. users[u] \in {NoUser} \union Rows
  BY DEF TablesOK
<1> QED
  BY <1>1 DEF Specification!Exists, Specification!NoUser, NoUser, Exists, Rows, Activity

LEMMA InitImplements == Init => Specification!Init
<1> SUFFICES ASSUME Init
             PROVE  Specification!Init
  OBVIOUS
<1>1. TypeOK /\ TablesOK
  BY InitInv DEF DirectoryInv
<1>2. users \in [Users -> {NoUser} \union Rows]
  BY <1>1 DEF TypeOK, TablesOK
<1>3. team_members \subseteq {p \in teams \X Users : Specification!Exists(p[2])}
  <2> SUFFICES ASSUME NEW t \in Teams, NEW u \in Users, <<t, u>> \in team_members
               PROVE  t \in teams /\ Specification!Exists(u)
    BY <1>1 DEF TypeOK
  <2> QED
    BY <1>1, SameExists DEF TablesOK
<1> QED
  BY <1>1, <1>2, <1>3 DEF Specification!Init, Specification!NoUser, Specification!Activity,
     NoUser, Rows, Activity, TypeOK

(* What a COMMIT does to users: nothing but the rows it has written.       *)
LEMMA PublishedUsers ==
  ASSUME TypeOK, NEW r \in Requests, Publish(r)
  PROVE  /\ \A u \in Users : users'[u] = IF Writes(r, u) THEN tx[r].users[u] ELSE users[u]
         /\ (\A u \in Users : ~Writes(r, u)) => users' = users
<1>1. users' = [u \in Users |-> UserRow(r, u)] /\ users = [u \in Users |-> users[u]]
  BY DEF Publish, TypeOK
<1> QED
  BY <1>1 DEF UserRow

(* One row written. *)
LEMMA PublishedRow ==
  ASSUME TypeOK, NEW r \in Requests, Publish(r), NEW u \in Users, NEW row, Exists(row),
         tx[r] = [NoTx EXCEPT !.users[u] = row]
  PROVE  users' = [users EXCEPT ![u] = row] /\ UNCHANGED <<teams, team_members>>
<1>1. /\ \A v \in Users : tx[r].users[v] = IF v = u THEN row ELSE NoUser
      /\ tx[r].teams = {} /\ tx[r].added = {} /\ tx[r].removed = {}
  BY DEF NoTx
<1>2. \A v \in Users : Writes(r, v) <=> v = u
  BY <1>1 DEF Writes, Exists, NoUser
<1>3. \A v \in Users : users'[v] = IF v = u THEN row ELSE users[v]
  BY <1>1, <1>2, PublishedUsers
<1>4. users' = [users EXCEPT ![u] = row]
  <2>1. users' = [v \in Users |-> users'[v]]
    BY DEF Publish
  <2>2. DOMAIN users = Users
    BY DEF TypeOK
  <2> QED
    BY <1>3, <2>1, <2>2
<1> QED
  BY <1>1, <1>4 DEF Publish, SeesMembers

(* No row written. *)
LEMMA PublishedNone ==
  ASSUME TypeOK, NEW r \in Requests, Publish(r),
         \A u \in Users : tx[r].users[u] = NoUser
  PROVE  users' = users
<1>1. \A u \in Users : ~Writes(r, u)
  BY DEF Writes, Exists, NoUser
<1> QED
  BY <1>1, PublishedUsers

(* The team and its members at one instant.                                *)
LEMMA NewTeamPublished ==
  ASSUME DirectoryInv, NEW r \in Requests, Publish(r),
         tx[r].teams = {op[r].team}, tx[r].removed = {},
         tx[r].added = {op[r].team} \X IdsOf(r),
         \A v \in Users : Writes(r, v) => v \in IdsOf(r) /\ Columns(r, v)
  PROVE  Specification!NewTeam(op[r].team, Members(r))
<1> DEFINE t == op[r].team
           list == Members(r)
<1>1. /\ TypeOK /\ TablesOK /\ WrittenOK(r) /\ tx[r] \in Txs
  BY RequestType DEF DirectoryInv
<1>2. Specification!Listed(list) = IdsOf(r)
  BY DEF Specification!Listed, IdsOf, Members
<1>3. IdsOf(r) \subseteq Users /\ t \in Teams
  <2>1. \A u \in IdsOf(r) : <<t, u>> \in Teams \X Users
    BY <1>1 DEF Txs
  <2>2. t \in Teams
    BY <1>1, RequestType DEF Calls
  <2> QED
    BY <2>1, <2>2
<1>4. t \notin teams /\ teams' = teams \union {t}
  BY <1>1 DEF WrittenOK, Publish
<1>5. team_members' = team_members \union ({t} \X IdsOf(r))
  BY DEF Publish, SeesMembers
<1>6. \A u \in Users \ IdsOf(r) : users'[u] = users[u]
  BY <1>1, PublishedUsers
<1>7. \A u \in Users : users'[u] \in {NoUser} \union Rows
  BY <1>1, PublishedUsers DEF TablesOK, WrittenOK
<1>8. ASSUME NEW u \in IdsOf(r)
      PROVE  /\ users'[u].name \in Specification!MayBeNamed(u, list) \intersect Names
             /\ users'[u].state \in Specification!MayBeIn(u, list) \intersect Activity
  <2>1. u \in Users /\ <<t, u>> \in tx[r].added
    BY <1>3
  <2>2. Exists(users'[u])
    BY <1>1, <1>3, <2>1 DEF WrittenOK, Publish
  <2>3. users'[u] \in Rows
    BY <1>7, <2>1, <2>2 DEF Exists, NoUser
  <2>4. /\ \/ users'[u].name = users[u].name
           \/ \E i \in DOMAIN list : list[i].id = u /\ list[i].name = users'[u].name
        /\ \/ users'[u].state = users[u].state
           \/ \E i \in DOMAIN list : list[i].id = u /\ list[i].state = users'[u].state
    <3>1. CASE Writes(r, u)
      <4>1. Columns(r, u) /\ users'[u] = tx[r].users[u]
        BY <1>1, <2>1, <3>1, PublishedUsers
      <4> QED
        BY <4>1 DEF Columns
    <3>2. CASE ~Writes(r, u)
      BY <1>1, <2>1, <3>2, PublishedUsers
    <3> QED
      BY <3>1, <3>2
  <2>5. users'[u].name \in Specification!MayBeNamed(u, list)
    BY <2>4 DEF Specification!MayBeNamed
  <2>6. users'[u].state \in Specification!MayBeIn(u, list)
    BY <2>4 DEF Specification!MayBeIn
  <2> QED
    BY <2>3, <2>5, <2>6 DEF Rows
<1>9. users' \in [Users -> {NoUser} \union Rows]
  BY <1>7 DEF Publish
<1> QED
  BY <1>2, <1>4, <1>5, <1>6, <1>8, <1>9 DEF Specification!NewTeam, Specification!NoUser,
     Specification!Activity, NoUser, Activity, Rows

(* Every COMMIT is an operation of Teams, or takes away nothing.           *)
LEMMA PublishImplements ==
  ASSUME DirectoryInv, NEW r \in Requests, Publish(r), pc[r] \in {"commit", "orphanCommit"}
  PROVE  Specification!Next \/ UNCHANGED tables
<1> DEFINE t == op[r].team
           u == op[r].user
           row == [name |-> op[r].name, state |-> op[r].state]
<1>1. /\ TypeOK /\ TablesOK /\ WrittenOK(r) /\ CommitOK(r) /\ op[r] \in Workload
      /\ \A v \in Users : users[v] \in {NoUser} \union Rows
  BY DEF DirectoryInv, CallOK, TablesOK
<1>2. t \in Teams /\ u \in Users /\ op[r].state \in Activity
  BY <1>1, RequestType DEF Calls
<1>3. Members(r) \in TeamLists /\ <<>> \in TeamLists
  BY <1>1 DEF TeamLists, Members
<1>4. CASE /\ Doing(r) = "CreateTeamWithMembers"
           /\ tx[r].teams = {t} /\ tx[r].removed = {}
           /\ tx[r].added = {t} \X IdsOf(r)
           /\ \A v \in Users : Writes(r, v) => v \in IdsOf(r) /\ Columns(r, v)
  <2>1. Specification!NewTeam(t, Members(r))
    BY <1>4, NewTeamPublished
  <2> QED
    BY <1>2, <1>3, <2>1 DEF Specification!Next, TeamLists
<1>5. CASE Doing(r) = "CreateTeam" /\ tx[r] = [NoTx EXCEPT !.teams = {t}]
  <2>1. /\ tx[r].teams = {t} /\ tx[r].added = {} /\ tx[r].removed = {}
        /\ \A v \in Users : tx[r].users[v] = NoUser
    BY <1>5 DEF NoTx
  <2>2. users' = users
    BY <1>1, <2>1, PublishedNone
  <2>3. Specification!Listed(<<>>) = {}
    BY DEF Specification!Listed
  <2>4. t \notin teams /\ teams' = teams \union {t} /\ team_members' = team_members
    BY <1>1, <2>1 DEF WrittenOK, Publish, SeesMembers
  <2>5. users \in [Users -> {NoUser} \union Rows]
    BY <1>1 DEF TypeOK
  <2>6. Specification!NewTeam(t, <<>>)
    BY <2>2, <2>3, <2>4, <2>5 DEF Specification!NewTeam, Specification!NoUser,
       Specification!Activity, NoUser, Activity, Rows
  <2> QED
    BY <1>2, <1>3, <2>6 DEF Specification!Next, TeamLists
<1>6. CASE Doing(r) = "AddMember" /\ tx[r] = [NoTx EXCEPT !.added = {<<t, u>>}]
  <2>1. /\ tx[r].teams = {} /\ tx[r].added = {<<t, u>>} /\ tx[r].removed = {}
        /\ \A v \in Users : tx[r].users[v] = NoUser
    BY <1>6 DEF NoTx
  <2>2. users' = users /\ teams' = teams /\ team_members' = team_members \union {<<t, u>>}
    BY <1>1, <2>1, PublishedNone DEF Publish, SeesMembers
  <2>3. t \in teams /\ Exists(users[u])
    BY <1>1, <1>2, <2>1 DEF WrittenOK, SeesTeam, UserRow, Writes, Exists, NoUser
  <2>4. Specification!Join(t, u)
    BY <1>1, <1>2, <2>2, <2>3, SameExists DEF Specification!Join
  <2> QED
    BY <1>2, <2>4 DEF Specification!Next
<1>7. CASE Doing(r) = "RemoveMember" /\ tx[r] = [NoTx EXCEPT !.removed = {<<t, u>>}]
  <2>1. /\ tx[r].teams = {} /\ tx[r].added = {} /\ tx[r].removed = {<<t, u>>}
        /\ \A v \in Users : tx[r].users[v] = NoUser
    BY <1>7 DEF NoTx
  <2>2. users' = users /\ teams' = teams /\ team_members' = team_members \ {<<t, u>>}
    BY <1>1, <2>1, PublishedNone DEF Publish, SeesMembers
  <2>3. CASE <<t, u>> \in team_members
    BY <1>2, <2>2, <2>3 DEF Specification!Leave, Specification!Next
  <2>4. CASE <<t, u>> \notin team_members
    BY <2>2, <2>4 DEF tables
  <2> QED
    BY <2>3, <2>4
<1>8. CASE /\ Doing(r) = "CreateUser" /\ ~Exists(users[u]) /\ row \in Rows
           /\ tx[r] = [NoTx EXCEPT !.users[u] = row]
  <2>1. Exists(row) /\ op[r].name \in Names
    BY <1>8 DEF Rows, Exists, Activity
  <2>2. users' = [users EXCEPT ![u] = row] /\ UNCHANGED <<teams, team_members>>
    BY <1>1, <1>2, <1>8, <2>1, PublishedRow
  <2>3. Specification!NewUser(u, op[r].name, op[r].state)
    BY <1>1, <1>2, <1>8, <2>2, SameExists DEF Specification!NewUser
  <2> QED
    BY <1>2, <2>1, <2>3 DEF Specification!Next, Specification!Activity, Activity
<1>9. CASE /\ Doing(r) = "UpdateUserActive" /\ Exists(users[u])
           /\ tx[r] = [NoTx EXCEPT !.users[u] = [users[u] EXCEPT !.state = row.state]]
  <2> DEFINE new == [users[u] EXCEPT !.state = op[r].state]
  <2>1. users[u] \in Rows
    BY <1>1, <1>2, <1>9 DEF Exists, NoUser
  <2>2. Exists(new)
    BY <1>2, <2>1 DEF Rows, Exists, Activity
  <2>3. users' = [users EXCEPT ![u] = new] /\ UNCHANGED <<teams, team_members>>
    BY <1>1, <1>2, <1>9, <2>2, PublishedRow
  <2>4. Specification!SetActive(u, op[r].state)
    BY <1>1, <1>2, <1>9, <2>3, SameExists DEF Specification!SetActive
  <2>5. users[u].name \in Names
    BY <2>1 DEF Rows
  <2> QED
    BY <1>2, <2>4, <2>5 DEF Specification!Next, Specification!Activity, Activity
<1>10. CASE /\ Doing(r) = "UpdateUserName" /\ Exists(users[u]) /\ row \in Rows
            /\ tx[r] = [NoTx EXCEPT !.users[u] = [users[u] EXCEPT !.name = row.name]]
  <2> DEFINE new == [users[u] EXCEPT !.name = op[r].name]
  <2>1. users[u] \in Rows /\ op[r].name \in Names
    BY <1>1, <1>2, <1>10 DEF Exists, NoUser, Rows
  <2>2. Exists(new)
    BY <1>10, <2>1 DEF Rows, Exists, Activity
  <2>3. users' = [users EXCEPT ![u] = new] /\ UNCHANGED <<teams, team_members>>
    BY <1>1, <1>2, <1>10, <2>2, PublishedRow
  <2>4. Specification!Rename(u, op[r].name)
    BY <1>1, <1>2, <1>10, <2>3, SameExists DEF Specification!Rename
  <2> QED
    BY <1>2, <2>1, <2>4 DEF Specification!Next, Specification!Activity, Activity
<1> QED
  BY <1>1, <1>4, <1>5, <1>6, <1>7, <1>8, <1>9, <1>10 DEF CommitOK

(* The writes of r become visible by a COMMIT. *)
Published(r) == Publish(r) /\ pc[r] \in {"commit", "orphanCommit"}

(* Every step but a COMMIT leaves the tables alone.                        *)
LEMMA PublishedBy ==
  ASSUME NEW r \in Requests, Step(r) \/ Settle(r) \/ CallFails(r)
  PROVE  UNCHANGED tables \/ Published(r)
<1>1. CASE Reject(r) \/ Begin(r) \/ Rollback(r)
  BY <1>1 DEF Reject, Begin, Rollback, tables
<1>2. CASE TeamStep(r)
  BY <1>2 DEF TeamStep, InsertTeam, FindMember, InsertMember, FetchAfterConflict,
     SetMemberActive, SetMemberName, EnrolMember, FindTeam, FindUserOfTeam, Enrol, Dismiss,
     ReadTeams, CreateTeam, GetTeamBy, ListTeams, AddMember, RemoveMember, CreateUser,
     GetUserByID, UpdateUserActive, UpdateUserName, ReadOnly, Writing, Private, tables
<1>3. CASE AccountStep(r)
  BY <1>3 DEF AccountStep, InsertUser, FindUser, SetActive, Rename, FindTeamOfUser,
     ReadTeamName, ReadUsers, CreateUser, GetUserByID, UpdateUserActive, UpdateUserName,
     GetTeamIDByUserID, GetTeamBy, ListUsers, ListMembersByTeamID, ReadOnly, Writing,
     Private, tables
<1>4. CASE Commit(r) \/ ServerCommits(r)
  BY <1>4 DEF Commit, ServerCommits, Published
<1>5. CASE ServerAborts(r) \/ DeadlockDetected(r) \/ CallFails(r)
  BY <1>5 DEF ServerAborts, DeadlockDetected, CallFails, tables
<1> QED
  BY <1>1, <1>2, <1>3, <1>4, <1>5 DEF Step, Settle

LEMMA OnlyPublished ==
  ASSUME [Next]_vars
  PROVE  UNCHANGED tables \/ \E r \in Requests : Published(r)
<1>1. CASE UNCHANGED vars
  BY <1>1 DEF vars, tables
<1> QED
  BY <1>1, PublishedBy DEF Next

(* Every step is an operation of Teams, or leaves the tables alone. *)
LEMMA StepImplements ==
  DirectoryInv /\ [Next]_vars => [Specification!Next]_(Specification!vars)
BY OnlyPublished, PublishImplements DEF Published, Specification!vars, tables

(* The team and user services implement Teams: whatever runs at the same   *)
(* time and whichever calls fail, a team appears with all its members and  *)
(* no other, and a user changes only as somebody asked.                    *)
THEOREM Refinement == Spec => ImplementsTeams
<1> QED
  BY Invariance, InitImplements, StepImplements, PTL
     DEF Spec, ImplementsTeams, Specification!Spec

-----------------------------------------------------------------------------
(* What the other half relies on. *)

(* A team that appears, as the other half sees it: kept is who has the     *)
(* state he had.                                                           *)
TeamShows(r) ==
  \E new \in TeamsAsked : \E kept \in SUBSET new.members :
    /\ Shared!AddTeam(new, kept)
    /\ \A u \in new.members \ kept : u \in Users /\ users'[u].state # users[u].state

LEMMA NewTeamIsShared ==
  ASSUME DirectoryInv, NEW r \in Requests, Creates(r), op[r] \in Workload,
         IdsOf(r) \subseteq Users, Specification!NewTeam(op[r].team, Members(r))
  PROVE  TeamShows(r)
<1> DEFINE list == Members(r)
           ids == IdsOf(r)
           entry(u) == CHOOSE i \in DOMAIN list : list[i].id = u
           kept == {u \in ids : users'[u].state = users[u].state}
           sent(u) == IF u \in kept THEN list[entry(u)].state ELSE users'[u].state
           state == [u \in Users |-> IF u \in ids THEN sent(u) ELSE "active"]
           new == [team |-> op[r].team, members |-> ids, state |-> state]
<1>1. TypeOK /\ TablesOK /\ op[r] \in Calls /\ list = op[r].members
  BY RequestType DEF DirectoryInv, Members
<1>2. /\ op[r].team \in Teams
      /\ \A i \in DOMAIN list : list[i].state \in Activity
  <2>1. op[r].team \in Teams /\ list \in Seq(Specs)
    BY <1>1 DEF Calls
  <2>2. \A i \in DOMAIN list : list[i] \in Specs
    BY <2>1
  <2> QED
    BY <2>1, <2>2 DEF Specs
<1>3. Specification!Listed(list) = ids
  BY <1>1 DEF Specification!Listed, IdsOf
<1>4. ASSUME NEW u \in ids
      PROVE  /\ users'[u].state \in Activity
             /\ sent(u) \in Activity
             /\ \E i \in DOMAIN list : list[i].id = u /\ list[i].state = sent(u)
  <2>1. /\ users'[u].state \in Activity
        /\ \/ users'[u].state = users[u].state
           \/ \E i \in DOMAIN list : list[i].id = u /\ list[i].state = users'[u].state
    BY <1>3 DEF Specification!NewTeam, Specification!MayBeIn, Specification!Activity, Activity
  <2>2. entry(u) \in DOMAIN list /\ list[entry(u)].id = u
    BY <1>1 DEF IdsOf
  <2> QED
    BY <1>2, <2>1, <2>2
<1>5. new \in TeamsAsked
  <2>1. new = TeamOf(op[r], state)
    BY <1>1 DEF TeamOf, IdsOf
  <2>2. ASSUME NEW u \in ids
        PROVE  /\ u \in Users
               /\ \E i \in DOMAIN op[r].members :
                    op[r].members[i].id = u /\ op[r].members[i].state = state[u]
    <3>1. u \in Users /\ state[u] = sent(u)
      OBVIOUS
    <3>2. PICK i \in DOMAIN list : list[i].id = u /\ list[i].state = sent(u)
      BY <1>4
    <3> HIDE DEF sent, state
    <3> QED
      BY <1>1, <3>1, <3>2
  <2>3. AsListed(op[r], state)
    <3>1. TeamOf(op[r], state).members = ids
      BY <2>1
    <3> HIDE DEF state, new
    <3> QED
      BY <2>2, <3>1 DEF AsListed, Creates
  <2>4. <<op[r], state>> \in Workload \X [Users -> Activity]
    <3>1. state \in [Users -> Activity]
      BY <1>4 DEF Activity
    <3> HIDE DEF state
    <3> QED
      BY <3>1
  <2> HIDE DEF state, new
  <2>5. <<op[r], state>>[1] = op[r] /\ <<op[r], state>>[2] = state
    OBVIOUS
  <2> QED
    BY <2>1, <2>3, <2>4, <2>5 DEF TeamsAsked
<1>6. Shared!AddTeam(new, kept)
  <2>1. kept \subseteq {u \in ids : States[u] # "absent"}
    BY <1>4 DEF States, Activity
  <2>2. \A u \in Users : <<op[r].team, u>> \notin team_members
    BY <1>1, <1>2 DEF TablesOK, Specification!NewTeam
  <2>3. team_members' = team_members \union ({op[r].team} \X ids)
    BY <1>3 DEF Specification!NewTeam
  <2>4. ASSUME NEW u \in Users
        PROVE  users'[u].state = IF u \in ids \ kept THEN state[u] ELSE users[u].state
    BY <1>3 DEF Specification!NewTeam
  <2> QED
    BY <2>1, <2>2, <2>3, <2>4 DEF Shared!AddTeam, States
<1>7. /\ kept \in SUBSET new.members
      /\ \A u \in new.members \ kept : u \in Users /\ users'[u].state # users[u].state
  OBVIOUS
<1> HIDE DEF kept, new
<1> QED
  BY <1>5, <1>6, <1>7 DEF TeamShows

(* The state of a user that changes, as the other half sees it.            *)
StateShows(r) ==
  /\ Exists(users[op[r].user])
  /\ States' = [States EXCEPT ![op[r].user] = op[r].state]
  /\ team_members' = team_members

(* What a COMMIT shows the other half. *)
LEMMA PublishShows ==
  ASSUME DirectoryInv, OnlyRoutesWrite, NEW r \in Requests, Publish(r),
         pc[r] \in {"commit", "orphanCommit"}
  PROVE  \/ Doing(r) = "CreateTeamWithMembers" /\ TeamShows(r)
         \/ Doing(r) = "UpdateUserActive" /\ StateShows(r)
         \/ Doing(r) # "UpdateUserActive" /\ UNCHANGED <<States, team_members>>
<1> DEFINE t == op[r].team
           u == op[r].user
           row == [name |-> op[r].name, state |-> op[r].state]
<1>1. /\ TypeOK /\ TablesOK /\ CommitOK(r) /\ op[r] \in Workload
      /\ stage[r] \in DOMAIN Plan(op[r].kind)
      /\ \A v \in Users : users[v] \in {NoUser} \union Rows
  BY DEF DirectoryInv, CallOK, TablesOK
<1>2. /\ t \in Teams /\ u \in Users /\ op[r].state \in Activity
      /\ op[r].kind \in Kinds /\ stage[r] \in Nat \ {0}
  BY <1>1, RequestType DEF Calls
<1>3. Doing(r) \notin {"CreateUser", "AddMember", "RemoveMember"}
  <2>1. op[r].kind \notin {"CreateUser", "AddMember", "RemoveMember"}
    BY <1>1 DEF OnlyRoutesWrite
  <2>2. CASE op[r].kind \notin DOMAIN Handlers
    BY <1>1, <2>1, <2>2 DEF Plan, Doing
  <2>3. CASE op[r].kind \in DOMAIN Handlers
    BY <1>1, <2>3 DEF Plan, Doing, Handlers
  <2> QED
    BY <2>2, <2>3
<1>4. CASE /\ Doing(r) = "CreateTeamWithMembers"
           /\ tx[r].teams = {t} /\ tx[r].removed = {}
           /\ tx[r].added = {t} \X IdsOf(r)
           /\ \A v \in Users : Writes(r, v) => v \in IdsOf(r) /\ Columns(r, v)
  <2>1. Specification!NewTeam(t, Members(r)) /\ Creates(r)
    BY <1>1, <1>4, NewTeamPublished, LoopCreates
  <2>2. \A v \in IdsOf(r) : <<t, v>> \in Teams \X Users
    BY <1>1, <1>4, RequestType DEF Txs
  <2> QED
    BY <1>1, <1>4, <2>1, <2>2, NewTeamIsShared
<1>5. CASE Doing(r) = "CreateTeam" /\ tx[r] = [NoTx EXCEPT !.teams = {t}]
  <2>1. /\ tx[r].added = {} /\ tx[r].removed = {}
        /\ \A v \in Users : tx[r].users[v] = NoUser
    BY <1>5 DEF NoTx
  <2>2. users' = users /\ team_members' = team_members
    BY <1>1, <2>1, PublishedNone DEF Publish, SeesMembers
  <2> QED
    BY <1>5, <2>2 DEF States
<1>6. CASE /\ Doing(r) = "UpdateUserActive" /\ Exists(users[u])
           /\ tx[r] = [NoTx EXCEPT !.users[u] = [users[u] EXCEPT !.state = row.state]]
  <2> DEFINE new == [users[u] EXCEPT !.state = op[r].state]
  <2>1. users[u] \in Rows
    BY <1>1, <1>2, <1>6 DEF Exists, NoUser
  <2>2. Exists(new) /\ new.state = op[r].state
    BY <1>2, <2>1 DEF Rows, Exists, Activity
  <2>3. users' = [users EXCEPT ![u] = new] /\ UNCHANGED <<teams, team_members>>
    BY <1>1, <1>2, <1>6, <2>2, PublishedRow
  <2>4. States' = [States EXCEPT ![u] = op[r].state]
    BY <1>1, <1>2, <2>2, <2>3 DEF States, TypeOK
  <2> QED
    BY <1>6, <2>3, <2>4 DEF StateShows
<1>7. CASE /\ Doing(r) = "UpdateUserName" /\ Exists(users[u]) /\ row \in Rows
           /\ tx[r] = [NoTx EXCEPT !.users[u] = [users[u] EXCEPT !.name = row.name]]
  <2> DEFINE new == [users[u] EXCEPT !.name = op[r].name]
  <2>1. users[u] \in Rows
    BY <1>1, <1>2, <1>7 DEF Exists, NoUser
  <2>2. Exists(new) /\ new.state = users[u].state
    BY <1>7, <2>1 DEF Rows, Exists, Activity
  <2>3. users' = [users EXCEPT ![u] = new] /\ UNCHANGED <<teams, team_members>>
    BY <1>1, <1>2, <1>7, <2>2, PublishedRow
  <2>4. States' = States
    BY <1>1, <1>2, <2>2, <2>3 DEF States, TypeOK
  <2> QED
    BY <1>7, <2>3, <2>4
<1> QED
  BY <1>1, <1>3, <1>4, <1>5, <1>6, <1>7 DEF CommitOK

(* Every COMMIT is an operation of Membership, or shows nothing of itself. *)
LEMMA PublishIsShared ==
  ASSUME DirectoryInv, OnlyRoutesWrite, NEW r \in Requests, Publish(r),
         pc[r] \in {"commit", "orphanCommit"}
  PROVE  Shared!Next \/ UNCHANGED <<States, team_members>>
<1>1. CASE TeamShows(r)
  BY <1>1 DEF TeamShows, Shared!Next
<1>2. CASE StateShows(r)
  <2>1. op[r].user \in Users /\ op[r].state \in Activity
    BY RequestType DEF DirectoryInv, Calls
  <2>2. Shared!SetActive(op[r].user, op[r].state)
    BY <1>2, <2>1 DEF StateShows, Shared!SetActive, States, Exists
  <2> QED
    BY <2>1, <2>2 DEF Shared!Next, Shared!Activity, Activity
<1> QED
  BY <1>1, <1>2, PublishShows

LEMMA InitIsShared == Init => Shared!Init
<1> SUFFICES ASSUME Init
             PROVE  Shared!Init
  OBVIOUS
<1>1. TypeOK
  BY InitInv DEF DirectoryInv
<1>2. \A u \in Users : users[u].state \in {"absent"} \union Shared!Activity
  BY <1>1 DEF TypeOK, UserRows, Activity, Shared!Activity
<1> QED
  BY <1>1, <1>2 DEF TypeOK, Shared!Init, States

LEMMA StepIsShared ==
  ASSUME OnlyRoutesWrite
  PROVE  DirectoryInv /\ [Next]_vars => [Shared!Next]_(Shared!vars)
<1> SUFFICES ASSUME DirectoryInv, [Next]_vars
             PROVE  Shared!Next \/ UNCHANGED <<States, team_members>>
  BY DEF Shared!vars, States
<1>1. CASE UNCHANGED tables
  BY <1>1 DEF tables, States
<1>2. CASE \E r \in Requests : Published(r)
  BY <1>2, PublishIsShared DEF Published
<1> QED
  BY <1>1, <1>2, OnlyPublished

(* What the services do through the routes to the tables the pull-request  *)
(* half reads, statement by statement and whichever calls fail, is what    *)
(* that half takes it to be: one team that is added or one user whose      *)
(* state is set at a time.                                                 *)
THEOREM MembershipShared ==
  ASSUME OnlyRoutesWrite
  PROVE  Spec => ImplementsMembership
<1> QED
  BY Invariance, InitIsShared, StepIsShared, PTL
     DEF Spec, ImplementsMembership, Shared!Spec

-----------------------------------------------------------------------------
(* Deadlocks. *)

(* A set of naturals with an upper bound has a greatest element.           *)
LEMMA Greatest ==
  ASSUME NEW N \in Nat, NEW S \in SUBSET (1 .. N), S # {}
  PROVE  \E x \in S : \A y \in S : y <= x
<1> DEFINE T == {N - x : x \in S}
           R == OpToRel(<, Nat)
<1>1. T \subseteq Nat /\ T # {}
  <2>1. \A x \in S : N - x \in Nat
    OBVIOUS
  <2> QED
    BY <2>1
<1>2. PICK low \in T : \A y \in T : ~(<<y, low>> \in R)
  <2> HIDE DEF T, R
  <2>1. IsWellFoundedOn(R, Nat)
    BY NatLessThanWellFounded DEF R
  <2> QED
    BY <1>1, <2>1, WFMin
<1>3. \A y \in T : ~(y < low)
  BY <1>1, <1>2 DEF OpToRel
<1>4. PICK x \in S : low = N - x
  OBVIOUS
<1>5. ASSUME NEW y \in S
      PROVE  y <= x
  <2>1. N - y \in T
    OBVIOUS
  <2>2. ~(N - y < N - x)
    BY <1>3, <1>4, <2>1
  <2>3. x \in Nat /\ y \in Nat
    OBVIOUS
  <2> HIDE DEF T
  <2> QED
    BY <2>2, <2>3
<1> QED
  BY <1>5

(* Whoever keeps another waiting has written something.                    *)
LEMMA BlockerWrites ==
  ASSUME DirectoryInv, NEW p \in Requests, NEW q \in Requests, q \in BlockedBy(p)
  PROVE  tx[q] # NoTx
<1> SUFFICES ASSUME tx[q] = NoTx
             PROVE  FALSE
  OBVIOUS
<1>1. tx[q].teams = {} /\ tx[q].added = {} /\ tx[q].removed = {}
  BY DEF NoTx
<1>2. Writes(q, Subject(p))
  BY <1>1 DEF BlockedBy
<1>3. CASE Subject(p) \in Users
  BY <1>2, <1>3 DEF Writes, NoTx, NoUser, Exists
<1>4. CASE Subject(p) \notin Users
  <2>1. /\ pc[p] \in {"createUser", "updateActive", "updateName"} /\ pc[p] \in Statements
        /\ pc[p] \in MemberSteps
    BY <1>1 DEF BlockedBy, Statements, Steps, MemberSteps
  <2>2. CASE Doing(p) = "CreateTeamWithMembers"
    BY <1>4, <2>1, <2>2, AtLoop DEF InLoop
  <2>3. CASE Doing(p) # "CreateTeamWithMembers"
    BY <1>4, <2>1, <2>3, AtStatement DEF Subject
  <2> QED
    BY <2>2, <2>3
<1> QED
  BY <1>3, <1>4

(* Whoever is blocked and blocks somebody is in the loop: other methods    *)
(* execute no statement after their first write.                           *)
LEMMA WaitingInLoop ==
  ASSUME DirectoryInv, NEW q \in Requests, BlockedBy(q) # {},
         NEW p \in Requests, q \in BlockedBy(p)
  PROVE  InLoop(q)
<1>1. /\ pc[q] \in {"createTeam", "createUser", "updateActive", "updateName", "addMember",
                    "removeMember"}
      /\ pc[q] \in Statements /\ pc[q] # "refetch"
  BY DEF BlockedBy, Statements, Steps
<1> QED
  BY <1>1, BlockerWrites DEF DirectoryInv, CallOK

(* Two requests in the loop wait for each other's rows of users, never for *)
(* a membership: each adds members to a team of its own.                   *)
LEMMA WaitsForUser ==
  ASSUME DirectoryInv, NEW p \in Requests, NEW q \in Requests, InLoop(p), InLoop(q),
         q \in BlockedBy(p)
  PROVE  /\ pc[p] \in {"createUser", "updateActive", "updateName"}
         /\ p # q /\ Writes(q, Subject(p)) /\ Subject(p) \in Users
<1>1. p # q /\ Subject(p) \in Users
  BY AtLoop DEF BlockedBy
<1>2. CASE pc[p] = "addMember"
  <2>1. Pair(p) \in tx[q].added \union tx[q].removed
    BY <1>2 DEF BlockedBy
  <2>2. /\ tx[p].teams = {op[p].team} /\ tx[q].teams = {op[q].team} /\ tx[q].removed = {}
        /\ tx[q].added = {op[q].team} \X {Members(q)[i].id : i \in 1 .. mem[q].next - 1}
    BY DEF DirectoryInv, LoopOK
  <2>3. op[p].team = op[q].team
    BY <2>1, <2>2 DEF Pair
  <2>4. tx[p].teams \intersect tx[q].teams = {}
    BY <1>1 DEF DirectoryInv, Exclusive
  <2> QED
    BY <2>2, <2>3, <2>4
<1>3. CASE pc[p] # "addMember"
  BY <1>1, <1>3 DEF BlockedBy, InLoop, MemberSteps
<1> QED
  BY <1>2, <1>3

(* Who is blocked by q is at a member q has passed.                        *)
LEMMA BlockerIsAhead ==
  ASSUME DirectoryInv, NEW rank \in [Users -> 1 .. Cardinality(Users)],
         NEW p \in Requests, NEW q \in Requests, NEW o \in Requests,
         InLoop(p), InLoop(q), InLoop(o), q \in BlockedBy(p), o \in BlockedBy(q),
         Follows(rank, Members(q))
  PROVE  rank[Subject(p)] < rank[Subject(q)]
<1> DEFINE n == mem[q].next
           list == Members(q)
<1>1. /\ Writes(q, Subject(p)) /\ Subject(p) \in Users
      /\ Writes(o, Subject(q)) /\ Subject(q) \in Users /\ q # o
      /\ pc[q] # "addMember"
  BY WaitsForUser
<1>2. n \in DOMAIN list /\ list[n].id = Subject(q) /\ list \in Seq(Specs)
  BY AtLoop
<1>3. \/ \E i \in 1 .. n - 1 : Subject(p) = list[i].id
      \/ Subject(p) = list[n].id
  BY <1>1 DEF DirectoryInv, LoopOK
<1>4. Subject(p) # Subject(q)
  BY <1>1 DEF DirectoryInv, Exclusive
<1>5. PICK i \in 1 .. n - 1 : Subject(p) = list[i].id
  BY <1>2, <1>3, <1>4
<1>6. i \in DOMAIN list /\ i < n
  BY <1>2
<1> QED
  BY <1>2, <1>5, <1>6 DEF Follows

(* In a circle each request waits for one that is further in the common    *)
(* order: there is none.                                                   *)
LEMMA OrderPreventsDeadlock == DirectoryInv => NoDeadlockInCommonOrder
<1> SUFFICES ASSUME DirectoryInv, NEW rank \in [Users -> 1 .. Cardinality(Users)],
                    \A r \in Requests : Creates(r) => Follows(rank, Members(r)),
                    NEW C \in SUBSET Requests, C # {},
                    \A q \in C : BlockedBy(q) \intersect C # {},
                    \A q \in C : \E p \in C : q \in BlockedBy(p)
             PROVE  FALSE
  BY DEF NoDeadlockInCommonOrder, InCycle
<1>1. \A q \in C : InLoop(q)
  BY WaitingInLoop
<1>2. \A q \in C : Follows(rank, Members(q)) /\ Subject(q) \in Users
  BY <1>1, LoopCreates, AtLoop DEF DirectoryInv, CallOK
<1> DEFINE ranks == {rank[Subject(q)] : q \in C}
<1>3. ranks \in SUBSET (1 .. Cardinality(Users)) /\ ranks # {}
  BY <1>2
<1>4. Cardinality(Users) \in Nat
  BY FiniteAssumption, FS_CardinalityType
<1>5. PICK x \in ranks : \A y \in ranks : y <= x
  <2> HIDE DEF ranks
  <2> QED
    BY <1>3, <1>4, Greatest
<1>6. PICK p \in C : x = rank[Subject(p)]
  OBVIOUS
<1>7. PICK q \in C : q \in BlockedBy(p)
  OBVIOUS
<1>8. PICK o \in C : o \in BlockedBy(q)
  OBVIOUS
<1>9. rank[Subject(p)] < rank[Subject(q)]
  BY <1>1, <1>2, <1>7, <1>8, BlockerIsAhead
<1>10. rank[Subject(p)] \in Nat /\ rank[Subject(q)] \in Nat
  BY <1>2
<1>11. rank[Subject(q)] <= rank[Subject(p)]
  <2>1. rank[Subject(q)] \in ranks
    OBVIOUS
  <2> QED
    BY <1>5, <1>6, <2>1
<1> QED
  BY <1>9, <1>10, <1>11

(* /team/add calls whose lists name their members in an order common to    *)
(* all of them never end in a deadlock, whatever else runs.                *)
THEOREM NoDeadlock == Spec => []NoDeadlockInCommonOrder
<1> QED
  BY Invariance, OrderPreventsDeadlock, PTL

-----------------------------------------------------------------------------
(* Progress. *)

(* Where everybody waits for somebody, some of them wait in a circle: a    *)
(* smallest group in which everybody waits for one of the group has no     *)
(* member nobody waits for.                                                *)
LEMMA WaitingMakesCircle ==
  ASSUME NEW W \in SUBSET Requests, W # {}, \A q \in W : BlockedBy(q) \intersect W # {}
  PROVE  \E q \in W : InCycle(q)
<1> DEFINE Groups == {C \in SUBSET W : C # {} /\ \A q \in C : BlockedBy(q) \intersect C # {}}
           R == StrictSubsetOrdering(Requests)
<1>1. IsWellFoundedOn(R, SUBSET Requests)
  BY FiniteAssumption, FS_FiniteSubsetsOfFinite, FS_StrictSubsetOrderingWellFounded
<1>2. W \in Groups /\ Groups \subseteq SUBSET Requests
  OBVIOUS
<1>3. PICK C \in Groups : \A D \in Groups : ~(<<D, C>> \in R)
  <2> HIDE DEF Groups, R
  <2> QED
    BY <1>1, <1>2, WFMin
<1>4. ASSUME NEW q \in C, \A p \in C : q \notin BlockedBy(p)
      PROVE  FALSE
  <2> DEFINE D == C \ {q}
  <2>1. D # {}
    BY DEF BlockedBy
  <2>2. \A p \in D : BlockedBy(p) \intersect D # {}
    BY <1>4
  <2>3. <<D, C>> \in R
    BY <1>2 DEF StrictSubsetOrdering
  <2> QED
    BY <1>3, <2>1, <2>2, <2>3
<1>5. \A q \in C : InCycle(q)
  <2>1. C \in SUBSET Requests
    OBVIOUS
  <2> QED
    BY <1>4, <2>1 DEF InCycle
<1> QED
  BY <1>5

LEMMA SomebodyGoesOnOK == DirectoryInv => SomebodyGoesOn
<1> SUFFICES ASSUME DirectoryInv
             PROVE  SomebodyGoesOn
  OBVIOUS
<1>1. \A r \in Requests : \A q \in BlockedBy(r) : q \in Requests /\ pc[q] \notin {"begin", "done"}
  BY BlockerWrites DEF BlockedBy, DirectoryInv, CallOK
<1>2. ASSUME ~Quiescent, \A r \in Requests : ~GoesOn(r)
      PROVE  FALSE
  <2> DEFINE W == {r \in Requests : BlockedBy(r) # {}}
  <2>1. \A r \in Requests : pc[r] \notin {"begin", "done"} => r \in W
    BY <1>2 DEF GoesOn, Starved
  <2>2. \A q \in W : BlockedBy(q) \intersect W # {}
    BY <1>1, <2>1
  <2>3. W # {}
    <3>1. PICK r \in Requests : pc[r] # "done"
      BY <1>2 DEF Quiescent
    <3>2. CASE ~Starved(r)
      BY <1>2, <3>1, <3>2 DEF GoesOn
    <3>3. CASE Starved(r)
      <4>1. Connected # {}
        BY <3>3, PoolAssumption, FS_EmptySet DEF Starved
      <4> QED
        BY <2>1, <4>1 DEF Connected
    <3> QED
      BY <3>2, <3>3
  <2>4. PICK q \in W : InCycle(q)
    <3> HIDE DEF W
    <3>1. W \in SUBSET Requests
      BY DEF W
    <3> QED
      BY <2>2, <2>3, <3>1, WaitingMakesCircle
  <2>5. pc[q] \notin {"begin", "done"}
    BY DEF BlockedBy
  <2> QED
    BY <1>2, <2>4, <2>5 DEF GoesOn, Starved
<1> QED
  BY <1>1, <1>2 DEF SomebodyGoesOn

(* Until all calls are over some request can go on, or waits in a circle   *)
(* the server breaks; and nobody waits for a call that has not begun or    *)
(* has returned.                                                           *)
THEOREM NobodyWaitsInVain == Spec => []SomebodyGoesOn
<1> QED
  BY Invariance, SomebodyGoesOnOK, PTL

(* A bound on the statements to the end of a method, from each of them.    *)
LEMMA StatementsLeftAt ==
  /\ StatementsLeft["begin"] = 12 /\ StatementsLeft["createTeam"] = 11
  /\ StatementsLeft["getUserTeam"] = 11 /\ StatementsLeft["getTeam"] = 10
  /\ StatementsLeft["getUser"] = 9 /\ StatementsLeft["createUser"] = 8
  /\ StatementsLeft["updateActive"] = 8 /\ StatementsLeft["refetch"] = 7
  /\ StatementsLeft["updateName"] = 7 /\ StatementsLeft["addMember"] = 6
  /\ StatementsLeft["removeMember"] = 6 /\ StatementsLeft["getTeamByName"] = 3
  /\ StatementsLeft["listTeams"] = 3 /\ StatementsLeft["listUsers"] = 3
  /\ StatementsLeft["listMembers"] = 3 /\ StatementsLeft["commit"] = 2
  /\ StatementsLeft["rollback"] = 2 /\ StatementsLeft["orphan"] = 1
  /\ StatementsLeft["orphanCommit"] = 1 /\ StatementsLeft["done"] = 0
BY DEF StatementsLeft

LEMMA StatementsLeftType == \A l \in Steps : StatementsLeft[l] \in 0 .. 12
BY StatementsLeftAt DEF Steps

(* The loop never passes the end of its list. *)
LEMMA LeftType ==
  ASSUME DirectoryInv, NEW r \in Requests
  PROVE  /\ StatementsLeft[pc[r]] \in 0 .. 12 /\ MembersLeft(r) \in Nat /\ MethodsLeft(r) \in Nat
         /\ pc[r] \in MemberSteps /\ Doing(r) = "CreateTeamWithMembers" =>
              /\ mem[r].next \in Nat /\ Len(Members(r)) \in Nat
              /\ mem[r].next <= Len(Members(r)) /\ mem[r].next >= 1
<1>1. /\ TypeOK /\ CallOK(r) /\ op[r] \in Calls /\ pc[r] \in Steps
      /\ mem[r].next \in Nat /\ stage[r] \in Nat
  BY RequestType DEF DirectoryInv, Mems
<1>2. MethodsLeft(r) \in Nat
  <2>1. Plan(op[r].kind) \in Seq(Methods) /\ stage[r] \in DOMAIN Plan(op[r].kind)
    BY <1>1, PlanType DEF Calls, CallOK
  <2>2. Len(Plan(op[r].kind)) \in Nat /\ stage[r] <= Len(Plan(op[r].kind))
    BY <2>1
  <2> QED
    BY <1>1, <2>2 DEF MethodsLeft
<1>3. Len(Members(r)) \in Nat
  BY <1>1 DEF Calls, Members
<1>4. pc[r] \in MemberSteps /\ Doing(r) = "CreateTeamWithMembers" =>
        mem[r].next <= Len(Members(r)) /\ mem[r].next >= 1
  BY <1>1, <1>3, AtLoop DEF InLoop
<1>5. pc[r] \in {"begin", "createTeam"} => mem[r].next = 1 \/ Doing(r) # "CreateTeamWithMembers"
  BY <1>1 DEF CallOK
<1>6. MembersLeft(r) \in Nat
  BY <1>1, <1>3, <1>4, <1>5 DEF MembersLeft, WithMembers
<1> QED
  BY <1>1, <1>2, <1>3, <1>4, <1>6, StatementsLeftType

(* A step to a statement nearer to the end of the method, with the same    *)
(* member or past the loop.                                                *)
LEMMA StatementIsProgress ==
  ASSUME DirectoryInv, NEW r \in Requests, op' = op, stage' = stage, pc'[r] \in Steps,
         StatementsLeft[pc'[r]] < StatementsLeft[pc[r]],
         \/ Doing(r) # "CreateTeamWithMembers" \/ pc'[r] \notin WithMembers
         \/ pc[r] \in WithMembers /\ mem'[r].next = mem[r].next
  PROVE  WorkLeft(r)' < WorkLeft(r)
<1>1. PICK s \in Nat, m \in Nat, n \in Nat :
        s = StatementsLeft[pc[r]] /\ m = MembersLeft(r) /\ n = MethodsLeft(r)
  <2>1. StatementsLeft[pc[r]] \in Nat /\ MembersLeft(r) \in Nat /\ MethodsLeft(r) \in Nat
    BY LeftType
  <2> QED
    BY <2>1
<1>2. PICK z \in Nat : z = StatementsLeft[pc'[r]]
  BY StatementsLeftType
<1>3. MethodsLeft(r)' = n
  BY <1>1 DEF MethodsLeft
<1>4. MembersLeft(r)' \in {0, m}
  <2>1. Doing(r)' = Doing(r) /\ Members(r)' = Members(r)
    BY DEF Doing, Members
  <2> QED
    BY <1>1, <2>1 DEF MembersLeft
<1>5. z + 4 * 0 + 12 * n < s + 4 * m + 12 * n /\ z + 4 * m + 12 * n < s + 4 * m + 12 * n
  BY <1>1, <1>2
<1> QED
  BY <1>1, <1>2, <1>3, <1>4, <1>5 DEF WorkLeft

(* The statements of the methods that know no lists.                       *)
LEMMA PlainIsProgress ==
  ASSUME DirectoryInv, NEW r \in Requests,
         \/ FindTeam(r) \/ FindUserOfTeam(r) \/ Enrol(r) \/ Dismiss(r) \/ ReadTeams(r)
         \/ AccountStep(r)
  PROVE  WorkLeft(r)' < WorkLeft(r)
<1>1. TypeOK
  BY DEF DirectoryInv
<1>2. op' = op /\ stage' = stage /\ Doing(r) # "CreateTeamWithMembers"
  BY DEF FindTeam, FindUserOfTeam, Enrol, Dismiss, ReadTeams, AccountStep, InsertUser, FindUser,
     SetActive, Rename, FindTeamOfUser, ReadTeamName, ReadUsers, In, GetTeamBy, GetUserByID,
     AddMember, RemoveMember, ListTeams, CreateUser, UpdateUserActive, UpdateUserName,
     GetTeamIDByUserID, ListUsers, ListMembersByTeamID, ReadOnly, Writing, Private
<1>3. \E l, e : /\ Verdict(r, e, Goto(l))
                /\ \/ pc[r] = "getTeam" /\ l \in {"getUser", "rollback"}
                   \/ /\ pc[r] \in {"getTeamByName", "listTeams", "listUsers", "listMembers"}
                      /\ l = "rollback"
                   \/ pc[r] = "getUser" /\ l \in {"addMember", "removeMember", "updateActive", "rollback"}
                   \/ /\ pc[r] \in {"addMember", "removeMember", "createUser", "updateActive",
                                     "updateName"}
                      /\ l = "commit"
      \/ FindTeamOfUser(r)
  BY DEF FindTeam, FindUserOfTeam, Enrol, Dismiss, ReadTeams, AccountStep, InsertUser, FindUser,
     SetActive, Rename, ReadTeamName, ReadUsers, In, Ready, GetTeamBy, GetUserByID,
     AddMember, RemoveMember, ListTeams, CreateUser, UpdateUserActive, UpdateUserName,
     ListUsers, ListMembersByTeamID
<1>4. ASSUME NEW l, NEW e, Verdict(r, e, Goto(l))
      PROVE  pc'[r] \in {l, "rollback"}
  BY <1>1, <1>4 DEF Verdict, Goto, TypeOK
<1>5. FindTeamOfUser(r) => pc[r] = "getUserTeam" /\ pc'[r] \in {"getTeam", "rollback"}
  BY <1>1 DEF FindTeamOfUser, In, Ready, GetTeamIDByUserID, Verdict, TypeOK
<1>6. \/ pc[r] = "getUserTeam" /\ pc'[r] \in {"getTeam", "rollback"}
      \/ pc[r] = "getTeam" /\ pc'[r] \in {"getUser", "rollback"}
      \/ /\ pc[r] \in {"getTeamByName", "listTeams", "listUsers", "listMembers"}
         /\ pc'[r] = "rollback"
      \/ /\ pc[r] = "getUser"
         /\ pc'[r] \in {"addMember", "removeMember", "updateActive", "rollback"}
      \/ /\ pc[r] \in {"addMember", "removeMember", "createUser", "updateActive", "updateName"}
         /\ pc'[r] \in {"commit", "rollback"}
  BY <1>3, <1>4, <1>5
<1>7. pc'[r] \in Steps /\ StatementsLeft[pc'[r]] < StatementsLeft[pc[r]]
  BY <1>6, StatementsLeftAt DEF Steps
<1> QED
  BY <1>2, <1>7, StatementIsProgress

(* The statements of CreateTeam and CreateTeamWithMembers but the last of  *)
(* the loop.                                                               *)
LEMMA ListIsProgress ==
  ASSUME DirectoryInv, NEW r \in Requests,
         \/ InsertTeam(r) \/ FindMember(r) \/ InsertMember(r) \/ FetchAfterConflict(r)
         \/ SetMemberActive(r) \/ SetMemberName(r)
  PROVE  WorkLeft(r)' < WorkLeft(r)
<1>1. TypeOK /\ mem \in [Requests -> Mems] /\ mem[r] \in Mems
  BY DEF DirectoryInv, TypeOK, Mems
<1>2. op' = op /\ stage' = stage
  BY DEF InsertTeam, FindMember, InsertMember, FetchAfterConflict, SetMemberActive, SetMemberName,
     CreateTeam, GetUserByID, CreateUser, UpdateUserActive, UpdateUserName, ReadOnly, Writing,
     Private
<1>3. /\ pc[r] \in WithMembers => mem'[r].next = mem[r].next
      /\ \/ pc[r] = "createTeam" /\ pc'[r] \in {"getUser", "commit", "rollback"}
         \/ /\ pc[r] = "getUser"
            /\ pc'[r] \in {"createUser", "updateActive", "updateName", "addMember", "rollback"}
         \/ pc[r] = "createUser" /\ pc'[r] \in {"refetch", "addMember", "rollback"}
         \/ pc[r] = "refetch" /\ pc'[r] = "rollback"
         \/ pc[r] = "updateActive" /\ pc'[r] \in {"updateName", "addMember", "rollback"}
         \/ pc[r] = "updateName" /\ pc'[r] \in {"addMember", "rollback"}
  <2>1. CASE InsertTeam(r)
    BY <1>1, <2>1 DEF InsertTeam, In, Ready, CreateTeam, Verdict, Goto, NextMember, TypeOK
  <2>2. CASE FindMember(r)
    <3>1. /\ pc[r] = "getUser"
          /\ pc'[r] \in {"createUser", "updateActive", "updateName", "addMember", "rollback"}
      BY <1>1, <2>2 DEF FindMember, In, Ready, GetUserByID, Found, Verdict, UpdateOf, TypeOK
    <3>2. mem' = [mem EXCEPT ![r].user = UserRow(r, Subject(r))]
      BY <2>2 DEF FindMember, GetUserByID
    <3>3. mem'[r].next = mem[r].next
      BY <1>1, <3>2 DEF Mems
    <3> QED
      BY <3>1, <3>3
  <2>3. CASE InsertMember(r)
    <3>1. pc[r] = "createUser" /\ pc'[r] \in {"refetch", "addMember", "rollback"}
      BY <1>1, <2>3 DEF InsertMember, In, Ready, CreateUser, Verdict, TypeOK
    <3>2. \/ mem' = mem
          \/ \E row : mem' = [mem EXCEPT ![r].user = row]
      BY <2>3 DEF InsertMember, CreateUser
    <3>3. mem'[r].next = mem[r].next
      BY <1>1, <3>2 DEF Mems
    <3> QED
      BY <3>1, <3>3
  <2>4. CASE FetchAfterConflict(r)
    <3>1. pc[r] = "refetch" /\ tx[r].status = "failed"
      BY <2>4 DEF FetchAfterConflict, In, Ready, DirectoryInv, CallOK, Aborted, NoTx
    <3>2. pc'[r] = "rollback"
      BY <1>1, <2>4, <3>1 DEF FetchAfterConflict, Verdict, TypeOK
    <3> QED
      BY <3>1, <3>2 DEF WithMembers, MemberSteps
  <2>5. CASE SetMemberActive(r)
    <3>1. pc[r] = "updateActive" /\ pc'[r] \in {"updateName", "addMember", "rollback"}
      BY <1>1, <2>5 DEF SetMemberActive, In, Ready, UpdateUserActive, Goto, Verdict, TypeOK
    <3>2. mem'[r].next = mem[r].next
      BY <1>1, <2>5 DEF SetMemberActive, Mems
    <3> QED
      BY <3>1, <3>2
  <2>6. CASE SetMemberName(r)
    <3>1. pc[r] = "updateName" /\ pc'[r] \in {"addMember", "rollback"}
      BY <1>1, <2>6 DEF SetMemberName, In, Ready, UpdateUserName, Goto, Verdict, TypeOK
    <3>2. mem'[r].next = mem[r].next
      BY <1>1, <2>6 DEF SetMemberName, Mems
    <3> QED
      BY <3>1, <3>2
  <2> QED
    BY <2>1, <2>2, <2>3, <2>4, <2>5, <2>6
<1>4. pc'[r] \in Steps /\ StatementsLeft[pc'[r]] < StatementsLeft[pc[r]]
  BY <1>3, StatementsLeftAt DEF Steps
<1>5. pc[r] \in WithMembers \/ pc'[r] \notin WithMembers
  BY <1>3 DEF WithMembers, MemberSteps
<1> QED
  BY <1>2, <1>3, <1>4, <1>5, StatementIsProgress

(* The last statement of the loop: the next member, or the end.            *)
LEMMA EnrolIsProgress ==
  ASSUME DirectoryInv, NEW r \in Requests, EnrolMember(r)
  PROVE  WorkLeft(r)' < WorkLeft(r)
<1>1. TypeOK /\ mem \in [Requests -> Mems] /\ mem[r] \in Mems
  BY DEF DirectoryInv, TypeOK, Mems
<1>2. /\ op' = op /\ stage' = stage /\ pc[r] = "addMember"
      /\ Doing(r) = "CreateTeamWithMembers"
      /\ pc'[r] \in {"getUser", "commit", "rollback"}
      /\ pc'[r] = "getUser" => mem[r].next + 1 <= Len(Members(r))
  BY <1>1 DEF EnrolMember, In, Ready, AddMember, Writing, Private, Verdict, NextMember, TypeOK
<1>3. mem'[r].next = mem[r].next + 1
  BY <1>1 DEF EnrolMember, Mems
<1>4. PICK n \in Nat, i \in Nat, l \in Nat :
        /\ n = MethodsLeft(r) /\ i = mem[r].next /\ l = Len(Members(r)) /\ i <= l
  <2>1. /\ MethodsLeft(r) \in Nat /\ mem[r].next \in Nat /\ Len(Members(r)) \in Nat
        /\ mem[r].next <= Len(Members(r))
    BY <1>2, LeftType DEF MemberSteps
  <2> QED
    BY <2>1
<1>5. Doing(r)' = Doing(r) /\ Members(r)' = Members(r) /\ MethodsLeft(r)' = n
  BY <1>2, <1>4 DEF Doing, Members, MethodsLeft
<1>6. MembersLeft(r) = l + 1 - i
  BY <1>2, <1>4 DEF MembersLeft, WithMembers, MemberSteps
<1>7. WorkLeft(r) = 6 + 4 * (l + 1 - i) + 12 * n
  BY <1>2, <1>4, <1>6, StatementsLeftAt DEF WorkLeft
<1>8. CASE pc'[r] = "getUser"
  <2>1. MembersLeft(r)' = l + 1 - (i + 1)
    BY <1>2, <1>3, <1>4, <1>5, <1>8 DEF MembersLeft, WithMembers, MemberSteps
  <2>2. WorkLeft(r)' = 9 + 4 * (l + 1 - (i + 1)) + 12 * n
    BY <1>5, <1>8, <2>1, StatementsLeftAt DEF WorkLeft
  <2> QED
    BY <1>7, <2>2
<1>9. CASE pc'[r] # "getUser"
  <2>1. MembersLeft(r)' = 0
    BY <1>2, <1>9 DEF MembersLeft, WithMembers, MemberSteps
  <2>2. WorkLeft(r)' = 2 + 4 * 0 + 12 * n
    BY <1>2, <1>5, <1>9, <2>1, StatementsLeftAt DEF WorkLeft
  <2>3. PICK d \in Nat : d = l + 1 - i
    BY <1>4
  <2>4. 2 + 4 * 0 + 12 * n < 6 + 4 * d + 12 * n
    OBVIOUS
  <2> QED
    BY <1>7, <2>2, <2>3, <2>4
<1> QED
  BY <1>8, <1>9

(* No handler calls CreateTeamWithMembers after another method.            *)
LEMMA ListIsFirst ==
  ASSUME NEW k \in Kinds, NEW i \in DOMAIN Plan(k), i # 1
  PROVE  Plan(k)[i] # "CreateTeamWithMembers"
<1>1. CASE k \in DOMAIN Handlers
  <2>1. Plan(k) = Handlers[k] /\ k \in {"SetIsActive", "AddTeam", "ShowTeam"}
    BY <1>1 DEF Plan, Handlers
  <2>2. \/ Plan(k) = <<"UpdateUserActive", "GetUser", "GetUserTeamName">>
        \/ Plan(k) = <<"CreateTeamWithMembers">>
        \/ Plan(k) = <<"GetTeamByName", "ListMembersByTeamID">>
    BY <2>1 DEF Handlers
  <2> QED
    BY <2>2
<1>2. CASE k \notin DOMAIN Handlers
  BY <1>2 DEF Plan
<1> QED
  BY <1>1, <1>2

(* The end of a transaction: the next method begins, or the call is over.  *)
LEMMA EndIsProgress ==
  ASSUME DirectoryInv, NEW r \in Requests, EndTx(r), StatementsLeft[pc[r]] \in {1, 2}
  PROVE  WorkLeft(r)' < WorkLeft(r)
<1>1. TypeOK /\ CallOK(r)
  BY DEF DirectoryInv
<1>2. PICK m \in Nat, n \in Nat, k \in Nat, l \in Nat :
        /\ m = MembersLeft(r) /\ n = MethodsLeft(r) /\ n = l - k
        /\ k = stage[r] /\ l = Len(Plan(op[r].kind))
  <2>1. Plan(op[r].kind) \in Seq(Methods) /\ stage[r] \in Nat
    BY <1>1, RequestType, PlanType DEF Calls
  <2>2. /\ MembersLeft(r) \in Nat /\ MethodsLeft(r) \in Nat
        /\ Len(Plan(op[r].kind)) \in Nat /\ stage[r] \in Nat
    BY <2>1, LeftType
  <2>3. MethodsLeft(r) = Len(Plan(op[r].kind)) - stage[r]
    BY DEF MethodsLeft
  <2> QED
    BY <2>2, <2>3
<1> DEFINE more == err[r] = "nil" /\ k < l
<1>3. /\ op' = op /\ pc'[r] = (IF more THEN "begin" ELSE "done")
      /\ stage'[r] = (IF more THEN k + 1 ELSE k)
  BY <1>1, <1>2 DEF EndTx, TypeOK
<1>4. PICK s \in {1, 2} : WorkLeft(r) = s + 4 * m + 12 * n
  BY <1>2 DEF WorkLeft
<1>5. CASE more
  <2>1. MethodsLeft(r)' = l - (k + 1)
    BY <1>2, <1>3, <1>5 DEF MethodsLeft
  <2>2. MembersLeft(r)' = 0
    <3>1. Doing(r)' # "CreateTeamWithMembers"
      <4>1. op[r].kind \in Kinds /\ k + 1 \in DOMAIN Plan(op[r].kind) /\ k \in Nat \ {0}
        BY <1>1, <1>2, <1>5, RequestType, LoopIsLast DEF Calls, CallOK
      <4>2. Plan(op[r].kind)[k + 1] # "CreateTeamWithMembers"
        BY <4>1, ListIsFirst
      <4> QED
        BY <1>3, <1>5, <4>2 DEF Doing
    <3> QED
      BY <3>1 DEF MembersLeft
  <2>3. WorkLeft(r)' = 12 + 4 * 0 + 12 * (l - (k + 1))
    BY <1>3, <1>5, <2>1, <2>2, StatementsLeftAt DEF WorkLeft
  <2>4. 12 + 4 * 0 + 12 * (l - (k + 1)) < s + 4 * m + 12 * n
    <3> HIDE DEF more
    <3>1. n = l - k /\ s \in {1, 2}
      BY <1>2, <1>4
    <3> QED
      BY <3>1
  <2> QED
    BY <1>4, <2>3, <2>4
<1>6. CASE ~more
  <2>1. MethodsLeft(r)' = n /\ MembersLeft(r)' = 0
    BY <1>2, <1>3, <1>6 DEF MethodsLeft, MembersLeft, WithMembers, MemberSteps
  <2>2. WorkLeft(r)' = 0 + 4 * 0 + 12 * n
    BY <1>3, <1>6, <2>1, StatementsLeftAt DEF WorkLeft
  <2>3. 0 + 4 * 0 + 12 * n < s + 4 * m + 12 * n
    <3> HIDE DEF more
    <3>1. s \in {1, 2}
      BY <1>4
    <3> QED
      BY <3>1
  <2> QED
    BY <1>4, <2>2, <2>3
<1> QED
  BY <1>5, <1>6

(* A step of one request leaves the others where they are. *)
LEMMA OthersStay ==
  ASSUME DirectoryInv, NEW r \in Requests, Step(r) \/ Settle(r) \/ CallFails(r)
  PROVE  /\ op' = op
         /\ \A q \in Requests \ {r} :
              stage'[q] = stage[q] /\ pc'[q] = pc[q] /\ err'[q] = err[q] /\ mem'[q] = mem[q]
<1>1. TypeOK
  BY DEF DirectoryInv
<1>2. CASE TeamStep(r) \/ AccountStep(r)
  BY <1>1, <1>2, TeamStepAlone, AccountStepAlone DEF Alone
<1>3. CASE Commit(r) \/ Rollback(r) \/ ServerAborts(r) \/ ServerCommits(r)
  <2>1. EndTx(r)
    BY <1>3 DEF Commit, Rollback, ServerAborts, ServerCommits
  <2> QED
    BY <2>1, EndTxMoves
<1>4. CASE Reject(r) \/ Begin(r) \/ CallFails(r) \/ DeadlockDetected(r)
  BY <1>1, <1>4 DEF Reject, Begin, CallFails, DeadlockDetected, TypeOK
<1> QED
  BY <1>2, <1>3, <1>4 DEF Step, Settle

(* Every step of a request, whether it succeeds or fails.                  *)
LEMMA StepIsProgress ==
  ASSUME DirectoryInv, NEW r \in Requests, Step(r) \/ Settle(r) \/ CallFails(r)
  PROVE  WorkLeft(r)' < WorkLeft(r)
<1>1. TypeOK /\ CallOK(r) /\ pc[r] \in Steps
  BY RequestType DEF DirectoryInv
<1>2. CASE TeamStep(r) \/ AccountStep(r)
  BY <1>2, PlainIsProgress, ListIsProgress, EnrolIsProgress DEF TeamStep
<1>3. CASE Commit(r) \/ Rollback(r) \/ ServerAborts(r) \/ ServerCommits(r)
  <2>1. EndTx(r) /\ pc[r] \in {"commit", "rollback", "orphan", "orphanCommit"}
    BY <1>3 DEF Commit, Rollback, ServerAborts, ServerCommits
  <2>2. StatementsLeft[pc[r]] \in {1, 2}
    BY <2>1, StatementsLeftAt
  <2> QED
    BY <2>1, <2>2, EndIsProgress
<1>4. CASE Reject(r)
  <2>1. op' = op /\ stage' = stage /\ pc[r] = "begin" /\ pc'[r] = "done"
    BY <1>1, <1>4 DEF Reject, TypeOK
  <2> QED
    BY <2>1, StatementsLeftAt, StatementIsProgress DEF Steps, WithMembers, MemberSteps
<1>5. CASE Begin(r)
  <2>1. /\ op' = op /\ stage' = stage /\ mem' = mem /\ pc[r] = "begin"
        /\ pc'[r] = First[Doing(r)] /\ Doing(r) \in Methods
    BY <1>1, <1>5, DoingType DEF Begin, TypeOK, CallOK
  <2>2. pc'[r] \in Steps /\ StatementsLeft[pc'[r]] < 12
    BY <2>1, StatementsLeftAt DEF First, Methods, Steps
  <2> QED
    BY <2>1, <2>2, StatementsLeftAt, StatementIsProgress DEF WithMembers
<1>6. CASE CallFails(r)
  <2>1. /\ op' = op /\ stage' = stage /\ pc[r] \in Steps \ {"done", "orphan", "orphanCommit"}
        /\ pc'[r] \in {"done", "orphanCommit", "orphan"}
    BY <1>1, <1>6 DEF CallFails, TypeOK
  <2>2. StatementsLeft[pc'[r]] < StatementsLeft[pc[r]]
    BY <2>1, StatementsLeftAt DEF Steps
  <2> QED
    BY <2>1, <2>2, StatementIsProgress DEF Steps, WithMembers, MemberSteps
<1>7. CASE DeadlockDetected(r)
  <2>1. /\ op' = op /\ stage' = stage /\ pc'[r] = "rollback" /\ BlockedBy(r) # {}
    BY <1>1, <1>7 DEF DeadlockDetected, InCycle, TypeOK
  <2>2. pc[r] \in {"createTeam", "createUser", "updateActive", "updateName", "addMember",
                  "removeMember"}
    BY <2>1 DEF BlockedBy
  <2> QED
    BY <2>1, <2>2, StatementsLeftAt, StatementIsProgress DEF Steps, WithMembers, MemberSteps
<1> QED
  BY <1>2, <1>3, <1>4, <1>5, <1>6, <1>7 DEF Step, Settle

(* The work that is left of a call only shrinks, whether a statement       *)
(* succeeds, fails or is ended by the deadlock detector; with              *)
(* NobodyWaitsInVain and the fairness of the scheduling every call ends.   *)
THEOREM Progress == Spec => EveryStepIsProgress
<1> DEFINE Some == \E r \in Requests : /\ WorkLeft(r)' < WorkLeft(r)
                                       /\ \A q \in Requests \ {r} : WorkLeft(q)' = WorkLeft(q)
<1>1. DirectoryInv /\ [Next]_vars => [Some]_vars
  <2> SUFFICES ASSUME DirectoryInv, Next, ~UNCHANGED vars PROVE Some
    OBVIOUS
  <2>1. PICK r \in Requests : Step(r) \/ Settle(r) \/ CallFails(r)
    BY DEF Next
  <2>2. \A q \in Requests \ {r} : WorkLeft(q)' = WorkLeft(q)
    BY <2>1, OthersStay DEF WorkLeft, MembersLeft, MethodsLeft, Members, Doing
  <2> QED
    BY <2>1, <2>2, StepIsProgress
<1> QED
  BY <1>1, Invariance, PTL DEF Spec, EveryStepIsProgress
==============================================================================
