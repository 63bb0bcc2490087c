-------------------------- MODULE DirectoryInvariant --------------------------
(***************************************************************************)
(* The inductive invariant behind the safety properties of                 *)
(* DirectoryService: what a transaction has written at each statement of   *)
(* each method, and that what it has written is still current because      *)
(* nobody else can write it (DirectoryInv); and, above it, what each call  *)
(* has read and answered, and which other calls may be why (AnswersInv).   *)
(***************************************************************************)
EXTENDS DirectoryService

Rows == [name : Names, state : Activity]

Statements == Steps \ {"begin", "commit", "rollback", "orphan", "orphanCommit", "done"}

InLoop(r) == Doing(r) = "CreateTeamWithMembers" /\ pc[r] \in MemberSteps

(* The tables hold complete rows, and team_members refers to rows of both. *)
TablesOK ==
  /\ \A u \in Users : users[u] \in {NoUser} \union Rows
  /\ \A t \in Teams : \A u \in Users :
       <<t, u>> \in team_members => t \in teams /\ Exists(users[u])

(* Whatever a transaction has written, committed it would leave the tables *)
(* as they should be.                                                      *)
WrittenOK(r) ==
  /\ \A u \in Users : tx[r].users[u] \in {NoUser} \union Rows
  /\ tx[r].teams \intersect teams = {}
  /\ \A t \in Teams : \A u \in Users :
       <<t, u>> \in tx[r].added => SeesTeam(r, t) /\ Exists(UserRow(r, u))

(* A method has written nothing before its last statement, except inside   *)
(* the loop over the members and after a failed INSERT in it; the loop     *)
(* starts with the first member.                                           *)
CallOK(r) ==
  /\ op[r] \in Workload
  /\ stage[r] \in DOMAIN Plan(op[r].kind)
  /\ pc[r] \in Statements \union {"commit"} => ~Invalid(r)
  /\ pc[r] \in {"begin", "done"} => tx[r] = NoTx
  /\ pc[r] = "rollback" /\ err[r] = "nil" => tx[r] = NoTx
  /\ pc[r] \in Statements /\ ~InLoop(r) /\ pc[r] # "refetch" => tx[r] = NoTx
  /\ pc[r] = "refetch" => tx[r] = Aborted
  /\ Doing(r) # "CreateTeamWithMembers" \/ pc[r] \in {"begin", "createTeam"} =>
       mem[r].next = 1

(* A column CreateTeamWithMembers has written holds what it held before or *)
(* what the list says.                                                     *)
Columns(r, u) ==
  LET row == tx[r].users[u]
      list == Members(r)
  IN  /\ \/ row.name = users[u].name
         \/ \E i \in DOMAIN list : list[i].id = u /\ list[i].name = row.name
      /\ \/ row.state = users[u].state
         \/ \E i \in DOMAIN list : list[i].id = u /\ list[i].state = row.state

(* In the loop of CreateTeamWithMembers the team and the members before    *)
(* the current one are written, and of the users only members.             *)
LoopOK(r) ==
  LET n == mem[r].next
      list == Members(r)
  IN  InLoop(r) =>
        /\ n \in DOMAIN list
        /\ tx[r].teams = {op[r].team} /\ tx[r].removed = {}
        /\ tx[r].added = {op[r].team} \X {list[i].id : i \in 1 .. n - 1}
        /\ \A u \in Users : Writes(r, u) =>
             /\ Columns(r, u)
             /\ \/ \E i \in 1 .. n - 1 : u = list[i].id
                \/ pc[r] \in {"updateName", "addMember"} /\ u = list[n].id
        /\ pc[r] \in {"updateActive", "updateName", "addMember"} =>
             Exists(UserRow(r, list[n].id))
        /\ pc[r] = "updateName" => list[n].name # None

(* What each method is about to commit, or may still commit after its      *)
(* connection broke.                                                       *)
CommitOK(r) ==
  LET t == op[r].team
      u == op[r].user
      row == [name |-> op[r].name, state |-> op[r].state]
  IN  pc[r] \in {"commit", "orphanCommit"} =>
        \/ /\ Doing(r) = "CreateTeamWithMembers"
           /\ tx[r].teams = {t} /\ tx[r].removed = {}
           /\ tx[r].added = {t} \X IdsOf(r)
           /\ \A v \in Users : Writes(r, v) => v \in IdsOf(r) /\ Columns(r, v)
        \/ Doing(r) = "CreateTeam" /\ tx[r] = [NoTx EXCEPT !.teams = {t}]
        \/ Doing(r) = "AddMember" /\ tx[r] = [NoTx EXCEPT !.added = {<<t, u>>}]
        \/ Doing(r) = "RemoveMember" /\ tx[r] = [NoTx EXCEPT !.removed = {<<t, u>>}]
        \/ /\ Doing(r) = "CreateUser" /\ ~Exists(users[u]) /\ row \in Rows
           /\ tx[r] = [NoTx EXCEPT !.users[u] = row]
        \/ /\ Doing(r) = "UpdateUserActive" /\ Exists(users[u])
           /\ tx[r] = [NoTx EXCEPT !.users[u] = [users[u] EXCEPT !.state = row.state]]
        \/ /\ Doing(r) = "UpdateUserName" /\ Exists(users[u]) /\ row \in Rows
           /\ tx[r] = [NoTx EXCEPT !.users[u] = [users[u] EXCEPT !.name = row.name]]

(* One writer at a time for every user and every name of a team. *)
Exclusive ==
  \A r, q \in Requests : r # q =>
    /\ tx[r].teams \intersect tx[q].teams = {}
    /\ \A u \in Users : ~(Writes(r, u) /\ Writes(q, u))

(* The inductive invariant.  A transaction that is about to commit has     *)
(* written what its method promises and nothing else; nobody else has      *)
(* written the same rows; and committed, it would leave every membership   *)
(* with its team and its user.                                             *)
DirectoryInv ==
  /\ TypeOK
  /\ TablesOK
  /\ \A r \in Requests : WrittenOK(r) /\ CallOK(r) /\ LoopOK(r) /\ CommitOK(r)
  /\ Exclusive

-----------------------------------------------------------------------------
(* The second layer: what handlers have read and answered.                 *)

Overtaken(r, u) == Changers(u) \ {r} # {}

Reading == {"GetTeam", "GetTeamByName", "ListTeams", "GetUser", "ListUsers",
            "GetUserTeamName", "ListMembersByTeamID"}

(* Where a call ends without an error, and with which errors a handler.    *)
Expected == [SetIsActive |-> <<{"ErrUserNotFound"}, {}, {}>>,
             AddTeam |-> <<{"ErrAlreadyExists", "ErrInvalidArgument", "ErrUserExists"}>>,
             ShowTeam |-> <<{"ErrTeamNotFound"}, {}>>]

Ending(r) ==
  /\ pc[r] \in {"orphan", "orphanCommit"} => err[r] # "nil"
  /\ pc[r] = "done" /\ err[r] = "nil" => stage[r] = Len(Plan(op[r].kind))
  /\ pc[r] = "rollback" /\ err[r] = "nil" => Doing(r) \in Reading
  /\ pc[r] = "refetch" => Doing(r) = "CreateTeamWithMembers"
  /\ op[r].kind \in DOMAIN Handlers =>
       err[r] \in {"nil", "ErrInternal"} \union Expected[op[r].kind][stage[r]]

(* /users/setIsActive after its update, and after it has read the user.    *)
Updated(r) ==
  LET u == op[r].user
      asked(row) == row.state = op[r].state \/ Askers(u, row.state) \ {r} # {}
  IN  op[r].kind = "SetIsActive" =>
        /\ stage[r] > 1 => Exists(users[u]) /\ asked(users[u])
        /\ stage[r] = 2 /\ pc[r] = "rollback" /\ err[r] = "nil" => asked(mem[r].user)
        /\ stage[r] = 3 /\ err[r] = "nil" => asked(mem[r].user)
        /\ stage[r] = 3 /\ pc[r] = "getTeam" => mem[r].team \in teams

NobodyLeaves == \A p \in Requests : op[p].kind # "RemoveMember"

(* q has created the team. *)
HasCreated(q) == Creates(q) /\ pc[q] = "done" /\ err[q] = "nil"

Enrolled(q) ==
  NobodyLeaves /\ HasCreated(q) => {op[q].team} \X IdsOf(q) \subseteq team_members

(* /team/get after it has found the team, and after it has read the        *)
(* members.                                                                *)
Shown(r) ==
  op[r].kind = "ShowTeam" =>
    /\ stage[r] = 2 \/ (pc[r] = "rollback" /\ err[r] = "nil") => op[r].team \in teams
    /\ NobodyLeaves /\ stage[r] = 2 /\ pc[r] \in {"rollback", "done"} /\ err[r] = "nil" =>
         \A q \in Requests : HasCreated(q) /\ op[q].team = op[r].team =>
           IdsOf(q) \subseteq {e.id : e \in mem[r].listed}

(* /team/add about to insert a member, or after it has met him.            *)
Raced(r) ==
  /\ InLoop(r) /\ pc[r] = "createUser" =>
       /\ ~Writes(r, Subject(r))
       /\ Exists(users[Subject(r)]) => Overtaken(r, Subject(r))
  /\ pc[r] = "refetch" \/ (op[r].kind = "AddTeam" /\ err[r] = "ErrUserExists") =>
       \E u \in Users : u \in IdsOf(r) /\ Exists(users[u]) /\ Overtaken(r, u)

(* The answer of CreateTeamWithMembers names the members before the        *)
(* current one.                                                            *)
Listed(r) ==
  /\ Doing(r) = "CreateTeamWithMembers" /\ pc[r] \in {"begin", "createTeam"} =>
       mem[r].listed = {}
  /\ InLoop(r) =>
       \A e \in mem[r].listed :
         \E i \in DOMAIN Members(r) : i < mem[r].next /\ Members(r)[i].id = e.id

AnswersInv ==
  /\ DirectoryInv
  /\ \A r \in Requests :
       Ending(r) /\ Updated(r) /\ Enrolled(r) /\ Shown(r) /\ Raced(r) /\ Listed(r)
==============================================================================
