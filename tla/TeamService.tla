------------------------------ MODULE TeamService ------------------------------
(***************************************************************************)
(* internal/application/team/service.go, cut into steps at the SQL         *)
(* statements.  The Go code between two statements belongs to the step of  *)
(* the first.                                                              *)
(*                                                                         *)
(*   CreateTeam:             createTeam, commit                            *)
(*   CreateTeamWithMembers:  createTeam, (getUser, [createUser, [refetch]  *)
(*                           | [updateActive] [updateName]], addMember)*,  *)
(*                           commit                                        *)
(*   AddMember:              getTeam, getUser, addMember, commit           *)
(*   RemoveMember:           getTeam, getUser, removeMember, commit        *)
(*   GetTeam, GetTeamByName, ListTeams:  one statement, rollback           *)
(***************************************************************************)
EXTENDS DirectoryRepositories

In(r, methods, label) == Doing(r) \in methods /\ Ready(r, label)

Members(r) == op[r].members

(* The loop of CreateTeamWithMembers over the members, before number n. *)
NextMember(r, n) == IF n <= Len(Members(r)) THEN "getUser" ELSE "commit"

(* Mutation: the team is created outside the transaction. *)
InsertTeamAtOnce(r) ==
  /\ In(r, {"CreateTeam", "CreateTeamWithMembers"}, "createTeam")
  /\ Verdict(r, IF SeesTeam(r, op[r].team) THEN "ErrAlreadyExists" ELSE "nil",
             Goto(IF Doing(r) = "CreateTeam" THEN "commit" ELSE NextMember(r, 1)))
  /\ teams' = teams \union {op[r].team}
  /\ UNCHANGED <<users, team_members, op, stage, tx, mem>>

(* Mutation: the error is returned without a Rollback. *)
InsertTeamLeaks(r) ==
  LET found == SeesTeam(r, op[r].team)
  IN  /\ In(r, {"CreateTeam", "CreateTeamWithMembers"}, "createTeam")
      /\ err' = [err EXCEPT ![r] = IF found THEN "ErrAlreadyExists" ELSE @]
      /\ pc' = [pc EXCEPT ![r] = IF found THEN "done"
                                 ELSE IF Doing(r) = "CreateTeam" THEN "commit"
                                 ELSE NextMember(r, 1)]
      /\ tx' = [tx EXCEPT ![r] = IF found THEN Aborted
                                 ELSE [@ EXCEPT !.teams = @ \union {op[r].team}]]
      /\ Private /\ UNCHANGED mem

InsertTeam(r) ==
  /\ In(r, {"CreateTeam", "CreateTeamWithMembers"}, "createTeam")
  /\ CreateTeam(r, op[r].team,
                Goto(IF Doing(r) = "CreateTeam" THEN "commit" ELSE NextMember(r, 1)))

(* updateExistingUser: only the columns that differ from the row that was  *)
(* read are written, the name only if there is one.                        *)
Renamed(member, row) == member.name \notin {None, row.name}
UpdateOf(member, row) ==
  CASE member.state # row.state -> "updateActive"
    [] member.state = row.state /\ Renamed(member, row) -> "updateName"
    [] OTHER -> "addMember"

(* processTeamMember: the user may be known or new. *)
FindMember(r) ==
  /\ In(r, {"CreateTeamWithMembers"}, "getUser")
  /\ GetUserByID(r, Subject(r), [nil |-> UpdateOf(Member(r), UserRow(r, Subject(r))),
                                 ErrUserNotFound |-> "createUser"])

(* Mutation: a conflict starts over with the member. *)
InsertMemberRetries(r) ==
  /\ In(r, {"CreateTeamWithMembers"}, "createUser")
  /\ CreateUser(r, Subject(r), Member(r).name, Member(r).state,
                [nil |-> "addMember", ErrUserExists |-> "getUser"])

InsertMember(r) ==
  /\ In(r, {"CreateTeamWithMembers"}, "createUser")
  /\ CreateUser(r, Subject(r), Member(r).name, Member(r).state,
                [nil |-> "addMember", ErrUserExists |-> "refetch"])

(* The user was inserted by somebody else after all.  The second           *)
(* GetUserByID runs in the same transaction, which the failed INSERT has   *)
(* ended: the error returned is the one of CreateUser.                     *)
FetchAfterConflict(r) ==
  /\ In(r, {"CreateTeamWithMembers"}, "refetch")
  /\ IF tx[r].status = "open" THEN GetUserByID(r, Subject(r), Goto("addMember"))
     ELSE Verdict(r, "ErrUserExists", <<>>) /\ ReadOnly /\ UNCHANGED mem

SetMemberActive(r) ==
  /\ In(r, {"CreateTeamWithMembers"}, "updateActive")
  /\ UpdateUserActive(r, Subject(r), Member(r).state,
       Goto(IF Renamed(Member(r), mem[r].user) THEN "updateName" ELSE "addMember"))
  /\ mem' = [mem EXCEPT ![r].user.state = Member(r).state]

(* Mutation: the answer does not get the new name. *)
SetMemberNameOnly(r) ==
  /\ In(r, {"CreateTeamWithMembers"}, "updateName")
  /\ UpdateUserName(r, Subject(r), Member(r).name, Goto("addMember"))
  /\ UNCHANGED mem

SetMemberName(r) ==
  /\ In(r, {"CreateTeamWithMembers"}, "updateName")
  /\ UpdateUserName(r, Subject(r), Member(r).name, Goto("addMember"))
  /\ mem' = [mem EXCEPT ![r].user.name = Member(r).name]

(* Mutation: the membership is inserted outside the transaction. *)
EnrolMemberAtOnce(r) ==
  /\ In(r, {"CreateTeamWithMembers"}, "addMember")
  /\ Verdict(r, "nil", Goto(NextMember(r, mem[r].next + 1)))
  /\ team_members' = team_members \union {<<op[r].team, Subject(r)>>}
  /\ mem' = [mem EXCEPT ![r].next = @ + 1]
  /\ UNCHANGED <<users, teams, op, stage, tx>>

(* AddMember for a member of the list.  One who is named twice is no error. *)
EnrolMember(r) ==
  LET next == NextMember(r, mem[r].next + 1)
  IN  /\ In(r, {"CreateTeamWithMembers"}, "addMember")
      /\ AddMember(r, op[r].team, Subject(r), [nil |-> next, ErrAlreadyExists |-> next])
      /\ mem' = [mem EXCEPT ![r].listed = @ \union {[id |-> Subject(r), row |-> mem[r].user]},
                            ![r].next = @ + 1]

(* The team of AddMember and RemoveMember; GetTeam and GetTeamByName. *)
FindTeam(r) ==
  \/ /\ In(r, {"AddMember", "RemoveMember"}, "getTeam")
     /\ GetTeamBy(r, op[r].team, Goto("getUser")) /\ UNCHANGED mem
  \/ /\ In(r, {"GetTeam"}, "getTeam") \/ In(r, {"GetTeamByName"}, "getTeamByName")
     /\ GetTeamBy(r, op[r].team, Goto("rollback")) /\ UNCHANGED mem

FindUserOfTeam(r) ==
  /\ In(r, {"AddMember", "RemoveMember"}, "getUser")
  /\ GetUserByID(r, op[r].user,
                 Goto(IF Doing(r) = "AddMember" THEN "addMember" ELSE "removeMember"))

Enrol(r) ==
  /\ In(r, {"AddMember"}, "addMember")
  /\ AddMember(r, op[r].team, op[r].user, Goto("commit")) /\ UNCHANGED mem

Dismiss(r) ==
  /\ In(r, {"RemoveMember"}, "removeMember")
  /\ RemoveMember(r, op[r].team, op[r].user, Goto("commit"))

ReadTeams(r) ==
  In(r, {"ListTeams"}, "listTeams") /\ ListTeams(r, Goto("rollback")) /\ UNCHANGED mem

TeamStep(r) ==
  \/ InsertTeam(r)       \/ FindMember(r)     \/ InsertMember(r)
  \/ FetchAfterConflict(r)
  \/ SetMemberActive(r)  \/ SetMemberName(r)  \/ EnrolMember(r)
  \/ FindTeam(r)         \/ FindUserOfTeam(r)
  \/ Enrol(r)            \/ Dismiss(r)        \/ ReadTeams(r)
==============================================================================
