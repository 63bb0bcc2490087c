------------------------------ MODULE UserAccounts ------------------------------
(***************************************************************************)
(* internal/application/user/service.go, the whole of it, over the tables  *)
(* of Directory.                                                           *)
(*                                                                         *)
(*   CreateUser:           createUser, commit                              *)
(*   UpdateUserActive:     getUser, updateActive, commit                   *)
(*   UpdateUserName:       updateName, commit                              *)
(*   GetUserTeamName:      getUserTeam, [getTeam,] rollback                *)
(*   GetUser, ListUsers, ListMembersByTeamID:  one statement, rollback     *)
(***************************************************************************)
EXTENDS TeamService

InsertUser(r) ==
  /\ In(r, {"CreateUser"}, "createUser")
  /\ CreateUser(r, op[r].user, op[r].name, op[r].state, Goto("commit"))

FindUser(r) ==
  /\ In(r, {"UpdateUserActive", "GetUser"}, "getUser")
  /\ GetUserByID(r, op[r].user,
                 Goto(IF Doing(r) = "GetUser" THEN "rollback" ELSE "updateActive"))

(* Mutation: it returns with its transaction open. *)
SetActiveLeavesTx(r) ==
  /\ In(r, {"UpdateUserActive"}, "updateActive")
  /\ UpdateUserActive(r, op[r].user, op[r].state, Goto("done")) /\ UNCHANGED mem

SetActive(r) ==
  /\ In(r, {"UpdateUserActive"}, "updateActive")
  /\ UpdateUserActive(r, op[r].user, op[r].state, Goto("commit")) /\ UNCHANGED mem

Rename(r) ==
  /\ In(r, {"UpdateUserName"}, "updateName")
  /\ UpdateUserName(r, op[r].user, op[r].name, Goto("commit")) /\ UNCHANGED mem

(* Mutation: having no team is an error. *)
FindTeamOrFail(r) ==
  /\ In(r, {"GetUserTeamName"}, "getUserTeam")
  /\ GetTeamIDByUserID(r, op[r].user, Goto("getTeam"))

(* A user without a team has the empty team name. *)
FindTeamOfUser(r) ==
  /\ In(r, {"GetUserTeamName"}, "getUserTeam")
  /\ GetTeamIDByUserID(r, op[r].user, [nil |-> "getTeam", ErrUserNoTeam |-> "rollback"])

ReadTeamName(r) ==
  /\ In(r, {"GetUserTeamName"}, "getTeam")
  /\ GetTeamBy(r, mem[r].team, Goto("rollback")) /\ UNCHANGED mem

ReadUsers(r) ==
  \/ In(r, {"ListUsers"}, "listUsers") /\ ListUsers(r, Goto("rollback"))
  \/ /\ In(r, {"ListMembersByTeamID"}, "listMembers")
     /\ ListMembersByTeamID(r, op[r].team, Goto("rollback"))

AccountStep(r) ==
  \/ InsertUser(r)  \/ FindUser(r)  \/ SetActive(r)  \/ Rename(r)
  \/ FindTeamOfUser(r)  \/ ReadTeamName(r)  \/ ReadUsers(r)
==============================================================================
