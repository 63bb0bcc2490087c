------------------------------ MODULE UserService ------------------------------
(***************************************************************************)
(* What changes who may become a reviewer while pull requests are worked   *)
(* on: UpdateUserActive of internal/application/user/service.go, and       *)
(* CreateTeamWithMembers of internal/application/team/service.go.          *)
(*                                                                         *)
(*   UpdateUserActive:  user, setActive, commit                            *)
(***************************************************************************)
EXTENDS Repositories

FindUser(r) ==
  At(r, "user") /\ GetUserByID(r, op[r].user, "setActive")

(* Mutation: it returns with its transaction open. *)
SetActiveLeavesTx(r) ==
  At(r, "setActive") /\ UpdateUserActive(r, op[r].user, op[r].active, "done")

SetActive(r) ==
  At(r, "setActive") /\ UpdateUserActive(r, op[r].user, op[r].active, "commit")

UserStep(r) == FindUser(r) \/ SetActive(r)

(* The states and memberships both halves of the service work on. *)
Shared == INSTANCE Membership

(* CreateTeamWithMembers in one step, the instant at which it commits: up  *)
(* to there it is invisible to others, and from there on it is an AddTeam  *)
(* of module Membership, to which DirectoryService is reduced as well.  It *)
(* waits for the rows it updates, and keeps those whose state was right    *)
(* when it read them.                                                      *)
TeamAdded(new) ==
  \E kept \in SUBSET new.members :
    /\ Shared!AddTeam(new, kept)
    /\ \A u \in new.members \ kept : userLock[u] = None
    /\ UNCHANGED <<prs, pr_reviewers, prLock, userLock, tx, clock, op, pc, err, mem>>
==============================================================================
