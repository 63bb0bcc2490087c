------------------------------ MODULE Membership ------------------------------
(***************************************************************************)
(* Where the two halves of the service meet: the state of each user and    *)
(* the members of each team, which the choice of reviewers reads without a *)
(* lock.  The routes change them in two ways, each of them one step: a     *)
(* team is added, or a user is set active or inactive.                     *)
(***************************************************************************)
CONSTANTS Users, Teams,
          NewTeams  \* the teams that may be added, with their members' states

VARIABLES users,    \* the state of each user, "absent" when he is unknown
          team_members

vars == <<users, team_members>>

Activity == {"active", "inactive"}

Init ==
  /\ users \in [Users -> {"absent"} \union Activity]
  /\ team_members \in SUBSET (Teams \X Users)

(* All the members of a new team at once.  Unknown users are created, and  *)
(* known ones get the state they are sent with, except those that are kept *)
(* as they are.                                                            *)
AddTeam(new, kept) ==
  LET written == new.members \ kept
  IN  /\ team_members' = team_members \union ({new.team} \X new.members)
      /\ kept \subseteq {u \in new.members : users[u] # "absent"}
      /\ \A u \in Users : <<new.team, u>> \notin team_members
      /\ users' = [u \in Users |-> IF u \in written THEN new.state[u] ELSE users[u]]

SetActive(u, state) ==
  /\ users[u] # "absent"
  /\ users' = [users EXCEPT ![u] = state]
  /\ UNCHANGED team_members

Next ==
  \/ \E new \in NewTeams : \E kept \in SUBSET new.members : AddTeam(new, kept)
  \/ \E u \in Users : \E state \in Activity : SetActive(u, state)

Spec == Init /\ [][Next]_vars
==============================================================================
