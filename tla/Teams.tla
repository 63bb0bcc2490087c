--------------------------------- MODULE Teams ---------------------------------
(***************************************************************************)
(* What the services promise about users and teams: a team appears with    *)
(* all the members it was given and with no other, at one instant; a user  *)
(* is created once and changes only as somebody asked, column by column;   *)
(* members of a team are users.  No transactions, failures or interleaving *)
(* here: each operation is a single step.                                  *)
(***************************************************************************)
EXTENDS Naturals, Sequences

CONSTANTS Users, Teams, Names, None,
          Lists  \* the lists of members a team may be created with

VARIABLES users, teams, team_members

vars == <<users, teams, team_members>>

Activity == {"active", "inactive"}
NoUser == [name |-> None, state |-> "absent"]
Exists(u) == users[u] # NoUser

Init ==
  /\ users \in [Users -> {NoUser} \union [name : Names, state : Activity]]
  /\ teams \in SUBSET Teams
  /\ team_members \in SUBSET {p \in teams \X Users : Exists(p[2])}

Listed(list) == {list[i].id : i \in DOMAIN list}

(* What a column of u may hold after a team was created with the list: the *)
(* value it had, or one the list gives it.                                 *)
MayBeNamed(u, list) ==
  {users[u].name} \union {list[i].name : i \in {j \in DOMAIN list : list[j].id = u}}
MayBeIn(u, list) ==
  {users[u].state} \union {list[i].state : i \in {j \in DOMAIN list : list[j].id = u}}

NewTeam(t, list) ==
  /\ t \notin teams
  /\ teams' = teams \union {t}
  /\ team_members' = team_members \union ({t} \X Listed(list))
  /\ \A u \in Users \ Listed(list) : users'[u] = users[u]
  /\ \A u \in Listed(list) :
       /\ users'[u].name \in MayBeNamed(u, list) \intersect Names
       /\ users'[u].state \in MayBeIn(u, list) \intersect Activity
  /\ users' \in [Users -> {NoUser} \union [name : Names, state : Activity]]

NewUser(u, name, state) ==
  /\ ~Exists(u)
  /\ users' = [users EXCEPT ![u] = [name |-> name, state |-> state]]
  /\ UNCHANGED <<teams, team_members>>

SetActive(u, state) ==
  /\ Exists(u)
  /\ users' = [users EXCEPT ![u].state = state]
  /\ UNCHANGED <<teams, team_members>>

Rename(u, name) ==
  /\ Exists(u)
  /\ users' = [users EXCEPT ![u].name = name]
  /\ UNCHANGED <<teams, team_members>>

Join(t, u) ==
  /\ t \in teams /\ Exists(u)
  /\ team_members' = team_members \union {<<t, u>>}
  /\ UNCHANGED <<users, teams>>

Leave(t, u) ==
  /\ <<t, u>> \in team_members
  /\ team_members' = team_members \ {<<t, u>>}
  /\ UNCHANGED <<users, teams>>

Next ==
  \/ \E t \in Teams : \E list \in Lists : NewTeam(t, list)
  \/ \E u \in Users : \E name \in Names : \E state \in Activity :
       NewUser(u, name, state) \/ SetActive(u, state) \/ Rename(u, name)
  \/ \E t \in Teams : \E u \in Users : Join(t, u) \/ Leave(t, u)

Spec == Init /\ [][Next]_vars
==============================================================================
