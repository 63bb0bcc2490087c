------------------------------ MODULE MCDirectory ------------------------------
(* Small instances of the team and user services for TLC. *)
EXTENDS DirectoryApi, DirectoryProgress, TLC

CONSTANTS a, b, t1, t2, ann, bob, r1, r2, r3

Row(name, state) == [name |-> name, state |-> state]
Spec1(u, name, state) == [id |-> u, name |-> name, state |-> state]

Call(k, t, u, name, state) ==
  [kind |-> k, team |-> t, user |-> u, name |-> name, state |-> state, members |-> <<>>]
Create(t, list) == [Call("AddTeam", t, a, bob, "active") EXCEPT !.members = list]

Nobody == [users |-> [u \in Users |-> NoUser], teams |-> {}, members |-> {}]

(* a and b are known, a is a member of t1. *)
KnownUsers ==
  [users |-> [u \in Users |-> Row(ann, "active")], teams |-> {t1}, members |-> {<<t1, a>>}]

OnlyA == [Nobody EXCEPT !.users[a] = Row(ann, "inactive")]
BothIdle == [Nobody EXCEPT !.users = [u \in Users |-> Row(ann, "inactive")]]

JustNobody == {Nobody}
AllContents == {Nobody, OnlyA, BothIdle, KnownUsers}
Idle == {BothIdle}

(* Two teams that share both members, in the same and in opposite orders   *)
(* and with different columns.                                             *)
AB == Create(t1, <<Spec1(a, bob, "active"), Spec1(b, bob, "active")>>)
AlsoAB == Create(t2, <<Spec1(a, None, "active"), Spec1(b, ann, "active")>>)
BA == Create(t2, <<Spec1(b, bob, "inactive"), Spec1(a, None, "active")>>)

(* Every method of both services and every handler; lists that name        *)
(* somebody twice, that are empty, that have empty fields.                 *)
Reads == {"GetTeam", "GetTeamByName", "ListTeams", "GetUser", "ListUsers",
          "GetUserTeamName", "ListMembersByTeamID", "ShowTeam"}
AllCalls ==
  {AB, AlsoAB, BA}
    \union {Call(k, t1, a, bob, "active") : k \in Reads}
    \union {Call(k, t1, a, bob, "inactive") :
              k \in {"AddMember", "RemoveMember", "UpdateUserActive", "SetIsActive"}}
    \union {Call("SetIsActive", t1, b, bob, "active"), Call("AddMember", t2, b, bob, "active"),
            Call("CreateTeam", t2, a, bob, "active"),
            Call("UpdateUserName", t1, a, bob, "active"),
            Call("UpdateUserName", t1, b, None, "active"),
            Call("CreateUser", t1, b, bob, "inactive"), Call("CreateUser", t1, b, None, "active"),
            Create(t2, <<Spec1(a, bob, "inactive"), Spec1(a, ann, "active")>>),
            Create(t2, <<>>), Create(t2, <<Spec1(None, bob, "active")>>),
            Create(t2, <<Spec1(a, bob, "active"), Spec1(b, None, "active")>>)}

(* A new member in two teams. *)
NewMemberCalls == {Create(t, <<Spec1(a, bob, "active")>>) : t \in {t1, t2}}

(* The same for a known user: one call gives him another name, the other   *)
(* one another state.                                                      *)
OverlappingCalls ==
  {Create(t1, <<Spec1(a, bob, "inactive")>>), Create(t2, <<Spec1(a, ann, "active")>>)}

RequestSymmetry == Permutations(Requests)
==============================================================================
