-------------------------------- MODULE MCWhole --------------------------------
(* A small instance of the whole service for TLC. *)
EXTENDS WholeService, TLC

CONSTANTS a, b, c, t1, t2, t3, ann, p1, q1, r1, r2

Row(state) == [name |-> ann, state |-> state]
Spec1(u, state) == [id |-> u, name |-> ann, state |-> state]
Call(k, t, u, state) ==
  [kind |-> k, team |-> t, user |-> u, name |-> ann, state |-> state, members |-> <<>>]
Create(t, list) == [Call("AddTeam", t, a, "active") EXCEPT !.members = list]
Review(k, p, u) == [kind |-> k, pr |-> p, user |-> u, active |-> TRUE]

(* a and b share a team, b is away, nobody knows c. *)
Pair1 == {[users |-> (a :> Row("active") @@ b :> Row("inactive") @@ c :> NoUser),
           teams |-> {t1}, members |-> {t1} \X {a, b}]}

(* Two teams bring c in and b back, in opposite orders. *)
DirectoryCalls ==
  {Create(t2, <<Spec1(b, "active"), Spec1(c, "active")>>),
   Create(t3, <<Spec1(c, "active"), Spec1(b, "active")>>),
   Call("SetIsActive", t1, c, "inactive")}

(* The only candidate of a is b, once he is back; those of b are a and,    *)
(* from a new team, c.                                                     *)
ReviewCalls == {Review("CreatePR", p1, a), Review("CreatePR", p1, b)}
==============================================================================
