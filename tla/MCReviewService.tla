--------------------------- MODULE MCReviewService ---------------------------
(* Small instances of ReviewService for TLC. *)
EXTENDS ReviewProgress, TLC

CONSTANTS a, b, c, d, t1, t2, p1, r1, r2, r3

Call(k, p, u, active) == [kind |-> k, pr |-> p, user |-> u, active |-> active]

Everyone(state) == [u \in Users |-> state]

(* One team of all users: everybody active. *)
OneTeam == {[users |-> Everyone("active"), members |-> {t1} \X Users]}

(* The same, or everybody but a is away: no candidates for a creation by a. *)
OnlyA ==
  {[users |-> [Everyone("inactive") EXCEPT ![a] = "active"], members |-> {t1} \X Users]}
SomeAway == OneTeam \union OnlyA

(* a and b, who may create pull requests all the same, are away: two       *)
(* candidates for either.                                                  *)
ABAway ==
  {[users |-> [Everyone("active") EXCEPT ![a] = "inactive", ![b] = "inactive"],
    members |-> {t1} \X Users]}

(* d is a member of t2 as well, which therefore cannot be created. *)
WithT2(directories) == {[dir EXCEPT !.members = @ \union {<<t2, d>>}] : dir \in directories}

(* a works in two teams with one colleague in each, b has no team; or b is *)
(* unknown, a has one colleague and t2 can be created.                     *)
TwoTeams ==
  { [users |-> Everyone("active"),
     members |-> {<<t1, a>>, <<t1, c>>, <<t2, a>>, <<t2, d>>}],
    [users |-> [Everyone("active") EXCEPT ![b] = "absent"], members |-> {t1} \X {a, c}] }

AllDirectories == WithT2(ABAway) \union TwoTeams

(* /team/add for b, who is an author and may be unknown, c, whom it sends  *)
(* away, and d, who comes back by it.                                      *)
NoTeam == {}
OneMoreTeam ==
  {[team |-> t2, members |-> {b, c, d}, state |-> [Everyone("active") EXCEPT ![c] = "inactive"]]}

(* Changes and reads of one open pull request, whose author and reviewers  *)
(* are any of the users: a and b may be either, or come in by a            *)
(* replacement.                                                            *)
ContentionCalls ==
  {Call("ReassignReviewer", p1, u, TRUE) : u \in {a, b}}
    \union {Call("MergePR", p1, a, TRUE), Call("GetPR", p1, a, TRUE)}

(* Two authors create one pull request while it is reassigned and d goes.  *)
CreationCalls ==
  { Call("CreatePR", p1, a, TRUE), Call("CreatePR", p1, b, TRUE),
    Call("ReassignReviewer", p1, c, TRUE), Call("UpdateUserActive", p1, d, FALSE) }

(* Calls that wait for each other: for a key, for two rows, for the pool.  *)
WaitingCalls ==
  { Call("CreatePR", p1, a, TRUE), Call("MergePR", p1, a, TRUE),
    Call("UpdateUserActive", p1, c, FALSE) }

RequestSymmetry == Permutations(Requests)
FullSymmetry ==
  Permutations(Requests) \union Permutations({a, b}) \union Permutations({c, d})
==============================================================================
