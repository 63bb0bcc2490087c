--------------------------- MODULE DirectoryProgress ---------------------------
(***************************************************************************)
(* Why every call of the team and user services ends, in terms of states   *)
(* and steps, as ReviewProgress does for pull requests.  Here requests may *)
(* wait for each other in a circle, which the server breaks.               *)
(***************************************************************************)
EXTENDS DirectoryInvariant

(* r waits in uow.Begin for a connection of the pool. *)
Starved(r) ==
  pc[r] = "begin" /\ ~Invalid(r) /\ Cardinality(Connected) >= MaxConns

GoesOn(r) ==
  /\ pc[r] # "done" /\ ~Starved(r)
  /\ BlockedBy(r) = {} \/ InCycle(r)

(* Whoever keeps others waiting is in the middle of his transaction, and   *)
(* unless all calls are over somebody can go on or is in a circle: with    *)
(* any lists of members, any number of requests and a pool of any size.    *)
SomebodyGoesOn ==
  /\ \A r \in Requests : \A q \in BlockedBy(r) : pc[q] \notin {"begin", "done"}
  /\ Quiescent \/ \E r \in Requests : GoesOn(r)

(* GoesOn says of the code what it should: the request has a step, or the  *)
(* server one for it.                                                      *)
GoesOnIsEnabled ==
  \A r \in Requests : GoesOn(r) = ENABLED (Step(r) \/ Settle(r))

(* A bound on the steps that are left of a call: the statements to the end *)
(* of its method, four for each member still to come, and twelve for each  *)
(* method still to come.                                                   *)
StatementsLeft ==
  [begin |-> 12, createTeam |-> 11, getUserTeam |-> 11, getTeam |-> 10, getUser |-> 9,
   createUser |-> 8, updateActive |-> 8, refetch |-> 7, updateName |-> 7, addMember |-> 6,
   removeMember |-> 6, getTeamByName |-> 3, listTeams |-> 3, listUsers |-> 3,
   listMembers |-> 3, commit |-> 2, rollback |-> 2, orphan |-> 1, orphanCommit |-> 1,
   done |-> 0]

WithMembers == {"begin", "createTeam"} \union MemberSteps

MembersLeft(r) ==
  IF Doing(r) = "CreateTeamWithMembers" /\ pc[r] \in WithMembers
  THEN Len(Members(r)) + 1 - mem[r].next ELSE 0

MethodsLeft(r) == Len(Plan(op[r].kind)) - stage[r]

WorkLeft(r) == StatementsLeft[pc[r]] + 4 * MembersLeft(r) + 12 * MethodsLeft(r)

(* Every step is one of a request and brings it nearer to its end; the     *)
(* others stay where they are.                                             *)
EveryStepIsProgress ==
  [][\E r \in Requests : /\ WorkLeft(r)' < WorkLeft(r)
                         /\ \A q \in Requests \ {r} : WorkLeft(q)' = WorkLeft(q)]_vars
==============================================================================
