---------------------------- MODULE ReviewProgress ----------------------------
(***************************************************************************)
(* Why every call of ReviewService ends, in terms of states and steps:     *)
(* who waits for whom, that somebody can always go on, and that every step *)
(* uses up some of the work that is left.                                  *)
(***************************************************************************)
EXTENDS ReviewInvariant

(* The requests whose uncommitted rows the next statement of r waits for,  *)
(* in one of the ways the statements of Repositories do.                   *)
WaitsForRow(r) ==
  \/ pc[r] = "insert" /\ prs[op[r].pr].status = "NONE"
  \/ pc[r] = "lock" /\ prs[op[r].pr].status # "NONE"
  \/ pc[r] = "update" /\ Row(r).status = "OPEN"

BlockedBy(r) ==
  {q \in Requests \ {r} :
     \/ WaitsForRow(r) /\ prLock[op[r].pr] = q
     \/ pc[r] = "setActive" /\ userLock[op[r].user] = q
     \/ /\ pc[r] \in {"assign", "remove"} /\ op[q].pr = op[r].pr
        /\ (IF pc[r] = "assign" THEN mem[r].selected[mem[r].next] ELSE op[r].user)
             \in tx[q].added \union tx[q].removed}

(* r waits in uow.Begin for a connection of the pool. *)
Starved(r) == pc[r] = "begin" /\ Cardinality(Connected) >= MaxConns

GoesOn(r) == pc[r] # "done" /\ BlockedBy(r) = {} /\ ~Starved(r)

(* Whoever keeps others waiting for a row is not waiting himself, neither  *)
(* for a row nor for the pool; hence there are no circles, and unless all  *)
(* calls are over somebody can go on, however few connections there are.   *)
SomebodyGoesOn ==
  /\ \A r \in Requests : \A q \in BlockedBy(r) : GoesOn(q)
  /\ Quiescent \/ \E r \in Requests : GoesOn(r)

(* GoesOn says of the code what it should: the request has a step, or the  *)
(* server one for it.                                                      *)
GoesOnIsEnabled ==
  \A r \in Requests : GoesOn(r) = ENABLED (Step(r) \/ Settle(r))

(* A bound on the steps that are left of a call: the statements to its     *)
(* end, where each reviewer that is still to be inserted costs two.        *)
StatementsLeft ==
  [begin |-> 16, lock |-> 15, reviewers |-> 14, author |-> 14, team |-> 13,
   candidates |-> 12, remove |-> 11, insert |-> 11, count |-> 8, assign |-> 7,
   reload |-> 6, reloaded |-> 5, update |-> 5, user |-> 6, setActive |-> 5,
   commit |-> 4, rollback |-> 3, orphanCommit |-> 2, orphan |-> 2, done |-> 0]

Left(step, loop) ==
  StatementsLeft[step]
    + (IF step \in {"count", "assign"} THEN 2 * (Len(loop.selected) - loop.next) ELSE 0)

WorkLeft(r) == Left(pc[r], mem[r])

(* Every step of the service is one of a request and brings it nearer to   *)
(* its end; the others stay where they are.  What else happens, a team     *)
(* that is added, leaves all calls, locks and transactions alone.          *)
EveryStepIsProgress ==
  [][\/ \E r \in Requests : /\ WorkLeft(r)' < WorkLeft(r)
                            /\ \A q \in Requests \ {r} : WorkLeft(q)' = WorkLeft(q)
     \/ UNCHANGED <<prs, pr_reviewers, prLock, userLock, tx, op, pc, err, mem>>]_vars
==============================================================================
