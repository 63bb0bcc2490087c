---------------------------- MODULE ServerLifecycle ----------------------------
(***************************************************************************)
(* The server process: cmd/server/main.go with Run and Shutdown of         *)
(* internal/infrastructure/http/server.go.  The main goroutine waits for a *)
(* signal, shuts the HTTP server down and waits for the goroutine that     *)
(* runs it; the deferred pool.Close comes last.                            *)
(***************************************************************************)
EXTENDS Naturals

CONSTANTS
  Clients,     \* the requests that may reach the process
  MaxSignals   \* bound on the signals it is sent

ASSUME SignalsAssumption == MaxSignals \in Nat

VARIABLES
  main,        \* where the main goroutine is
  runner,      \* where the goroutine with server.Run is
  serverSet,   \* Server.server # nil
  inShutdown,  \* http.Server.inShutdown
  quit, done,  \* lengths of the two channels, each of capacity 1
  pool,        \* the pgxpool
  late,        \* Shutdown has given up after its 30 seconds
  request,     \* where the handler of each request is
  signals      \* signals sent so far

vars == <<main, runner, serverSet, inShutdown, quit, done, pool, late, request, signals>>

Alive == main # "exited"

Active == {r \in Clients : request[r] \in {"accepted", "tx", "answering"}}
InTx == {r \in Clients : request[r] = "tx"}

Init ==
  /\ main = "setup" /\ runner = "none"
  /\ serverSet = FALSE /\ inShutdown = FALSE
  /\ quit = 0 /\ done = 0 /\ pool = "open" /\ late = FALSE
  /\ request = [r \in Clients |-> "idle"]
  /\ signals = 0

-----------------------------------------------------------------------------
(* main *)

(* Configuration, pool and services; os.Exit(1) when there is no pool.     *)
Setup ==
  /\ main = "setup"
  /\ main' \in {"notify", "exited"}
  /\ UNCHANGED <<runner, serverSet, inShutdown, quit, done, pool, late, request, signals>>

(* signal.Notify, then go func() { server.Run ... }. *)
Notify ==
  /\ main = "notify" /\ main' = "spawn"
  /\ UNCHANGED <<runner, serverSet, inShutdown, quit, done, pool, late, request, signals>>

Spawn ==
  /\ main = "spawn" /\ main' = "quit" /\ runner' = "start"
  /\ UNCHANGED <<serverSet, inShutdown, quit, done, pool, late, request, signals>>

ReceiveSignal ==
  /\ main = "quit" /\ quit = 1
  /\ main' = "shutdown" /\ quit' = 0
  /\ UNCHANGED <<runner, serverSet, inShutdown, done, pool, late, request, signals>>

(* Server.Shutdown: nothing to do while s.server is nil; otherwise the     *)
(* listeners are closed and the active requests awaited.  s.server is read *)
(* without synchronisation: the outcome is what Run has stored by then.    *)
Shutdown ==
  /\ main = "shutdown"
  /\ main' = IF serverSet THEN "drain" ELSE "done"
  /\ inShutdown' = serverSet
  /\ UNCHANGED <<runner, serverSet, quit, done, pool, late, request, signals>>

(* Mutation: http.Server.Close in place of Shutdown. *)
CloseServer ==
  /\ main = "drain" /\ main' = "done"
  /\ UNCHANGED <<runner, serverSet, inShutdown, quit, done, pool, late, request, signals>>

Drained ==
  /\ main = "drain" /\ Active = {} /\ main' = "done"
  /\ UNCHANGED <<runner, serverSet, inShutdown, quit, done, pool, late, request, signals>>

(* The context of Shutdown expires: an error is logged, no more. *)
Deadline ==
  /\ main = "drain" /\ main' = "done" /\ late' = TRUE
  /\ UNCHANGED <<runner, serverSet, inShutdown, quit, done, pool, request, signals>>

(* Mutation: no deferred pool.Close. *)
ExitAtOnce ==
  /\ main = "done" /\ done = 1
  /\ main' = "exited" /\ done' = 0
  /\ UNCHANGED <<runner, serverSet, inShutdown, quit, pool, late, request, signals>>

(* <-done, and the deferred pool.Close begins. *)
AwaitDone ==
  /\ main = "done" /\ done = 1
  /\ main' = "closing" /\ done' = 0 /\ pool' = "closed"
  /\ UNCHANGED <<runner, serverSet, inShutdown, quit, late, request, signals>>

(* pool.Close returns when every connection has been given back. *)
Exit ==
  /\ main = "closing" /\ InTx = {} /\ main' = "exited"
  /\ UNCHANGED <<runner, serverSet, inShutdown, quit, done, pool, late, request, signals>>

Main == \/ Setup \/ Notify \/ Spawn \/ ReceiveSignal \/ Shutdown
        \/ Drained \/ AwaitDone \/ Exit

-----------------------------------------------------------------------------
(* The goroutine of server.Run *)

(* The router is built and s.server assigned. *)
MakeServer ==
  /\ Alive /\ runner = "start" /\ runner' = "listen" /\ serverSet' = TRUE
  /\ UNCHANGED <<main, inShutdown, quit, done, pool, late, request, signals>>

(* ListenAndServe opens its listener, unless it cannot or Shutdown has     *)
(* been called already.                                                    *)
Listen ==
  /\ Alive /\ runner = "listen"
  /\ runner' \in IF inShutdown THEN {"report"} ELSE {"serving", "report"}
  /\ UNCHANGED <<main, serverSet, inShutdown, quit, done, pool, late, request, signals>>

(* ListenAndServe returns ErrServerClosed as soon as Shutdown has begun. *)
StopServing ==
  /\ Alive /\ runner = "serving" /\ inShutdown /\ runner' = "report"
  /\ UNCHANGED <<main, serverSet, inShutdown, quit, done, pool, late, request, signals>>

(* Mutation: done is signalled for unexpected errors only. *)
ReportOnlyErrors ==
  /\ Alive /\ runner = "report" /\ runner' = "ended"
  /\ done' = IF inShutdown THEN done ELSE 1
  /\ UNCHANGED <<main, serverSet, inShutdown, quit, pool, late, request, signals>>

(* done <- true, whatever Run has returned. *)
Report ==
  /\ Alive /\ runner = "report" /\ runner' = "ended" /\ done' = 1
  /\ UNCHANGED <<main, serverSet, inShutdown, quit, pool, late, request, signals>>

Runner == MakeServer \/ Listen \/ StopServing \/ Report

-----------------------------------------------------------------------------
(* Handlers.  A handler needs a connection of the pool for its transaction *)
(* and writes its answer afterwards; Begin fails on a closed pool.  A      *)
(* request is accepted with its connection, which Shutdown waits for.      *)

To(r, state) ==
  /\ request' = [request EXCEPT ![r] = state]
  /\ UNCHANGED <<main, runner, serverSet, inShutdown, quit, done, pool, late, signals>>

Accept(r) ==
  Alive /\ runner = "serving" /\ ~inShutdown /\ request[r] = "idle" /\ To(r, "accepted")

Acquire(r) ==
  Alive /\ request[r] = "accepted" /\ To(r, IF pool = "open" THEN "tx" ELSE "answering")

Release(r) == Alive /\ request[r] = "tx" /\ To(r, "answering")

Reply(r) == Alive /\ request[r] = "answering" /\ To(r, "answered")

Handler(r) == Acquire(r) \/ Release(r) \/ Reply(r)

(* Mutation: a channel that does not drop. *)
SignalQueued ==
  /\ Alive /\ signals < MaxSignals /\ signals' = signals + 1
  /\ IF main \in {"setup", "notify"} THEN main' = "exited" /\ UNCHANGED quit
     ELSE UNCHANGED main /\ quit' = quit + 1
  /\ UNCHANGED <<runner, serverSet, inShutdown, done, pool, late, request>>

(* SIGINT or SIGTERM: it kills the process before signal.Notify; later it  *)
(* is put into the channel, or dropped when that is full.                  *)
Signal ==
  /\ Alive /\ signals < MaxSignals /\ signals' = signals + 1
  /\ IF main \in {"setup", "notify"} THEN main' = "exited" /\ UNCHANGED quit
     ELSE UNCHANGED main /\ quit' = 1
  /\ UNCHANGED <<runner, serverSet, inShutdown, done, pool, late, request>>

Next ==
  \/ Main \/ Deadline \/ Runner \/ Signal
  \/ \E r \in Clients : Accept(r) \/ Handler(r)

Spec == Init /\ [][Next]_vars

(* Goroutines run.  A handler ends: its context is cancelled after the     *)
(* request timeout at the latest.                                          *)
FairSpec ==
  /\ Spec /\ WF_vars(Main) /\ WF_vars(Runner)
  /\ \A r \in Clients : WF_vars(Handler(r))

-----------------------------------------------------------------------------
(* Type correctness; the channels never hold more than they can.           *)
TypeOK ==
  /\ main \in {"setup", "notify", "spawn", "quit", "shutdown", "drain", "done",
               "closing", "exited"}
  /\ runner \in {"none", "start", "listen", "serving", "report", "ended"}
  /\ serverSet \in BOOLEAN /\ inShutdown \in BOOLEAN /\ late \in BOOLEAN
  /\ quit \in {0, 1} /\ done \in {0, 1}
  /\ pool \in {"open", "closed"}
  /\ request \in [Clients -> {"idle", "accepted", "tx", "answering", "answered"}]
  /\ signals \in 0 .. MaxSignals

(* The process never exits while a handler is inside a transaction, not    *)
(* even after the 30 seconds of Shutdown: pool.Close waits for it.         *)
NoTransactionCutOff == main = "exited" => InTx = {}

(* Unless those 30 seconds have passed, every request that was accepted    *)
(* has been answered when the process exits.                               *)
AnswersUnlessLate ==
  main = "exited" /\ ~late => \A r \in Clients : request[r] \in {"idle", "answered"}

(* What the shutdown relies on.  The channel done is filled by every Run   *)
(* that has returned, and Run returns without Shutdown only if it never served; *)
(* once Shutdown has waited in time nothing is active any more.            *)
BeforeSpawn == Alive => (main \in {"setup", "notify", "spawn"} <=> runner = "none")
ServerStored == inShutdown => serverSet
AllIdle == request = [r \in Clients |-> "idle"]
NeverServed ==
  runner \in {"none", "start", "listen"} \/ (~inShutdown /\ runner # "serving") => AllIdle
DoneMeansReturned ==
  /\ main \notin {"closing", "exited"} => (done = 1 <=> runner = "ended")
  /\ main = "closing" => runner = "ended"
  /\ main = "exited" => runner \in {"none", "ended"}
DrainedInTime ==
  main \in {"done", "closing", "exited"} /\ ~late /\ inShutdown => Active = {}

(* The inductive invariant of the process: the parts above, together with  *)
(* the two properties they justify.                                        *)
ShutdownInv ==
  /\ TypeOK /\ BeforeSpawn /\ ServerStored /\ NeverServed /\ DoneMeansReturned
  /\ DrainedInTime /\ NoTransactionCutOff

(* Who can still do something, without a new client, signal or deadline.   *)
MainGoesOn ==
  \/ main \in {"setup", "notify", "spawn", "shutdown"}
  \/ main = "quit" /\ quit = 1
  \/ main = "drain" /\ Active = {}
  \/ main = "done" /\ done = 1
  \/ main = "closing" /\ InTx = {}

RunnerGoesOn ==
  Alive /\ (runner \in {"start", "listen", "report"} \/ (runner = "serving" /\ inShutdown))

(* The process comes to rest in four ways: it has exited; it serves; it    *)
(* cannot listen and waits for a signal all the same; or main, which       *)
(* called Shutdown before the goroutine had stored its server, waits for   *)
(* the end of a Run that nobody will stop.                                 *)
KnownRestingPlaces ==
  \/ MainGoesOn \/ RunnerGoesOn \/ Active # {}
  \/ main = "exited"
  \/ main = "quit" /\ runner = "serving"
  \/ main = "quit" /\ runner = "ended"
  \/ main = "done" /\ runner = "serving" /\ ~inShutdown

(* Once main has called Shutdown on a server that exists, in whatever      *)
(* state its start is, the process exits.                                  *)
StopsOnceStarted == main = "shutdown" /\ serverSet ~> main = "exited"

(* main.go announces "Shutting down HTTP server..." and then "Server       *)
(* exited": a signal that has been received ends the process.              *)
SignalEndsProcess == main = "shutdown" ~> main = "exited"
==============================================================================
