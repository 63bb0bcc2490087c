------------------------- MODULE ServerLifecycleProofs -------------------------
(***************************************************************************)
(* Proofs about ServerLifecycle for any number of requests and signals.    *)
(***************************************************************************)
EXTENDS ServerLifecycle, TLAPS

(* Starting state. *)
LEMMA ShutdownInit == Init => ShutdownInv
<1> SUFFICES ASSUME Init PROVE ShutdownInv
  OBVIOUS
<1>0. signals \in 0 .. MaxSignals BY SignalsAssumption DEF Init
<1>1. TypeOK BY <1>0 DEF Init, TypeOK
<1>2. BeforeSpawn /\ NeverServed /\ DoneMeansReturned
  BY DEF Init, Alive, BeforeSpawn, NeverServed, AllIdle, DoneMeansReturned
<1>3. ServerStored /\ DrainedInTime /\ NoTransactionCutOff
  BY DEF Init, ServerStored, DrainedInTime, NoTransactionCutOff
<1> QED BY <1>1, <1>2, <1>3 DEF ShutdownInv

(* A step of the main goroutine.  Drained and Exit are the two that wait   *)
(* for handlers.                                                           *)
LEMMA MainKeeps == ShutdownInv /\ (Main \/ Deadline) => ShutdownInv'
<1> SUFFICES ASSUME ShutdownInv, Main \/ Deadline PROVE ShutdownInv'
  OBVIOUS
<1> USE DEF ShutdownInv, TypeOK, BeforeSpawn, ServerStored, NeverServed, AllIdle,
            DoneMeansReturned, DrainedInTime, NoTransactionCutOff, Active, InTx, Alive
<1>1. CASE Setup BY <1>1 DEF Setup
<1>2. CASE Notify BY <1>2 DEF Notify
<1>3. CASE Spawn BY <1>3 DEF Spawn
<1>4. CASE ReceiveSignal BY <1>4 DEF ReceiveSignal
<1>5. CASE Shutdown BY <1>5 DEF Shutdown
<1>6. CASE Drained BY <1>6 DEF Drained
<1>7. CASE Deadline BY <1>7 DEF Deadline
<1>8. CASE AwaitDone BY <1>8 DEF AwaitDone
<1>9. CASE Exit BY <1>9 DEF Exit
<1> QED BY <1>1, <1>2, <1>3, <1>4, <1>5, <1>6, <1>7, <1>8, <1>9 DEF Main

(* A step of the goroutine that runs the server: it fills the channel done *)
(* only when it has stopped serving.                                       *)
LEMMA RunnerKeeps == ShutdownInv /\ Runner => ShutdownInv'
<1> SUFFICES ASSUME ShutdownInv, Runner PROVE ShutdownInv'
  OBVIOUS
<1> USE DEF ShutdownInv, TypeOK, BeforeSpawn, ServerStored, NeverServed, AllIdle,
            DoneMeansReturned, DrainedInTime, NoTransactionCutOff, Active, InTx, Alive
<1>1. CASE MakeServer BY <1>1 DEF MakeServer
<1>2. CASE Listen BY <1>2 DEF Listen
<1>3. CASE StopServing BY <1>3 DEF StopServing
<1>4. CASE Report BY <1>4 DEF Report
<1> QED BY <1>1, <1>2, <1>3, <1>4 DEF Runner

(* A step of a handler: it has been accepted while the server was serving, *)
(* and from the beginning of Shutdown the active requests only diminish.   *)
LEMMA HandlerKeeps ==
  ASSUME ShutdownInv, NEW r \in Clients, Accept(r) \/ Handler(r)
  PROVE  ShutdownInv'
<1>1. TypeOK /\ TypeOK'
  BY DEF ShutdownInv, TypeOK, Accept, Handler, Acquire, Release, Reply, To
<1>2. main # "exited" /\ UNCHANGED <<main, runner, serverSet, inShutdown, done, late>>
  BY DEF Alive, Accept, Handler, Acquire, Release, Reply, To
<1>3. runner \notin {"none", "start", "listen"} /\ (inShutdown \/ runner = "serving")
  <2>1. CASE Accept(r) BY <2>1 DEF Accept
  <2>2. CASE Handler(r)
    <3>1. request[r] # "idle" BY <2>2 DEF Handler, Acquire, Release, Reply
    <3> QED BY <3>1 DEF ShutdownInv, NeverServed, AllIdle
  <2> QED BY <2>1, <2>2
<1>4. inShutdown => Active' \subseteq Active
  BY <1>1 DEF TypeOK, Active, Accept, Handler, Acquire, Release, Reply, To
<1>5. BeforeSpawn' /\ ServerStored' /\ DoneMeansReturned'
  BY <1>2 DEF ShutdownInv, BeforeSpawn, ServerStored, DoneMeansReturned, Alive
<1>6. NeverServed' /\ NoTransactionCutOff'
  BY <1>2, <1>3 DEF NeverServed, NoTransactionCutOff
<1>7. DrainedInTime'
  BY <1>2, <1>4 DEF ShutdownInv, DrainedInTime
<1> QED BY <1>1, <1>5, <1>6, <1>7 DEF ShutdownInv

(* A signal: before signal.Notify it kills a process that serves nobody.   *)
LEMMA SignalKeeps == ShutdownInv /\ Signal => ShutdownInv'
<1> SUFFICES ASSUME ShutdownInv, Signal PROVE ShutdownInv'
  OBVIOUS
<1>1. signals' \in 0 .. MaxSignals
  BY SignalsAssumption DEF ShutdownInv, TypeOK, Signal
<1>2. CASE main \in {"setup", "notify"}
  BY <1>1, <1>2 DEF ShutdownInv, TypeOK, BeforeSpawn, ServerStored, NeverServed, AllIdle,
     DoneMeansReturned, DrainedInTime, NoTransactionCutOff, Active, InTx, Alive, Signal
<1>3. CASE main \notin {"setup", "notify"}
  BY <1>1, <1>3 DEF ShutdownInv, TypeOK, BeforeSpawn, ServerStored, NeverServed, AllIdle,
     DoneMeansReturned, DrainedInTime, NoTransactionCutOff, Active, InTx, Alive, Signal
<1> QED BY <1>2, <1>3

(* The invariant of the process: how the channels, the server's flag and   *)
(* the active requests hang together in main.go and server.go.             *)
THEOREM ShutdownInvariance == Spec => []ShutdownInv
<1>1. ShutdownInv /\ [Next]_vars => ShutdownInv'
  <2> SUFFICES ASSUME ShutdownInv, [Next]_vars PROVE ShutdownInv'
    OBVIOUS
  <2>1. CASE UNCHANGED vars
    BY <2>1 DEF vars, ShutdownInv, TypeOK, BeforeSpawn, ServerStored, NeverServed, AllIdle,
       DoneMeansReturned, DrainedInTime, NoTransactionCutOff, Active, InTx, Alive
  <2> QED BY <2>1, MainKeeps, RunnerKeeps, HandlerKeeps, SignalKeeps DEF Next
<1> QED BY <1>1, ShutdownInit, PTL DEF Spec

(* Every variable of the process keeps its type. *)
THEOREM TypeCorrect == Spec => []TypeOK
<1>1. ShutdownInv => TypeOK BY DEF ShutdownInv
<1> QED BY <1>1, ShutdownInvariance, PTL

(* pool.Close, deferred in main.go, waits: the process never exits while a *)
(* handler is inside a transaction.                                        *)
THEOREM TransactionsEnd == Spec => []NoTransactionCutOff
<1>1. ShutdownInv => NoTransactionCutOff BY DEF ShutdownInv
<1> QED BY <1>1, ShutdownInvariance, PTL

(* Shutdown waits: unless its 30 seconds have passed, the process does not *)
(* exit before every accepted request has been answered.                   *)
THEOREM AnswersGiven == Spec => []AnswersUnlessLate
<1>1. ShutdownInv => AnswersUnlessLate
  BY DEF ShutdownInv, TypeOK, NeverServed, AllIdle, DoneMeansReturned, DrainedInTime, Active,
     AnswersUnlessLate
<1> QED BY <1>1, ShutdownInvariance, PTL

(* Server.Run and Server.Shutdown are not synchronised.  That Shutdown     *)
(* finds no server yet is the only way in which a process that has         *)
(* received a signal can come to a halt before it exits; without a signal  *)
(* it halts only where it serves or could not listen.                      *)
THEOREM RestingPlaces == Spec => []KnownRestingPlaces
<1>1. ASSUME ShutdownInv PROVE KnownRestingPlaces
  <2>1. CASE (main = "done" /\ done = 0) \/ (main = "quit" /\ quit = 0)
    <3>1. runner \in {"start", "listen", "serving", "report"} \/ (main = "quit" /\ runner = "ended")
      BY <1>1, <2>1 DEF ShutdownInv, TypeOK, BeforeSpawn, DoneMeansReturned, Alive
    <3> QED BY <2>1, <3>1 DEF KnownRestingPlaces, RunnerGoesOn, Alive
  <2>2. CASE main \in {"drain", "closing"}
    BY <2>2 DEF KnownRestingPlaces, MainGoesOn, Active, InTx
  <2>3. CASE \/ main \in {"setup", "notify", "spawn", "shutdown", "exited"}
             \/ (main = "done" /\ done = 1) \/ (main = "quit" /\ quit = 1)
    BY <2>3 DEF KnownRestingPlaces, MainGoesOn
  <2> QED BY <1>1, <2>1, <2>2, <2>3 DEF ShutdownInv, TypeOK
<1> QED BY <1>1, ShutdownInvariance, PTL
==============================================================================
