--------------------------------- MODULE Com ---------------------------------
(***************************************************************************)
(* The com package: the embedded nsqd that NewCom starts and Close stops,  *)
(* and the consumers, counted by a WaitGroup that Close waits for. One     *)
(* goroutine, the owner, calls NewCom and Close; each consumer belongs to  *)
(* a goroutine that creates it, starts it and may stop it, once.           *)
(* nsqd and go-nsq are external: connecting succeeds while nsqd runs.      *)
(***************************************************************************)
EXTENDS Naturals, FiniteSets

CONSTANTS
  Consumers,
  MaxCalls    \* how many times the owner calls NewCom or Close

ASSUME ComAssumption == IsFiniteSet(Consumers) /\ MaxCalls \in Nat

VARIABLES
  created,  \* unique is not the zero instance: it has its channels
  running,  \* unique.running
  nsqds,    \* how many nsqd have been started and not exited
  exit,     \* where the goroutine that NewCom starts stands
  owner,    \* the call the owner is in
  calls,
  up,       \* what the owner knows: NewCom has returned, and Close not since
  owed,     \* the consumers a Close has to wait for (history)
  wg,       \* consumerWg
  con,      \* con[c]: where the goroutine of consumer c stands
  waiter,   \* waiter[c]: the goroutine of Start that waits and stops the queue
  queue     \* queue[c]: the nsq.Consumer

nsqdVars == <<created, running, nsqds, exit>>
ownerVars == <<owner, calls, up, owed>>
consumerVars == <<wg, con, waiter, queue>>
vars == <<nsqdVars, ownerVars, consumerVars>>

\* The WaitGroup counts the consumers that were started and not stopped: it
\* never gets below zero, where it would panic.
TypeOK ==
  /\ created \in BOOLEAN
  /\ running \in BOOLEAN
  /\ nsqds \in Nat
  /\ exit \in {"none", "waiting", "exiting", "sending"}
  /\ owner \in {"idle", "newcom", "close", "done"}
  /\ calls \in 0..MaxCalls
  /\ up \in BOOLEAN
  /\ owed \in SUBSET Consumers
  /\ wg = Cardinality({c \in Consumers : con[c] = "started"})
  /\ con \in [Consumers -> {"none", "created", "connected", "started", "stopped", "failed"}]
  /\ waiter \in [Consumers -> {"none", "waiting", "ended"}]
  /\ queue \in [Consumers -> {"idle", "connected", "stopped"}]

Init ==
  /\ created = FALSE
  /\ running = FALSE
  /\ nsqds = 0
  /\ exit = "none"
  /\ owner = "idle"
  /\ calls = 0
  /\ up = FALSE
  /\ owed = {}
  /\ wg = 0
  /\ con = [c \in Consumers |-> "none"]
  /\ waiter = [c \in Consumers |-> "none"]
  /\ queue = [c \in Consumers |-> "idle"]

-----------------------------------------------------------------------------
(* NewCom and Close.                                                        *)

CallNewCom ==
  /\ owner = "idle"
  /\ calls < MaxCalls
  /\ calls' = calls + 1
  /\ owner' = "newcom"
  /\ UNCHANGED <<nsqdVars, up, owed, consumerVars>>

\* From getOptions to the goroutine that waits for doneChan.
StartNsqd ==
  /\ running' = TRUE
  /\ created' = TRUE
  /\ nsqds' = nsqds + 1
  /\ exit' = "waiting"
  /\ up' = TRUE

\* NewCom waits for the announcement of the previous nsqd's end, if there was one,
\* and then tests running. The mutant waits for nothing and does not test.
NewComAtOnce ==
  /\ owner = "newcom"
  /\ owner' = "idle"
  /\ StartNsqd
  /\ UNCHANGED <<calls, owed, consumerVars>>

NewCom ==
  /\ owner = "newcom"
  /\ created => exit = "sending"
  /\ owner' = "idle"
  /\ IF running
     THEN exit' = "none" /\ UNCHANGED <<created, running, nsqds, up>>
     ELSE StartNsqd
  /\ UNCHANGED <<calls, owed, consumerVars>>

CallClose ==
  /\ owner = "idle"
  /\ calls < MaxCalls
  /\ calls' = calls + 1
  /\ owner' = "close"
  /\ owed' = {c \in Consumers : con[c] = "started"}
  /\ UNCHANGED <<nsqdVars, up, consumerVars>>

\* WaitForConsumers returns.
ConsumersDone ==
  /\ owner = "close"
  /\ wg = 0
  /\ owner' = "done"
  /\ UNCHANGED <<nsqdVars, calls, up, owed, consumerVars>>

\* doneChan <- true meets the goroutine of NewCom.
Done ==
  /\ owner = "done"
  /\ exit = "waiting"
  /\ exit' = "exiting"
  /\ owner' = "idle"
  /\ up' = FALSE
  /\ UNCHANGED <<created, running, nsqds, calls, owed, consumerVars>>

\* nsqd.Exit; unique.running = false; then exitChan <- true, to the next NewCom.
\* In the mutant the announcement is dropped when nobody waits for it.
ExitUnannounced ==
  /\ exit = "exiting"
  /\ nsqds' = nsqds - 1
  /\ running' = FALSE
  /\ exit' = IF owner = "newcom" THEN "sending" ELSE "none"
  /\ UNCHANGED <<created, ownerVars, consumerVars>>

Exit ==
  /\ exit = "exiting"
  /\ nsqds' = nsqds - 1
  /\ running' = FALSE
  /\ exit' = "sending"
  /\ UNCHANGED <<created, ownerVars, consumerVars>>

-----------------------------------------------------------------------------
(* Consumers.                                                               *)

\* NewConsumer takes the address from opts, which the first NewCom sets.
NewConsumer(c) ==
  /\ con[c] = "none"
  /\ created
  /\ con' = [con EXCEPT ![c] = "created"]
  /\ UNCHANGED <<nsqdVars, ownerVars, wg, waiter, queue>>

\* Start: ConnectToNSQD, and the goroutine that is to stop the consumer when
\* everything stops.
Connect(c) ==
  /\ con[c] = "created"
  /\ IF nsqds > 0
     THEN /\ con' = [con EXCEPT ![c] = "connected"]
          /\ queue' = [queue EXCEPT ![c] = "connected"]
          /\ waiter' = [waiter EXCEPT ![c] = "waiting"]
     ELSE /\ con' = [con EXCEPT ![c] = "failed"]
          /\ UNCHANGED <<queue, waiter>>
  /\ UNCHANGED <<nsqdVars, ownerVars, wg>>

\* Start goes on: Connected = true, consumerWg.Add(1). The mutant forgets to
\* count.
CountForgotten(c) ==
  /\ con[c] = "connected"
  /\ con' = [con EXCEPT ![c] = "started"]
  /\ UNCHANGED <<nsqdVars, ownerVars, wg, waiter, queue>>

Count(c) ==
  /\ con[c] = "connected"
  /\ con' = [con EXCEPT ![c] = "started"]
  /\ wg' = wg + 1
  /\ UNCHANGED <<nsqdVars, ownerVars, waiter, queue>>

\* consumerWg.Wait returns in the goroutine of Start.
WaiterStopsQueue(c) ==
  /\ waiter[c] = "waiting"
  /\ wg = 0
  /\ waiter' = [waiter EXCEPT ![c] = "ended"]
  /\ queue' = [queue EXCEPT ![c] = "stopped"]
  /\ UNCHANGED <<nsqdVars, ownerVars, wg, con>>

\* The mutant counts down for a consumer that never started too.
StopUnchecked(c) ==
  /\ con[c] \in {"started", "failed"}
  /\ con' = [con EXCEPT ![c] = "stopped"]
  /\ queue' = [queue EXCEPT ![c] = "stopped"]
  /\ wg' = IF wg > 0 THEN wg - 1 ELSE 0
  /\ UNCHANGED <<nsqdVars, ownerVars, waiter>>

\* Stop returns at once for a consumer that is not connected.
Stop(c) ==
  /\ con[c] = "started"
  /\ con' = [con EXCEPT ![c] = "stopped"]
  /\ queue' = [queue EXCEPT ![c] = "stopped"]
  /\ wg' = wg - 1
  /\ UNCHANGED <<nsqdVars, ownerVars, waiter>>

Next ==
  \/ CallNewCom \/ NewCom \/ CallClose \/ ConsumersDone \/ Done \/ Exit
  \/ \E c \in Consumers :
       NewConsumer(c) \/ Connect(c) \/ Count(c) \/ WaiterStopsQueue(c) \/ Stop(c)

(* A call that can proceed does, and so do the goroutines. Nobody has to    *)
(* call NewCom or Close, nor create a consumer; consumers need not stop.    *)
Fairness ==
  /\ WF_vars(NewCom) /\ WF_vars(ConsumersDone) /\ WF_vars(Done) /\ WF_vars(Exit)
  /\ \A c \in Consumers : WF_vars(Count(c)) /\ WF_vars(WaiterStopsQueue(c))

Spec == Init /\ [][Next]_vars

FairSpec == Spec /\ Fairness

-----------------------------------------------------------------------------
(* Properties.                                                              *)

\* One nsqd at a time, on whatever ports: NewCom starts one only after Exit has
\* returned for the one before.
OneNsqd == nsqds <= 1 /\ (running => nsqds = 1)

\* When Close goes on to end nsqd, every consumer that had started when Close
\* was called is stopped.
CloseWaitsForConsumers ==
  owner = "done" => \A c \in owed : con[c] = "stopped"

\* The calls in their order come back: a NewCom that finds no nsqd up, and a Close
\* of one that is, if the consumers stop in the end. A second NewCom waits for the
\* end of an nsqd that nobody closes, before its test of "NSQ already running".
CallsReturn ==
  /\ (owner = "newcom" /\ ~up) ~> owner = "idle"
  /\ (owner = "close" /\ up) ~>
       (owner = "idle" \/ \E c \in Consumers : con[c] = "started")

\* The goroutine of Start stops the consumer if everything stops: a consumer that
\* has started and was not stopped still gets messages.
StartedConsumerListens ==
  \A c \in Consumers : con[c] = "started" => queue[c] = "connected"
=============================================================================
