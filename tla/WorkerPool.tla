----------------------------- MODULE WorkerPool -----------------------------
(***************************************************************************)
(* The worker package (worker/dispatcher.go, worker/worker.go): a          *)
(* dispatcher that reads an unbuffered JobQueue, starts one goroutine per  *)
(* job, and workers that lend their JobChannel to the buffered WorkerPool  *)
(* channel each time they are ready for a job.                             *)
(*                                                                         *)
(* A rendezvous on an unbuffered channel is one action of the two parties. *)
(* The name of a worker stands for its JobChannel.                         *)
(***************************************************************************)
EXTENDS Naturals, Sequences, FiniteSets

CONSTANTS
  Jobs,       \* the jobs callers may Add
  Workers,    \* the workers Run starts
  Stuck,      \* jobs whose Do may never return
  Stoppable,  \* workers on which somebody may call Stop
  NoJob, NoWorker

ASSUME PoolAssumption ==
  /\ IsFiniteSet(Workers)
  /\ Stuck \subseteq Jobs
  /\ Stoppable \subseteq Workers
  /\ NoJob \notin Jobs
  /\ NoWorker \notin Workers

VARIABLES
  job,      \* job[j]: where the goroutine that carries job j stands
  target,   \* target[j]: the jobChannel the dispatch goroutine of j received
  pool,     \* Dispatcher.WorkerPool, a buffered channel of JobChannels
  worker,   \* worker[w]: where the loop of Worker.Start stands
  current,  \* current[w]: the job in whose Do worker w is
  quit      \* the workers with a goroutine of Stop blocked on w.quit

vars == <<job, target, pool, worker, current, quit>>

TypeOK ==
  /\ job \in [Jobs -> {"new", "adding", "dispatching", "sending", "running", "done"}]
  /\ target \in [Jobs -> Workers \union {NoWorker}]
  /\ pool \in Seq(Workers)
  /\ worker \in [Workers -> {"registering", "waiting", "working", "stopped"}]
  /\ current \in [Workers -> Jobs \union {NoJob}]
  /\ quit \in SUBSET Stoppable
  /\ \A j \in Jobs : job[j] = "sending" <=> target[j] # NoWorker

-----------------------------------------------------------------------------
(* NewDispatcher and Run: the pool has room for one channel per worker.     *)

CapacityOneShort == Cardinality(Workers) - 1
Capacity == Cardinality(Workers)

Init ==
  /\ job = [j \in Jobs |-> "new"]
  /\ target = [j \in Jobs |-> NoWorker]
  /\ pool = <<>>
  /\ worker = [w \in Workers |-> "registering"]
  /\ current = [w \in Workers |-> NoJob]
  /\ quit = {}

-----------------------------------------------------------------------------
(* The dispatcher.                                                          *)

\* A caller of Add blocks in the send on JobQueue.
Add(j) ==
  /\ job[j] = "new"
  /\ job' = [job EXCEPT ![j] = "adding"]
  /\ UNCHANGED <<target, pool, worker, current, quit>>

\* dispatch receives the job, Add returns, and a goroutine carries it on.
Dispatch(j) ==
  /\ job[j] = "adding"
  /\ job' = [job EXCEPT ![j] = "dispatching"]
  /\ UNCHANGED <<target, pool, worker, current, quit>>

\* The goroutine of j obtains a worker's channel. The first mutant does not
\* block on an empty pool, the second leaves the channel registered.
TakeChannelOrNone(j) ==
  /\ job[j] = "dispatching"
  /\ job' = [job EXCEPT ![j] = "sending"]
  /\ \/ /\ pool # <<>>
        /\ target' = [target EXCEPT ![j] = Head(pool)]
        /\ pool' = Tail(pool)
     \/ /\ pool = <<>>
        /\ UNCHANGED <<target, pool>>
  /\ UNCHANGED <<worker, current, quit>>

TakeChannelPeeking(j) ==
  /\ job[j] = "dispatching"
  /\ pool # <<>>
  /\ job' = [job EXCEPT ![j] = "sending"]
  /\ target' = [target EXCEPT ![j] = Head(pool)]
  /\ UNCHANGED <<pool, worker, current, quit>>

TakeChannel(j) ==
  /\ job[j] = "dispatching"
  /\ pool # <<>>
  /\ job' = [job EXCEPT ![j] = "sending"]
  /\ target' = [target EXCEPT ![j] = Head(pool)]
  /\ pool' = Tail(pool)
  /\ UNCHANGED <<worker, current, quit>>

\* jobChannel <- job meets the select of the worker that owns the channel. The
\* mutant is a worker that runs Do in a goroutine and goes on to register.
HandOffAsync(j) ==
  /\ job[j] = "sending"
  /\ \E w \in Workers :
       /\ target[j] = w
       /\ worker[w] = "waiting"
       /\ worker' = [worker EXCEPT ![w] = "registering"]
       /\ current' = [current EXCEPT ![w] = j]
  /\ job' = [job EXCEPT ![j] = "running"]
  /\ target' = [target EXCEPT ![j] = NoWorker]
  /\ UNCHANGED <<pool, quit>>

HandOff(j) ==
  /\ job[j] = "sending"
  /\ \E w \in Workers :
       /\ target[j] = w
       /\ worker[w] = "waiting"
       /\ worker' = [worker EXCEPT ![w] = "working"]
       /\ current' = [current EXCEPT ![w] = j]
  /\ job' = [job EXCEPT ![j] = "running"]
  /\ target' = [target EXCEPT ![j] = NoWorker]
  /\ UNCHANGED <<pool, quit>>

-----------------------------------------------------------------------------
(* The worker's loop.                                                       *)

\* w.WorkerPool <- w.JobChannel, which blocks while the pool is full; the loop
\* goes on to its select.
Register(w) ==
  /\ worker[w] = "registering"
  /\ Len(pool) < Capacity
  /\ pool' = Append(pool, w)
  /\ worker' = [worker EXCEPT ![w] = "waiting"]
  /\ UNCHANGED <<job, target, current, quit>>

\* job.Do returns; an error of it is logged and nothing else becomes of it.
\* The mutant returns to the select without registering again.
FinishWithoutRegistering(w) ==
  /\ worker[w] = "working"
  /\ job' = [job EXCEPT ![current[w]] = "done"]
  /\ worker' = [worker EXCEPT ![w] = "waiting"]
  /\ current' = [current EXCEPT ![w] = NoJob]
  /\ UNCHANGED <<target, pool, quit>>

Finish(w) ==
  /\ worker[w] = "working"
  /\ job' = [job EXCEPT ![current[w]] = "done"]
  /\ worker' = [worker EXCEPT ![w] = "registering"]
  /\ current' = [current EXCEPT ![w] = NoJob]
  /\ UNCHANGED <<target, pool, quit>>

\* Stop returns at once; its goroutine blocks on quit.
Stop(w) ==
  /\ w \in Stoppable \ quit
  /\ worker[w] # "stopped"
  /\ quit' = quit \union {w}
  /\ UNCHANGED <<job, target, pool, worker, current>>

\* The worker's select receives from quit. Its channel stays where it is.
Quit(w) ==
  /\ w \in quit
  /\ worker[w] = "waiting"
  /\ worker' = [worker EXCEPT ![w] = "stopped"]
  /\ quit' = quit \ {w}
  /\ UNCHANGED <<job, target, pool, current>>

Next ==
  \/ \E j \in Jobs : Add(j) \/ Dispatch(j) \/ TakeChannel(j) \/ HandOff(j)
  \/ \E w \in Workers : Register(w) \/ Finish(w) \/ Stop(w) \/ Quit(w)

-----------------------------------------------------------------------------
(* Goroutines that can run do run, a Do outside Stuck returns. Nobody has   *)
(* to call Add or Stop.                                                     *)

Fairness ==
  /\ \A j \in Jobs :
       /\ WF_vars(Dispatch(j))
       /\ WF_vars(TakeChannel(j))
       /\ WF_vars(HandOff(j))
  /\ \A w \in Workers :
       /\ WF_vars(Register(w))
       /\ WF_vars(current[w] \notin Stuck /\ Finish(w))
       /\ WF_vars(Quit(w))

Spec == Init /\ [][Next]_vars

FairSpec == Spec /\ Fairness

-----------------------------------------------------------------------------
(* Properties.                                                              *)

InPool(w) == \E i \in 1..Len(pool) : pool[i] = w

\* The JobChannel of a worker is in one place: at most once in the pool, never
\* both in the pool and with a dispatch goroutine, never with two of them, and
\* somebody has it exactly when its worker waits on it (or was stopped there).
\* So two jobs never race for one worker, and no waiting worker is forgotten.
ChannelHasOneOwner ==
  /\ \A i, k \in 1..Len(pool) : pool[i] = pool[k] => i = k
  /\ \A j \in Jobs : job[j] = "sending" => ~InPool(target[j])
  /\ \A j, k \in Jobs :
       job[j] = "sending" /\ job[k] = "sending" /\ target[j] = target[k] => j = k
  /\ \A w \in Workers :
       (InPool(w) \/ \E j \in Jobs : job[j] = "sending" /\ target[j] = w)
         <=> worker[w] \in {"waiting", "stopped"}

\* The pool's capacity is enough: the send that registers a worker never blocks,
\* whatever the other workers and the dispatch goroutines do.
RegisterNeverBlocks ==
  \A w \in Workers : worker[w] = "registering" => Len(pool) < Capacity

\* A job that runs is in the Do of exactly one worker, and a worker in a Do runs
\* a job that is not finished.
RunsOnOneWorker ==
  /\ \A j \in Jobs :
       job[j] = "running" => \E w \in Workers : current[w] = j
  /\ \A w \in Workers : worker[w] = "working" <=> current[w] # NoJob
  /\ \A w \in Workers : current[w] # NoJob => job[current[w]] = "running"
  /\ \A v, w \in Workers : current[v] = current[w] /\ current[v] # NoJob => v = w

\* The workers and the channels implement the service the middlewares rely on:
\* at most one start per job, one job per worker.
Service ==
  INSTANCE JobService WITH
    Slots <- Workers,
    slot <- current,
    status <- [j \in Jobs |->
                 CASE job[j] \in {"new", "adding"} -> "new"
                   [] job[j] \in {"dispatching", "sending"} -> "accepted"
                   [] OTHER -> job[j]]

ImplementsService == Service!Spec

\* Every job given to Add is done in the end, unless Stop stranded it (the
\* dispatch goroutine took the channel of a worker that had left its loop) or no
\* worker is left to take it: each one stopped, or in a Do that does not return.
Stranded(j) == job[j] = "sending" /\ worker[target[j]] = "stopped"

NoWorkerLeft ==
  \A w \in Workers : worker[w] = "stopped" \/ current[w] \in Stuck

JobsComplete ==
  \A j \in Jobs \ Stuck :
    job[j] # "new" ~> (job[j] = "done" \/ Stranded(j) \/ NoWorkerLeft)
=============================================================================
