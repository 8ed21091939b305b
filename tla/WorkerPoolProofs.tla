-------------------------- MODULE WorkerPoolProofs --------------------------
(***************************************************************************)
(* WorkerPool for any set of jobs and any finite set of workers: its       *)
(* invariants, that a registration never blocks, and that it implements    *)
(* JobService.                                                             *)
(***************************************************************************)
EXTENDS WorkerPool, FiniteSetTheorems, SequenceTheorems, TLAPS

\* The inductive invariant: ChannelHasOneOwner needs the types, and the two
\* directions of its last conjunct need each other.
IInv == TypeOK /\ ChannelHasOneOwner /\ RunsOnOneWorker

\* What the pool holds after its head is taken or a channel is appended.
LEMMA PoolTail ==
  ASSUME NEW s \in Seq(Workers), s # <<>>,
         \A i, k \in 1..Len(s) : s[i] = s[k] => i = k
  PROVE  /\ Tail(s) \in Seq(Workers)
         /\ Head(s) \in Workers
         /\ \A i, k \in 1..Len(Tail(s)) : Tail(s)[i] = Tail(s)[k] => i = k
         /\ \A w : (\E i \in 1..Len(Tail(s)) : Tail(s)[i] = w)
                     <=> ((\E i \in 1..Len(s) : s[i] = w) /\ w # Head(s))
<1>1. /\ Tail(s) \in Seq(Workers)
      /\ Head(s) = s[1]
      /\ Head(s) \in Workers
      /\ Len(s) \in Nat \ {0}
      /\ Len(Tail(s)) = Len(s) - 1
      /\ \A i \in 1..Len(Tail(s)) : Tail(s)[i] = s[i + 1]
  OBVIOUS
<1>2. \A i, k \in 1..Len(Tail(s)) : Tail(s)[i] = Tail(s)[k] => i = k
  BY <1>1
<1>3. ASSUME NEW w, NEW i \in 1..Len(Tail(s)), Tail(s)[i] = w
      PROVE  (\E n \in 1..Len(s) : s[n] = w) /\ w # Head(s)
  <2>1. i + 1 \in 1..Len(s) /\ s[i + 1] = w /\ i + 1 # 1 /\ 1 \in 1..Len(s)
    BY <1>1, <1>3
  <2>2. QED
    BY <1>1, <2>1
<1>4. ASSUME NEW w, NEW i \in 1..Len(s), s[i] = w, w # Head(s)
      PROVE  \E n \in 1..Len(Tail(s)) : Tail(s)[n] = w
  <2>1. i - 1 \in 1..Len(Tail(s)) /\ Tail(s)[i - 1] = w
    BY <1>1, <1>4
  <2>2. QED
    BY <2>1
<1>5. QED
  BY <1>1, <1>2, <1>3, <1>4

LEMMA PoolAppend ==
  ASSUME NEW s \in Seq(Workers), NEW v \in Workers,
         \A i, k \in 1..Len(s) : s[i] = s[k] => i = k,
         \A i \in 1..Len(s) : s[i] # v
  PROVE  /\ Append(s, v) \in Seq(Workers)
         /\ \A i, k \in 1..Len(Append(s, v)) : Append(s, v)[i] = Append(s, v)[k] => i = k
         /\ \A w : (\E i \in 1..Len(Append(s, v)) : Append(s, v)[i] = w)
                     <=> ((\E i \in 1..Len(s) : s[i] = w) \/ w = v)
<1>1. /\ Append(s, v) \in Seq(Workers)
      /\ Len(s) \in Nat
      /\ Len(Append(s, v)) = Len(s) + 1
      /\ \A i \in 1..Len(s) : Append(s, v)[i] = s[i]
      /\ Append(s, v)[Len(s) + 1] = v
  OBVIOUS
<1>2. QED
  BY <1>1

\* A pool without repetition that lacks the channel of one worker has room.
LEMMA PoolHasRoom ==
  ASSUME NEW s \in Seq(Workers), NEW v \in Workers,
         \A i, k \in 1..Len(s) : s[i] = s[k] => i = k,
         \A i \in 1..Len(s) : s[i] # v
  PROVE  Len(s) < Capacity
<1> DEFINE others == Workers \ {v}
<1>1. s \in Injection(1..Len(s), others)
  BY DEF Injection, IsInjective
<1>2. IsFiniteSet(Workers) /\ IsFiniteSet(others)
  BY PoolAssumption, FS_RemoveElement
<1>3. Cardinality(others) = Cardinality(Workers) - 1 /\ Cardinality(Workers) \in Nat
  BY <1>2, FS_RemoveElement, FS_CardinalityType
<1>4. IsFiniteSet(1..Len(s)) /\ Cardinality(1..Len(s)) = Len(s)
  <2>1. Len(s) \in Nat
    OBVIOUS
  <2>2. IsFiniteSet(1..Len(s)) /\ Cardinality(1..Len(s)) = IF 1 > Len(s) THEN 0 ELSE Len(s) - 1 + 1
    BY <2>1, FS_Interval
  <2>3. QED
    BY <2>1, <2>2
<1>5. Cardinality(1..Len(s)) <= Cardinality(others)
  BY <1>1, <1>2, FS_Injection
<1>6. QED
  BY <1>3, <1>4, <1>5 DEF Capacity

-----------------------------------------------------------------------------
(* The invariant.                                                           *)

LEMMA InitIInv == Init => IInv
<1> SUFFICES ASSUME Init PROVE IInv
  OBVIOUS
<1>1. TypeOK
  BY DEF Init, TypeOK
<1>2. ChannelHasOneOwner
  BY DEF Init, ChannelHasOneOwner, InPool
<1>3. RunsOnOneWorker
  BY PoolAssumption DEF Init, RunsOnOneWorker
<1>4. QED
  BY <1>1, <1>2, <1>3 DEF IInv

LEMMA NextIInv == IInv /\ [Next]_vars => IInv'
<1> SUFFICES ASSUME IInv, [Next]_vars PROVE IInv'
  OBVIOUS
<1> USE PoolAssumption DEF IInv
<1>1. ASSUME NEW j \in Jobs, Add(j) PROVE IInv'
  BY <1>1 DEF Add, TypeOK, ChannelHasOneOwner, InPool, RunsOnOneWorker
<1>2. ASSUME NEW j \in Jobs, Dispatch(j) PROVE IInv'
  BY <1>2 DEF Dispatch, TypeOK, ChannelHasOneOwner, InPool, RunsOnOneWorker
<1>3. ASSUME NEW j \in Jobs, TakeChannel(j) PROVE IInv'
  <2>1. /\ Tail(pool) \in Seq(Workers)
        /\ Head(pool) \in Workers
        /\ \A i, k \in 1..Len(Tail(pool)) : Tail(pool)[i] = Tail(pool)[k] => i = k
        /\ \A w : (\E i \in 1..Len(Tail(pool)) : Tail(pool)[i] = w) <=> (InPool(w) /\ w # Head(pool))
    BY <1>3, PoolTail DEF TakeChannel, TypeOK, ChannelHasOneOwner, InPool
  <2>2. InPool(Head(pool)) /\ \A w : InPool(w)' <=> (InPool(w) /\ w # Head(pool))
    <3>1. 1 \in 1..Len(pool) /\ pool[1] = Head(pool)
      BY <1>3 DEF TakeChannel, TypeOK
    <3>2. QED
      BY <1>3, <2>1, <3>1 DEF TakeChannel, InPool
  <2>3. TypeOK'
    BY <1>3, <2>1 DEF TakeChannel, TypeOK
  <2>4. ChannelHasOneOwner'
    <3>1. (\A i, k \in 1..Len(pool) : pool[i] = pool[k] => i = k)'
      BY <1>3, <2>1 DEF TakeChannel
    <3>2. (\A w \in Workers :
            (InPool(w) \/ \E k \in Jobs : job[k] = "sending" /\ target[k] = w)
              <=> worker[w] \in {"waiting", "stopped"})'
      BY <1>3, <2>1, <2>2 DEF TakeChannel, TypeOK, ChannelHasOneOwner
    <3>3. (\A k \in Jobs : job[k] = "sending" => ~InPool(target[k]))'
      BY <1>3, <2>2 DEF TakeChannel, TypeOK, ChannelHasOneOwner
    <3>4. (\A i, k \in Jobs :
            job[i] = "sending" /\ job[k] = "sending" /\ target[i] = target[k] => i = k)'
      BY <1>3, <2>2 DEF TakeChannel, TypeOK, ChannelHasOneOwner
    <3>5. QED
      BY <3>1, <3>2, <3>3, <3>4 DEF ChannelHasOneOwner
  <2>5. RunsOnOneWorker'
    BY <1>3 DEF TakeChannel, TypeOK, RunsOnOneWorker
  <2>6. QED
    BY <2>3, <2>4, <2>5
<1>4. ASSUME NEW j \in Jobs, HandOff(j) PROVE IInv'
  <2>1. PICK w \in Workers :
          /\ target[j] = w
          /\ worker[w] = "waiting"
          /\ worker' = [worker EXCEPT ![w] = "working"]
          /\ current' = [current EXCEPT ![w] = j]
    BY <1>4 DEF HandOff
  <2>2. TypeOK'
    BY <1>4, <2>1 DEF HandOff, TypeOK
  <2>3. ChannelHasOneOwner'
    BY <1>4, <2>1 DEF HandOff, TypeOK, ChannelHasOneOwner, InPool
  <2>4. RunsOnOneWorker'
    BY <1>4, <2>1 DEF HandOff, TypeOK, RunsOnOneWorker
  <2>5. QED
    BY <2>2, <2>3, <2>4
<1>5. ASSUME NEW w \in Workers, Register(w) PROVE IInv'
  <2>1. \A i \in 1..Len(pool) : pool[i] # w
    BY <1>5 DEF Register, TypeOK, ChannelHasOneOwner, InPool
  <2>2. /\ Append(pool, w) \in Seq(Workers)
        /\ (\A i, k \in 1..Len(pool) : pool[i] = pool[k] => i = k)'
        /\ \A v : InPool(v)' <=> (InPool(v) \/ v = w)
    BY <1>5, <2>1, PoolAppend DEF Register, TypeOK, ChannelHasOneOwner, InPool
  <2>3. TypeOK'
    BY <1>5, <2>2 DEF Register, TypeOK
  <2>4. \A j \in Jobs : job[j] = "sending" => target[j] # w
    BY <1>5 DEF Register, ChannelHasOneOwner
  <2>5. ChannelHasOneOwner'
    BY <1>5, <2>2, <2>4 DEF Register, TypeOK, ChannelHasOneOwner
  <2>6. RunsOnOneWorker'
    BY <1>5 DEF Register, TypeOK, RunsOnOneWorker
  <2>7. QED
    BY <2>3, <2>5, <2>6
<1>6. ASSUME NEW w \in Workers, Finish(w) PROVE IInv'
  <2>1. current[w] \in Jobs /\ job[current[w]] = "running"
    BY <1>6 DEF Finish, TypeOK, RunsOnOneWorker
  <2>2. TypeOK'
    BY <1>6, <2>1 DEF Finish, TypeOK
  <2>3. ChannelHasOneOwner'
    BY <1>6, <2>1 DEF Finish, TypeOK, ChannelHasOneOwner, InPool
  <2>4. RunsOnOneWorker'
    BY <1>6, <2>1 DEF Finish, TypeOK, RunsOnOneWorker
  <2>5. QED
    BY <2>2, <2>3, <2>4
<1>7. ASSUME NEW w \in Workers, Stop(w) PROVE IInv'
  BY <1>7 DEF Stop, TypeOK, ChannelHasOneOwner, InPool, RunsOnOneWorker
<1>8. ASSUME NEW w \in Workers, Quit(w) PROVE IInv'
  <2>1. TypeOK' /\ RunsOnOneWorker'
    BY <1>8 DEF Quit, TypeOK, RunsOnOneWorker
  <2>2. ChannelHasOneOwner'
    BY <1>8 DEF Quit, TypeOK, ChannelHasOneOwner, InPool
  <2>3. QED
    BY <2>1, <2>2
<1>9. CASE UNCHANGED vars
  BY <1>9 DEF vars, TypeOK, ChannelHasOneOwner, InPool, RunsOnOneWorker
<1>10. QED
  BY <1>1, <1>2, <1>3, <1>4, <1>5, <1>6, <1>7, <1>8, <1>9 DEF Next

LEMMA Invariance == Spec => []IInv
  BY InitIInv, NextIInv, PTL DEF Spec

\* Every reachable state has the types of the variables' declarations, and a
\* dispatch goroutine holds a channel exactly while it sends on it.
THEOREM TypeCorrect == Spec => []TypeOK
<1>1. IInv => TypeOK
  BY DEF IInv
<1>2. QED
  BY <1>1, Invariance, PTL

\* A JobChannel is lent to one job at a time and never lost while its worker
\* runs, for any number of jobs and workers and any Stop calls.
THEOREM ChannelOwnership == Spec => []ChannelHasOneOwner
<1>1. IInv => ChannelHasOneOwner
  BY DEF IInv
<1>2. QED
  BY <1>1, Invariance, PTL

\* No job runs on two workers and no worker loses track of its job.
THEOREM OneWorkerPerJob == Spec => []RunsOnOneWorker
<1>1. IInv => RunsOnOneWorker
  BY DEF IInv
<1>2. QED
  BY <1>1, Invariance, PTL

\* The capacity NewDispatcher gives the WorkerPool channel, one slot per worker,
\* is enough for a registration never to block: the channels in the pool are
\* distinct and the registering worker's is not among them.
THEOREM PoolNeverFull == Spec => []RegisterNeverBlocks
<1>1. IInv => RegisterNeverBlocks
  <2> SUFFICES ASSUME IInv, NEW w \in Workers, worker[w] = "registering"
               PROVE  Len(pool) < Capacity
    BY DEF RegisterNeverBlocks
  <2>1. \A i \in 1..Len(pool) : pool[i] # w
    BY DEF IInv, TypeOK, ChannelHasOneOwner, InPool
  <2>2. QED
    BY <2>1, PoolHasRoom DEF IInv, TypeOK, ChannelHasOneOwner
<1>2. QED
  BY <1>1, Invariance, PTL

-----------------------------------------------------------------------------
(* Refinement: HandOff is the service's Start, Finish its Finish, Dispatch  *)
(* its Accept; every other step stutters.                                   *)

LEMMA StepSimulation == IInv /\ [Next]_vars => [Service!Next]_(Service!vars)
<1> DEFINE status(j) == CASE job[j] \in {"new", "adding"} -> "new"
                          [] job[j] \in {"dispatching", "sending"} -> "accepted"
                          [] OTHER -> job[j]
<1> SUFFICES ASSUME IInv, [Next]_vars PROVE [Service!Next]_(Service!vars)
  OBVIOUS
<1> USE PoolAssumption DEF IInv, TypeOK
<1>1. ASSUME NEW j \in Jobs, Add(j) \/ TakeChannel(j)
      PROVE  UNCHANGED Service!vars
  <2>1. UNCHANGED current /\ \A k \in Jobs : status(k)' = status(k)
    BY <1>1 DEF Add, TakeChannel
  <2>2. QED
    BY <2>1 DEF Service!vars
<1>2. ASSUME NEW j \in Jobs, Dispatch(j)
      PROVE  Service!Accept(j)
  <2>1. /\ status(j) = "new" /\ status(j)' = "accepted"
        /\ \A k \in Jobs \ {j} : status(k)' = status(k)
        /\ UNCHANGED current
    BY <1>2 DEF Dispatch
  <2>2. QED
    BY <2>1 DEF Service!Accept
<1>3. ASSUME NEW j \in Jobs, HandOff(j)
      PROVE  \E w \in Workers : Service!Start(j, w)
  <2>1. PICK w \in Workers : worker[w] = "waiting" /\ current' = [current EXCEPT ![w] = j]
    BY <1>3 DEF HandOff
  <2>2. current[w] = NoJob
    BY <2>1 DEF RunsOnOneWorker
  <2>3. /\ status(j) = "accepted" /\ status(j)' = "running"
        /\ \A k \in Jobs \ {j} : status(k)' = status(k)
    BY <1>3 DEF HandOff
  <2>4. Service!Start(j, w)
    BY <2>1, <2>2, <2>3 DEF Service!Start
  <2>5. QED
    BY <2>4
<1>4. ASSUME NEW w \in Workers, Finish(w)
      PROVE  current[w] \in Jobs /\ Service!Finish(current[w], w)
  <2>1. current[w] \in Jobs /\ job[current[w]] = "running"
    BY <1>4 DEF Finish, RunsOnOneWorker
  <2>2. /\ status(current[w]) = "running"
        /\ current' = [current EXCEPT ![w] = NoJob]
        /\ job' = [job EXCEPT ![current[w]] = "done"]
    BY <1>4, <2>1 DEF Finish
  <2>3. QED
    BY <2>1, <2>2 DEF Service!Finish
<1>5. ASSUME NEW w \in Workers, Register(w) \/ Stop(w) \/ Quit(w)
      PROVE  UNCHANGED Service!vars
  BY <1>5 DEF Register, Stop, Quit, Service!vars
<1>6. CASE UNCHANGED vars
  BY <1>6 DEF vars, Service!vars
<1>7. QED
  BY <1>1, <1>2, <1>3, <1>4, <1>5, <1>6 DEF Next, Service!Next

\* The channels implement the service: a job given to Add starts at most once,
\* and a worker runs one job at a time.
THEOREM WorkerPoolImplementsService == Spec => ImplementsService
<1>1. Init => Service!Init
  BY DEF Init, Service!Init
<1>2. QED
  BY <1>1, Invariance, StepSimulation, PTL DEF Spec, ImplementsService, Service!Spec

-----------------------------------------------------------------------------
(* Where the pool stands still: the safety side of JobsComplete. The guards *)
(* of the actions whose fairness is assumed are written out, for ENABLED is *)
(* beyond the provers.                                                      *)

JobCanMove(j) ==
  \/ job[j] = "adding"
  \/ job[j] = "dispatching" /\ pool # <<>>
  \/ job[j] = "sending" /\ worker[target[j]] = "waiting"

WorkerCanMove(w) ==
  \/ worker[w] = "registering" /\ Len(pool) < Capacity
  \/ worker[w] = "working" /\ current[w] \notin Stuck
  \/ worker[w] = "waiting" /\ w \in quit

SomeoneCanMove == (\E j \in Jobs : JobCanMove(j)) \/ (\E w \in Workers : WorkerCanMove(w))

\* A job that is not done was not added, is in a Do that does not return, has the
\* channel of a stopped worker, or waits while no worker is left.
StandsStillOnlySo ==
  ~SomeoneCanMove =>
    \A j \in Jobs :
      \/ job[j] \in {"new", "done"}
      \/ job[j] = "running" /\ j \in Stuck
      \/ Stranded(j)
      \/ job[j] = "dispatching" /\ NoWorkerLeft

\* No job is forgotten while a worker can still take it, in whatever order the
\* workers registered, ran and were stopped: a pool that can go no further has done
\* every job but those.
THEOREM JobsWaitOnlySo == Spec => []StandsStillOnlySo
<1>1. ASSUME IInv, RegisterNeverBlocks, ~SomeoneCanMove, NEW j \in Jobs
      PROVE  \/ job[j] \in {"new", "done"}
             \/ job[j] = "running" /\ j \in Stuck
             \/ Stranded(j)
             \/ job[j] = "dispatching" /\ NoWorkerLeft
  <2>0. /\ \A i \in Jobs : ~JobCanMove(i)
        /\ \A w \in Workers : ~WorkerCanMove(w)
    BY <1>1 DEF SomeoneCanMove
  <2>1. /\ job[j] \in {"new", "dispatching", "sending", "running", "done"}
        /\ job[j] = "dispatching" => pool = <<>>
    BY <1>1, <2>0 DEF IInv, TypeOK, JobCanMove
  <2>2. ASSUME NEW w \in Workers
        PROVE  /\ worker[w] \in {"waiting", "working", "stopped"}
               /\ worker[w] = "working" => current[w] \in Stuck
    BY <1>1, <2>0 DEF IInv, TypeOK, WorkerCanMove, RegisterNeverBlocks
  <2>3. ASSUME NEW i \in Jobs, job[i] = "sending"
        PROVE  worker[target[i]] = "stopped"
    <3>1. target[i] \in Workers
      BY <1>1, <2>3 DEF IInv, TypeOK
    <3>2. worker[target[i]] \in {"waiting", "stopped"}
      BY <1>1, <2>3, <3>1 DEF IInv, ChannelHasOneOwner
    <3>3. QED
      BY <2>0, <2>3, <3>2 DEF JobCanMove
  <2>4. CASE job[j] = "running"
    <3>1. PICK w \in Workers : current[w] = j
      BY <1>1, <2>4 DEF IInv, RunsOnOneWorker
    <3>2. worker[w] = "working"
      BY <1>1, <3>1, PoolAssumption DEF IInv, RunsOnOneWorker
    <3>3. QED
      BY <2>2, <2>4, <3>1, <3>2
  <2>5. CASE job[j] = "sending"
    BY <2>3, <2>5 DEF Stranded
  <2>6. CASE job[j] = "dispatching"
    <3>1. ASSUME NEW w \in Workers PROVE ~InPool(w)
      BY <2>1, <2>6 DEF InPool
    <3>2. ASSUME NEW w \in Workers PROVE worker[w] # "waiting"
      <4>1. SUFFICES ASSUME worker[w] = "waiting" PROVE FALSE
        OBVIOUS
      <4>2. PICK i \in Jobs : job[i] = "sending" /\ target[i] = w
        BY <1>1, <3>1, <4>1 DEF IInv, ChannelHasOneOwner
      <4>3. QED
        BY <2>3, <4>1, <4>2
    <3>3. NoWorkerLeft
      BY <2>2, <3>2 DEF NoWorkerLeft
    <3>4. QED
      BY <2>6, <3>3
  <2>7. QED
    BY <2>1, <2>4, <2>5, <2>6
<1>2. IInv /\ RegisterNeverBlocks => StandsStillOnlySo
  BY <1>1 DEF StandsStillOnlySo
<1>3. QED
  BY <1>2, Invariance, PoolNeverFull, PTL

-----------------------------------------------------------------------------
(* A measure: for finitely many jobs the pool comes to rest after finitely  *)
(* many steps, in whatever order they are taken.                            *)

\* How many stages the things of S have before them, r[x] <= K for each x: the number of
\* pairs of a thing and a stage. A sum over a set that may be counted without recursion.
StageCount(S, K, r) == Cardinality({p \in S \X (1..K) : p[2] <= r[p[1]]})

LEMMA StagesFall ==
  ASSUME NEW S, IsFiniteSet(S), NEW K \in Nat,
         NEW r \in [S -> 0..K], NEW q \in [S -> 0..K], \A x \in S : q[x] <= r[x]
  PROVE  /\ StageCount(S, K, r) \in Nat /\ StageCount(S, K, q) \in Nat
         /\ StageCount(S, K, q) <= StageCount(S, K, r)
         /\ (\E x \in S : q[x] < r[x]) => StageCount(S, K, q) <= StageCount(S, K, r) - 1
<1> DEFINE R == {p \in S \X (1..K) : p[2] <= r[p[1]]}
           Q == {p \in S \X (1..K) : p[2] <= q[p[1]]}
<1>1. IsFiniteSet(1..K)
  BY FS_Interval
<1>2. IsFiniteSet(S \X (1..K))
  BY <1>1, FS_Product
<1>3. IsFiniteSet(R)
  BY <1>2, FS_Subset
<1>4. Q \subseteq R
  <2>1. ASSUME NEW p \in Q PROVE p \in R
    <3>1. p \in S \X (1..K) /\ p[1] \in S /\ p[2] \in 1..K /\ p[2] <= q[p[1]]
      OBVIOUS
    <3>2. q[p[1]] <= r[p[1]] /\ q[p[1]] \in 0..K /\ r[p[1]] \in 0..K
      BY <3>1
    <3>3. QED
      BY <3>1, <3>2
  <2>2. QED
    BY <2>1
<1>5. IsFiniteSet(Q) /\ Cardinality(Q) <= Cardinality(R) /\ (Cardinality(R) = Cardinality(Q) => R = Q)
  BY <1>3, <1>4, FS_Subset
<1>6. Cardinality(R) \in Nat /\ Cardinality(Q) \in Nat
  BY <1>3, <1>5, FS_CardinalityType
<1>7. ASSUME NEW x \in S, q[x] < r[x] PROVE R # Q
  <2>1. q[x] \in 0..K /\ r[x] \in 0..K
    OBVIOUS
  <2>2. r[x] \in 1..K /\ <<x, r[x]>> \in S \X (1..K)
    BY <1>7, <2>1
  <2>3. <<x, r[x]>>[1] = x /\ <<x, r[x]>>[2] = r[x] /\ ~(r[x] <= q[x]) /\ r[x] <= r[x]
    BY <1>7, <2>1
  <2>4. <<x, r[x]>> \in R /\ <<x, r[x]>> \notin Q
    BY <2>2, <2>3
  <2>5. QED
    BY <2>4
<1>8. StageCount(S, K, r) = Cardinality(R) /\ StageCount(S, K, q) = Cardinality(Q)
  BY DEF StageCount
<1> HIDE DEF R, Q
<1>9. QED
  BY <1>5, <1>6, <1>7, <1>8

JobRank(s) ==
  CASE s = "new" -> 5 [] s = "adding" -> 4 [] s = "dispatching" -> 3
    [] s = "sending" -> 2 [] s = "running" -> 1 [] OTHER -> 0

JobRanks == [j \in Jobs |-> JobRank(job[j])]

StopRanks ==
  [w \in Stoppable |-> IF worker[w] = "stopped" THEN 0 ELSE IF w \in quit THEN 1 ELSE 2]

Registering == {w \in Workers : worker[w] = "registering"}

JobSteps == StageCount(Jobs, 5, JobRanks)
StopSteps == StageCount(Stoppable, 2, StopRanks)

\* Two for each stage of a job, since a job that ends lets its worker register again.
StepsLeft == 2 * JobSteps + StopSteps + Cardinality(Registering)

LEMMA Finite ==
  /\ IsFiniteSet(Stoppable)
  /\ IsFiniteSet(Registering) /\ Cardinality(Registering) \in Nat
<1>1. IsFiniteSet(Stoppable) /\ IsFiniteSet(Registering)
  BY PoolAssumption, FS_Subset DEF Registering
<1>2. QED
  BY <1>1, FS_CardinalityType

LEMMA RanksAreRanks ==
  IInv => JobRanks \in [Jobs -> 0..5] /\ StopRanks \in [Stoppable -> 0..2]
  BY DEF JobRanks, StopRanks, JobRank

LEMMA StepsAreNat ==
  ASSUME IsFiniteSet(Jobs)
  PROVE  IInv => JobSteps \in Nat /\ StopSteps \in Nat /\ StepsLeft \in Nat
<1> SUFFICES ASSUME IInv PROVE JobSteps \in Nat /\ StopSteps \in Nat /\ StepsLeft \in Nat
  OBVIOUS
<1>1. JobRanks \in [Jobs -> 0..5] /\ StopRanks \in [Stoppable -> 0..2]
  BY RanksAreRanks
<1>2. (\A j \in Jobs : JobRanks[j] <= JobRanks[j]) /\ (\A w \in Stoppable : StopRanks[w] <= StopRanks[w])
  BY <1>1
<1>3. JobSteps \in Nat /\ StopSteps \in Nat
  BY <1>1, <1>2, Finite, StagesFall DEF JobSteps, StopSteps
<1>4. QED
  BY <1>3, Finite DEF StepsLeft

\* A step that brings a job to a later stage, or leaves the jobs alone.
LEMMA JobsGoOn ==
  ASSUME IsFiniteSet(Jobs), IInv, IInv',
         \A j \in Jobs : JobRank(job'[j]) <= JobRank(job[j])
  PROVE  /\ JobSteps' <= JobSteps
         /\ (\E j \in Jobs : JobRank(job'[j]) < JobRank(job[j])) => JobSteps' <= JobSteps - 1
<1>1. JobRanks \in [Jobs -> 0..5] /\ JobRanks' \in [Jobs -> 0..5]
  <2>1. IInv' => (JobRanks \in [Jobs -> 0..5] /\ StopRanks \in [Stoppable -> 0..2])'
    BY RanksAreRanks, PTL
  <2>2. QED
    BY <2>1, RanksAreRanks
<1>2. \A j \in Jobs : JobRanks[j] = JobRank(job[j]) /\ JobRanks'[j] = JobRank(job'[j])
  BY DEF JobRanks, JobRank
<1>3. QED
  BY <1>1, <1>2, StagesFall DEF JobSteps

LEMMA StopsGoOn ==
  ASSUME IInv, IInv', \A w \in Stoppable : StopRanks'[w] <= StopRanks[w]
  PROVE  /\ StopSteps' <= StopSteps
         /\ (\E w \in Stoppable : StopRanks'[w] < StopRanks[w]) => StopSteps' <= StopSteps - 1
<1>1. StopRanks \in [Stoppable -> 0..2] /\ StopRanks' \in [Stoppable -> 0..2]
  <2>1. IInv' => (JobRanks \in [Jobs -> 0..5] /\ StopRanks \in [Stoppable -> 0..2])'
    BY RanksAreRanks, PTL
  <2>2. QED
    BY <2>1, RanksAreRanks
<1>2. QED
  BY <1>1, Finite, StagesFall DEF StopSteps

\* Every step of the pool and of its callers brings it nearer to the rest of which
\* JobsWaitOnlySo speaks: for finitely many jobs no run goes on for ever, the loops of
\* the workers and of dispatch included.
THEOREM PoolGetsNearer ==
  ASSUME IsFiniteSet(Jobs)
  PROVE  Spec => [](StepsLeft \in Nat) /\ [][StepsLeft' < StepsLeft]_vars
<1>1. ASSUME IInv, IInv', Next PROVE StepsLeft' < StepsLeft
  <2> DEFINE a == JobSteps   a1 == JobSteps'
             b == StopSteps  b1 == StopSteps'
             r == Cardinality(Registering)  r1 == Cardinality(Registering')
  <2>1. /\ a \in Nat /\ b \in Nat /\ r \in Nat /\ a1 \in Nat /\ b1 \in Nat /\ r1 \in Nat
        /\ StepsLeft = 2 * a + b + r /\ StepsLeft' = 2 * a1 + b1 + r1
    <3>1. IInv' => (JobSteps \in Nat /\ StopSteps \in Nat)'
      BY StepsAreNat, PTL
    <3>2. (IsFiniteSet(Registering) /\ Cardinality(Registering) \in Nat)'
      BY Finite, PTL
    <3>3. QED
      BY <1>1, <3>1, <3>2, StepsAreNat, Finite DEF StepsLeft
  <2>2. /\ \A j \in Jobs : job[j] \in {"new", "adding", "dispatching", "sending", "running", "done"}
        /\ job \in [Jobs -> {"new", "adding", "dispatching", "sending", "running", "done"}]
        /\ worker \in [Workers -> {"registering", "waiting", "working", "stopped"}]
        /\ \A w \in Stoppable : w \in Workers
    BY <1>1, PoolAssumption DEF IInv, TypeOK
  <2>3. UNCHANGED job => a1 <= a
    BY <1>1, JobsGoOn, <2>2 DEF JobRank
  <2>4. ASSUME \A w \in Workers : worker'[w] = "stopped" <=> worker[w] = "stopped", quit' = quit
        PROVE  b1 <= b
    <3>1. \A w \in Stoppable : StopRanks'[w] <= StopRanks[w]
      BY <2>2, <2>4 DEF StopRanks
    <3>2. QED
      BY <1>1, <3>1, StopsGoOn
  <2>5. ASSUME NEW j \in Jobs, Add(j) \/ Dispatch(j) \/ TakeChannel(j)
        PROVE  StepsLeft' < StepsLeft
    <3>1. UNCHANGED <<worker, quit>>
      BY <2>5 DEF Add, Dispatch, TakeChannel
    <3>2. a1 <= a - 1
      <4>1. /\ JobRank(job'[j]) < JobRank(job[j])
            /\ \A i \in Jobs : JobRank(job'[i]) <= JobRank(job[i])
        BY <2>2, <2>5 DEF Add, Dispatch, TakeChannel, JobRank
      <4>2. QED
        BY <1>1, <4>1, JobsGoOn
    <3>3. b1 <= b
      BY <2>4, <3>1
    <3>4. r1 = r
      BY <3>1 DEF Registering
    <3>5. HIDE DEF a, a1, b, b1, r, r1
    <3>6. QED
      BY <2>1, <3>2, <3>3, <3>4
  <2>6. ASSUME NEW j \in Jobs, HandOff(j) PROVE StepsLeft' < StepsLeft
    <3>1. PICK w \in Workers : /\ worker[w] = "waiting" /\ job[j] = "sending"
                               /\ worker' = [worker EXCEPT ![w] = "working"]
                               /\ job' = [job EXCEPT ![j] = "running"] /\ quit' = quit
      BY <2>6 DEF HandOff
    <3>2. a1 <= a - 1
      <4>1. /\ JobRank(job'[j]) < JobRank(job[j])
            /\ \A i \in Jobs : JobRank(job'[i]) <= JobRank(job[i])
        BY <2>2, <3>1 DEF JobRank
      <4>2. QED
        BY <1>1, <4>1, JobsGoOn
    <3>3. b1 <= b
      BY <2>2, <2>4, <3>1
    <3>4. r1 = r
      <4>1. Registering' = Registering
        BY <2>2, <3>1 DEF Registering
      <4>2. QED
        BY <4>1
    <3>5. HIDE DEF a, a1, b, b1, r, r1
    <3>6. QED
      BY <2>1, <3>2, <3>3, <3>4
  <2>7. ASSUME NEW w \in Workers, Register(w) PROVE StepsLeft' < StepsLeft
    <3>1. /\ worker[w] = "registering" /\ worker' = [worker EXCEPT ![w] = "waiting"]
          /\ UNCHANGED <<job, quit>>
      BY <2>7 DEF Register
    <3>2. b1 <= b
      BY <2>2, <2>4, <3>1
    <3>3. r1 = r - 1
      <4>1. Registering' = Registering \ {w} /\ w \in Registering
        BY <2>2, <3>1 DEF Registering
      <4>2. QED
        BY <4>1, Finite, FS_RemoveElement
    <3>4. a1 <= a
      BY <2>3, <3>1
    <3>5. HIDE DEF a, a1, b, b1, r, r1
    <3>6. QED
      BY <2>1, <3>2, <3>3, <3>4
  <2>8. ASSUME NEW w \in Workers, Finish(w) PROVE StepsLeft' < StepsLeft
    <3>1. /\ worker[w] = "working" /\ worker' = [worker EXCEPT ![w] = "registering"]
          /\ job' = [job EXCEPT ![current[w]] = "done"] /\ quit' = quit
      BY <2>8 DEF Finish
    <3>2. current[w] \in Jobs /\ job[current[w]] = "running"
      BY <1>1, <3>1 DEF IInv, TypeOK, RunsOnOneWorker
    <3>3. a1 <= a - 1
      <4>1. /\ JobRank(job'[current[w]]) < JobRank(job[current[w]])
            /\ \A i \in Jobs : JobRank(job'[i]) <= JobRank(job[i])
        BY <2>2, <3>1, <3>2 DEF JobRank
      <4>2. QED
        BY <1>1, <3>2, <4>1, JobsGoOn
    <3>4. b1 <= b
      BY <2>2, <2>4, <3>1
    <3>5. r1 = r + 1
      <4>1. Registering' = Registering \cup {w} /\ w \notin Registering
        BY <2>2, <3>1 DEF Registering
      <4>2. QED
        BY <4>1, Finite, FS_AddElement
    <3>6. HIDE DEF a, a1, b, b1, r, r1
    <3>7. QED
      BY <2>1, <3>3, <3>4, <3>5
  <2>9. ASSUME NEW w \in Workers, Stop(w) \/ Quit(w) PROVE StepsLeft' < StepsLeft
    <3>1. /\ w \in Stoppable /\ job' = job /\ worker[w] # "stopped"
          /\ \/ w \notin quit /\ quit' = quit \union {w} /\ worker' = worker
             \/ /\ w \in quit /\ quit' = quit \ {w} /\ worker[w] = "waiting"
                /\ worker' = [worker EXCEPT ![w] = "stopped"]
      BY <1>1, <2>9 DEF Stop, Quit, IInv, TypeOK
    <3>2. b1 <= b - 1
      <4>1. /\ \A v \in Stoppable : StopRanks'[v] <= StopRanks[v]
            /\ StopRanks'[w] < StopRanks[w]
        BY <2>2, <3>1 DEF StopRanks
      <4>2. QED
        BY <1>1, <3>1, <4>1, StopsGoOn
    <3>3. r1 = r
      <4>1. Registering' = Registering
        BY <2>2, <3>1 DEF Registering
      <4>2. QED
        BY <4>1
    <3>4. a1 <= a
      BY <2>3, <3>1
    <3>5. HIDE DEF a, a1, b, b1, r, r1
    <3>6. QED
      BY <2>1, <3>2, <3>3, <3>4
  <2>10. QED
    BY <1>1, <2>5, <2>6, <2>7, <2>8, <2>9 DEF Next
<1>2. IInv => StepsLeft \in Nat
  BY StepsAreNat
<1>3. IInv /\ IInv' /\ [Next]_vars => [StepsLeft' < StepsLeft]_vars
  BY <1>1
<1>4. QED
  BY <1>2, <1>3, Invariance, PTL DEF Spec
=============================================================================
