------------------------------ MODULE ComProofs ------------------------------
(***************************************************************************)
(* Com for any finite set of consumers and any number of calls: there is   *)
(* one nsqd at a time, the WaitGroup counts the started consumers, and     *)
(* Close waits for all of those it has to wait for.                        *)
(***************************************************************************)
EXTENDS Com, FiniteSetTheorems, TLAPS

\* TypeOK in three parts: the flags, the values of the other variables, and the count.
Flags == created \in BOOLEAN /\ running \in BOOLEAN /\ up \in BOOLEAN

Values ==
  /\ nsqds \in Nat
  /\ exit \in {"none", "waiting", "exiting", "sending"}
  /\ owner \in {"idle", "newcom", "close", "done"}
  /\ calls \in 0..MaxCalls
  /\ owed \in SUBSET Consumers
  /\ con \in [Consumers -> {"none", "created", "connected", "started", "stopped", "failed"}]
  /\ waiter \in [Consumers -> {"none", "waiting", "ended"}]
  /\ queue \in [Consumers -> {"idle", "connected", "stopped"}]

Started(f) == {c \in Consumers : f[c] = "started"}

Counted == wg = Cardinality(Started(con))

\* The goroutine of NewCom tells how things stand with nsqd: it exists from the
\* first NewCom on, and nsqd runs until it has called Exit.
NsqdKnown ==
  /\ created <=> exit # "none"
  /\ running <=> exit \in {"waiting", "exiting"}
  /\ nsqds = IF running THEN 1 ELSE 0

\* A consumer that Close has to wait for was started, and starts only once.
OwedHaveStarted ==
  owner \in {"close", "done"} => \A c \in owed : con[c] \in {"started", "stopped"}

\* The inductive invariant: OneNsqd follows from NsqdKnown, and what Close waits
\* for from the count in TypeOK and OwedHaveStarted.
IInv == Flags /\ Values /\ Counted /\ NsqdKnown /\ OwedHaveStarted /\ CloseWaitsForConsumers

\* One consumer more that has started, one more in the count.
LEMMA StartedGrows ==
  ASSUME NEW f, NEW g, NEW c \in Consumers, f[c] # "started", g[c] = "started",
         \A d \in Consumers \ {c} : g[d] = f[d]
  PROVE  Cardinality(Started(g)) = Cardinality(Started(f)) + 1
<1>1. Started(g) = Started(f) \cup {c} /\ c \notin Started(f)
  BY DEF Started
<1>2. IsFiniteSet(Started(f))
  BY ComAssumption, FS_Subset DEF Started
<1>3. QED
  BY <1>1, <1>2, FS_AddElement

LEMMA StartedShrinks ==
  ASSUME NEW f, NEW g, NEW c \in Consumers, f[c] = "started", g[c] # "started",
         \A d \in Consumers \ {c} : g[d] = f[d]
  PROVE  Cardinality(Started(g)) = Cardinality(Started(f)) - 1
<1>1. Started(g) = Started(f) \ {c} /\ c \in Started(f)
  BY DEF Started
<1>2. IsFiniteSet(Started(f))
  BY ComAssumption, FS_Subset DEF Started
<1>3. QED
  BY <1>1, <1>2, FS_RemoveElement

LEMMA CountIsZero == Counted /\ wg = 0 => \A c \in Consumers : con[c] # "started"
<1>1. IsFiniteSet(Started(con))
  BY ComAssumption, FS_Subset DEF Started
<1>2. QED
  BY <1>1, FS_EmptySet DEF Counted, Started

-----------------------------------------------------------------------------

LEMMA InitIInv == Init => IInv
<1> SUFFICES ASSUME Init PROVE IInv
  OBVIOUS
<1>1. Flags /\ Values
  <2>1. Flags
    BY DEF Init, Flags
  <2>2. Values
    BY ComAssumption DEF Init, Values
  <2>3. QED
    BY <2>1, <2>2
<1>2. Started(con) = {} /\ wg = 0
  BY DEF Init, Started
<1>3. Counted
  BY <1>2, FS_EmptySet DEF Counted
<1>4. NsqdKnown /\ OwedHaveStarted /\ CloseWaitsForConsumers
  BY DEF Init, NsqdKnown, OwedHaveStarted, CloseWaitsForConsumers
<1>5. QED
  BY <1>1, <1>3, <1>4 DEF IInv

LEMMA FlagsStep == IInv /\ [Next]_vars => Flags'
<1> SUFFICES ASSUME Flags, [Next]_vars PROVE Flags'
  BY DEF IInv
<1> USE DEF Flags, nsqdVars, ownerVars
<1>1. CASE CallNewCom \/ CallClose \/ ConsumersDone
  BY <1>1 DEF CallNewCom, CallClose, ConsumersDone
<1>2. CASE NewCom
  BY <1>2 DEF NewCom, StartNsqd
<1>3. CASE Done \/ Exit
  BY <1>3 DEF Done, Exit
<1>4. ASSUME NEW c \in Consumers,
             NewConsumer(c) \/ Connect(c) \/ Count(c) \/ WaiterStopsQueue(c) \/ Stop(c)
      PROVE  Flags'
  BY <1>4 DEF NewConsumer, Connect, Count, WaiterStopsQueue, Stop
<1>5. CASE UNCHANGED vars
  BY <1>5 DEF vars
<1>6. QED
  BY <1>1, <1>2, <1>3, <1>4, <1>5 DEF Next

LEMMA ValuesStep == IInv /\ [Next]_vars => Values'
<1> SUFFICES ASSUME IInv, [Next]_vars PROVE Values'
  OBVIOUS
<1> USE ComAssumption DEF IInv, Values, nsqdVars, ownerVars, consumerVars
<1>1. CASE CallNewCom \/ CallClose
  BY <1>1 DEF CallNewCom, CallClose
<1>2. CASE NewCom
  BY <1>2 DEF NewCom, StartNsqd
<1>3. CASE ConsumersDone \/ Done
  BY <1>3 DEF ConsumersDone, Done
<1>4. CASE Exit
  BY <1>4 DEF Exit, NsqdKnown
<1>5. ASSUME NEW c \in Consumers,
             NewConsumer(c) \/ Connect(c) \/ Count(c) \/ WaiterStopsQueue(c) \/ Stop(c)
      PROVE  Values'
  BY <1>5 DEF NewConsumer, Connect, Count, WaiterStopsQueue, Stop
<1>6. CASE UNCHANGED vars
  BY <1>6 DEF vars
<1>7. QED
  BY <1>1, <1>2, <1>3, <1>4, <1>5, <1>6 DEF Next

LEMMA CountStep == IInv /\ [Next]_vars => Counted'
<1> SUFFICES ASSUME IInv, [Next]_vars PROVE Counted'
  OBVIOUS
<1> USE DEF IInv, Counted
<1>1. CASE CallNewCom \/ NewCom \/ CallClose \/ ConsumersDone \/ Done \/ Exit
  <2>1. UNCHANGED <<wg, con>>
    BY <1>1 DEF CallNewCom, NewCom, CallClose, ConsumersDone, Done, Exit, consumerVars
  <2>2. QED
    BY <2>1
<1>2. ASSUME NEW c \in Consumers, NewConsumer(c) \/ Connect(c) \/ WaiterStopsQueue(c)
      PROVE  Counted'
  <2>1. \A d \in Consumers : con'[d] = "started" <=> con[d] = "started"
    BY <1>2 DEF Values, NewConsumer, Connect, WaiterStopsQueue
  <2>2. Started(con') = Started(con)
    BY <2>1 DEF Started
  <2>3. wg' = wg
    BY <1>2 DEF NewConsumer, Connect, WaiterStopsQueue
  <2>4. QED
    BY <2>2, <2>3
<1>3. ASSUME NEW c \in Consumers, Count(c) PROVE Counted'
  <2>1. Cardinality(Started(con')) = Cardinality(Started(con)) + 1
    BY <1>3, StartedGrows DEF Values, Count
  <2>2. QED
    BY <1>3, <2>1 DEF Count
<1>4. ASSUME NEW c \in Consumers, Stop(c) PROVE Counted'
  <2>1. Cardinality(Started(con')) = Cardinality(Started(con)) - 1
    BY <1>4, StartedShrinks DEF Values, Stop
  <2>2. QED
    BY <1>4, <2>1 DEF Stop
<1>5. CASE UNCHANGED vars
  <2>1. UNCHANGED <<wg, con>>
    BY <1>5 DEF vars, consumerVars
  <2>2. QED
    BY <2>1
<1>6. QED
  BY <1>1, <1>2, <1>3, <1>4, <1>5 DEF Next

LEMMA NsqdStep == IInv /\ [Next]_vars => NsqdKnown'
<1> SUFFICES ASSUME IInv, [Next]_vars PROVE NsqdKnown'
  OBVIOUS
<1> USE DEF IInv, Values, NsqdKnown
<1>1. CASE CallNewCom \/ CallClose \/ ConsumersDone
  BY <1>1 DEF CallNewCom, CallClose, ConsumersDone, nsqdVars
<1>2. CASE NewCom
  BY <1>2 DEF NewCom, StartNsqd
<1>3. CASE Done \/ Exit
  BY <1>3 DEF Done, Exit
<1>4. ASSUME NEW c \in Consumers,
             NewConsumer(c) \/ Connect(c) \/ Count(c) \/ WaiterStopsQueue(c) \/ Stop(c)
      PROVE  NsqdKnown'
  BY <1>4 DEF NewConsumer, Connect, Count, WaiterStopsQueue, Stop, nsqdVars
<1>5. CASE UNCHANGED vars
  BY <1>5 DEF vars, nsqdVars
<1>6. QED
  BY <1>1, <1>2, <1>3, <1>4, <1>5 DEF Next

LEMMA OwedStep ==
  IInv /\ [Next]_vars => OwedHaveStarted' /\ CloseWaitsForConsumers'
<1> SUFFICES ASSUME IInv, [Next]_vars PROVE OwedHaveStarted' /\ CloseWaitsForConsumers'
  OBVIOUS
<1> USE DEF IInv, Values, OwedHaveStarted, CloseWaitsForConsumers
<1>1. CASE CallNewCom \/ NewCom \/ CallClose \/ Done \/ Exit
  BY <1>1 DEF CallNewCom, NewCom, CallClose, Done, Exit, ownerVars, consumerVars
<1>2. CASE ConsumersDone
  <2>1. \A c \in owed : con[c] # "started"
    BY <1>2, CountIsZero DEF ConsumersDone
  <2>2. QED
    BY <1>2, <2>1 DEF ConsumersDone, consumerVars
<1>3. ASSUME NEW c \in Consumers,
             NewConsumer(c) \/ Connect(c) \/ Count(c) \/ WaiterStopsQueue(c) \/ Stop(c)
      PROVE  OwedHaveStarted' /\ CloseWaitsForConsumers'
  BY <1>3 DEF NewConsumer, Connect, Count, WaiterStopsQueue, Stop, ownerVars
<1>4. CASE UNCHANGED vars
  BY <1>4 DEF vars, ownerVars, consumerVars
<1>5. QED
  BY <1>1, <1>2, <1>3, <1>4 DEF Next

LEMMA Invariance == Spec => []IInv
<1>1. IInv /\ [Next]_vars => IInv'
  BY FlagsStep, ValuesStep, CountStep, NsqdStep, OwedStep DEF IInv
<1>2. QED
  BY InitIInv, <1>1, PTL DEF Spec

-----------------------------------------------------------------------------

\* consumerWg is at every moment the number of consumers that were started and not
\* stopped, so that no Done makes it negative, where a WaitGroup panics.
THEOREM TypeCorrect == Spec => []TypeOK
<1>1. IInv => TypeOK
  BY DEF IInv, Flags, Values, Counted, Started, TypeOK
<1>2. QED
  BY <1>1, Invariance, PTL

\* However often NewCom and Close are called, in whatever order, no nsqd is started
\* before Exit of the one before has returned, and running says whether there is one.
THEOREM OneNsqdAtATime == Spec => []OneNsqd
<1>1. IInv => OneNsqd
  BY DEF IInv, NsqdKnown, OneNsqd
<1>2. QED
  BY <1>1, Invariance, PTL

\* When WaitForConsumers has returned and Close goes on to end nsqd, every consumer
\* that had started when Close was called is stopped, those that start meanwhile
\* notwithstanding.
THEOREM CloseWaits == Spec => []CloseWaitsForConsumers
<1>1. IInv => CloseWaitsForConsumers
  BY DEF IInv
<1>2. QED
  BY <1>1, Invariance, PTL

\* NewCom never comes to its answer "NSQ already running": it waits for exitChan
\* first, and what it then receives was sent when nsqd had ended.
THEOREM AlreadyRunningIsNeverAnswered == Spec => [][NewCom => ~running]_vars
<1>1. IInv /\ [Next]_vars => [NewCom => ~running]_vars
  BY DEF IInv, NsqdKnown, NewCom
<1>2. QED
  BY <1>1, Invariance, PTL DEF Spec

-----------------------------------------------------------------------------
(* Where calls stand still: the safety side of CallsReturn. The guards of   *)
(* the actions whose fairness is assumed are written out, for ENABLED is    *)
(* beyond the provers.                                                      *)

OwnerCanMove ==
  \/ owner = "newcom" /\ (created => exit = "sending")
  \/ owner = "close" /\ wg = 0
  \/ owner = "done" /\ exit = "waiting"

SomeoneCanMove ==
  \/ OwnerCanMove
  \/ exit = "exiting"
  \/ \E c \in Consumers : con[c] = "connected" \/ (waiter[c] = "waiting" /\ wg = 0)

\* NewCom waits for the end of an nsqd that nobody closes; Close for a consumer that
\* nobody stops, or, when those are stopped, for an nsqd that is not up.
StandsStillOnlySo ==
  ~SomeoneCanMove =>
    \/ owner = "idle"
    \/ owner = "newcom" /\ up
    \/ owner = "close" /\ \E c \in Consumers : con[c] = "started"
    \/ owner = "done" /\ ~up

\* The owner and the goroutine of NewCom agree on whether nsqd is up.
UpIsKnown == up <=> exit = "waiting"

LEMMA UpStep == IInv /\ UpIsKnown /\ [Next]_vars => UpIsKnown'
<1> SUFFICES ASSUME IInv, UpIsKnown, [Next]_vars PROVE UpIsKnown'
  OBVIOUS
<1> USE DEF UpIsKnown
<1>1. CASE NewCom
  BY <1>1 DEF NewCom, StartNsqd, IInv, NsqdKnown
<1>2. CASE Done \/ Exit
  BY <1>2 DEF Done, Exit, ownerVars
<1>3. CASE CallNewCom \/ CallClose \/ ConsumersDone
  BY <1>3 DEF CallNewCom, CallClose, ConsumersDone, nsqdVars
<1>4. CASE \E c \in Consumers :
             NewConsumer(c) \/ Connect(c) \/ Count(c) \/ WaiterStopsQueue(c) \/ Stop(c)
  BY <1>4 DEF NewConsumer, Connect, Count, WaiterStopsQueue, Stop, nsqdVars, ownerVars
<1>5. CASE UNCHANGED vars
  BY <1>5 DEF vars, nsqdVars, ownerVars
<1>6. QED
  BY <1>1, <1>2, <1>3, <1>4, <1>5 DEF Next

\* NewCom and Close come back when they are called in turn and the consumers stop: if
\* nothing can go on in a call, it is for one of the reasons above.
THEOREM CallsWaitOnlySo == Spec => []StandsStillOnlySo
<1>1. Init => UpIsKnown
  BY DEF Init, UpIsKnown
<1>2. ASSUME IInv, UpIsKnown, ~SomeoneCanMove, owner # "idle"
      PROVE  \/ owner = "newcom" /\ up
             \/ owner = "close" /\ \E c \in Consumers : con[c] = "started"
             \/ owner = "done" /\ ~up
  <2>1. ~OwnerCanMove /\ exit # "exiting"
    BY <1>2 DEF SomeoneCanMove
  <2>2. CASE owner = "newcom"
    <3>1. created /\ exit # "sending"
      BY <2>1, <2>2 DEF OwnerCanMove
    <3>2. exit = "waiting"
      BY <1>2, <2>1, <3>1 DEF IInv, Values, NsqdKnown
    <3>3. QED
      BY <1>2, <2>2, <3>2 DEF UpIsKnown
  <2>3. CASE owner = "close"
    <3>1. wg # 0
      BY <2>1, <2>3 DEF OwnerCanMove
    <3>2. Started(con) # {}
      BY <1>2, <3>1, FS_EmptySet DEF IInv, Counted
    <3>3. QED
      BY <2>3, <3>2 DEF Started
  <2>4. CASE owner = "done"
    BY <1>2, <2>1, <2>4 DEF OwnerCanMove, UpIsKnown
  <2>5. QED
    BY <1>2, <2>2, <2>3, <2>4 DEF IInv, Values
<1>3. IInv /\ UpIsKnown => StandsStillOnlySo
  BY <1>2 DEF StandsStillOnlySo
<1>4. QED
  BY <1>1, <1>3, UpStep, Invariance, PTL DEF Spec

-----------------------------------------------------------------------------
(* A measure: a call is over after finitely many steps of all parties, in   *)
(* whatever order they are taken.                                           *)

\* How many stages the things of S have before them, r[x] <= K for each x: the number of
\* pairs of a thing and a stage. A sum over a set that may be counted without recursion.
StageCount(S, K, r) == Cardinality({p \in S \X (1..K) : p[2] <= r[p[1]]})

LEMMA StagesFall ==
  ASSUME NEW S, IsFiniteSet(S), NEW K \in Nat,
         NEW r \in [S -> 0..K], NEW q \in [S -> 0..K], \A x \in S : q[x] <= r[x]
  PROVE  /\ StageCount(S, K, r) \in Nat /\ StageCount(S, K, q) \in Nat
         /\ StageCount(S, K, q) <= StageCount(S, K, r)
         /\ (\E x \in S : q[x] < r[x]) => StageCount(S, K, q) <= StageCount(S, K, r) - 1
<1> DEFINE R == {p \in S \X (1..K) : p[2] <= r[p[1]]}
           Q == {p \in S \X (1..K) : p[2] <= q[p[1]]}
<1>1. IsFiniteSet(1..K)
  BY FS_Interval
<1>2. IsFiniteSet(S \X (1..K))
  BY <1>1, FS_Product
<1>3. IsFiniteSet(R)
  BY <1>2, FS_Subset
<1>4. Q \subseteq R
  <2>1. ASSUME NEW p \in Q PROVE p \in R
    <3>1. p \in S \X (1..K) /\ p[1] \in S /\ p[2] \in 1..K /\ p[2] <= q[p[1]]
      OBVIOUS
    <3>2. q[p[1]] <= r[p[1]] /\ q[p[1]] \in 0..K /\ r[p[1]] \in 0..K
      BY <3>1
    <3>3. QED
      BY <3>1, <3>2
  <2>2. QED
    BY <2>1
<1>5. IsFiniteSet(Q) /\ Cardinality(Q) <= Cardinality(R) /\ (Cardinality(R) = Cardinality(Q) => R = Q)
  BY <1>3, <1>4, FS_Subset
<1>6. Cardinality(R) \in Nat /\ Cardinality(Q) \in Nat
  BY <1>3, <1>5, FS_CardinalityType
<1>7. ASSUME NEW x \in S, q[x] < r[x] PROVE R # Q
  <2>1. q[x] \in 0..K /\ r[x] \in 0..K
    OBVIOUS
  <2>2. r[x] \in 1..K /\ <<x, r[x]>> \in S \X (1..K)
    BY <1>7, <2>1
  <2>3. <<x, r[x]>>[1] = x /\ <<x, r[x]>>[2] = r[x] /\ ~(r[x] <= q[x]) /\ r[x] <= r[x]
    BY <1>7, <2>1
  <2>4. <<x, r[x]>> \in R /\ <<x, r[x]>> \notin Q
    BY <2>2, <2>3
  <2>5. QED
    BY <2>4
<1>8. StageCount(S, K, r) = Cardinality(R) /\ StageCount(S, K, q) = Cardinality(Q)
  BY DEF StageCount
<1> HIDE DEF R, Q
<1>9. QED
  BY <1>5, <1>6, <1>7, <1>8

OwnerRank(s) == CASE s = "newcom" -> 3 [] s = "close" -> 2 [] s = "done" -> 1 [] OTHER -> 0

ExitRank(s) == CASE s = "waiting" -> 2 [] s = "exiting" -> 1 [] OTHER -> 0

ConRank(s) ==
  CASE s = "none" -> 4 [] s = "created" -> 3 [] s = "connected" -> 2 [] s = "started" -> 1
    [] OTHER -> 0

WaiterRank(s) == CASE s = "none" -> 2 [] s = "waiting" -> 1 [] OTHER -> 0

ConsumerRanks == [c \in Consumers |-> ConRank(con[c]) + WaiterRank(waiter[c])]
ConsumerSteps == StageCount(Consumers, 6, ConsumerRanks)
CallSteps == OwnerRank(owner) + ExitRank(exit)

StepsLeft == CallSteps + ConsumerSteps

LEMMA RanksAreRanks == ConsumerRanks \in [Consumers -> 0..6]
<1>1. \A s : ConRank(s) \in 0..4
  BY DEF ConRank
<1>2. \A s : WaiterRank(s) \in 0..2
  BY DEF WaiterRank
<1>3. QED
  BY <1>1, <1>2 DEF ConsumerRanks

LEMMA StepsAreNat == CallSteps \in Nat /\ ConsumerSteps \in Nat /\ StepsLeft \in Nat
<1>1. ConsumerSteps \in Nat
  <2>1. \A c \in Consumers : ConsumerRanks[c] <= ConsumerRanks[c]
    BY RanksAreRanks
  <2>2. QED
    BY <2>1, RanksAreRanks, ComAssumption, StagesFall DEF ConsumerSteps
<1>2. CallSteps \in Nat
  BY DEF CallSteps, OwnerRank, ExitRank
<1>3. QED
  BY <1>1, <1>2 DEF StepsLeft

\* A step that brings a consumer to a later stage, or leaves the consumers alone.
LEMMA ConsumersGoOn ==
  ASSUME \A c \in Consumers : /\ ConRank(con'[c]) <= ConRank(con[c])
                              /\ WaiterRank(waiter'[c]) <= WaiterRank(waiter[c])
  PROVE  /\ ConsumerSteps' <= ConsumerSteps
         /\ (\E c \in Consumers : \/ ConRank(con'[c]) < ConRank(con[c])
                                  \/ WaiterRank(waiter'[c]) < WaiterRank(waiter[c]))
              => ConsumerSteps' <= ConsumerSteps - 1
<1>1. ConsumerRanks \in [Consumers -> 0..6] /\ ConsumerRanks' \in [Consumers -> 0..6]
  <2>1. (ConsumerRanks \in [Consumers -> 0..6])'
    BY RanksAreRanks, PTL
  <2>2. QED
    BY <2>1, RanksAreRanks
<1>2. \A c \in Consumers : /\ ConsumerRanks[c] = ConRank(con[c]) + WaiterRank(waiter[c])
                           /\ ConsumerRanks'[c] = ConRank(con'[c]) + WaiterRank(waiter'[c])
  BY DEF ConsumerRanks, ConRank, WaiterRank
<1>3. \A c \in Consumers :
        /\ ConRank(con[c]) \in Nat /\ WaiterRank(waiter[c]) \in Nat
        /\ ConRank(con'[c]) \in Nat /\ WaiterRank(waiter'[c]) \in Nat
  BY DEF ConRank, WaiterRank
<1>4. /\ \A c \in Consumers : ConsumerRanks'[c] <= ConsumerRanks[c]
      /\ \A c \in Consumers : (\/ ConRank(con'[c]) < ConRank(con[c])
                               \/ WaiterRank(waiter'[c]) < WaiterRank(waiter[c]))
                                => ConsumerRanks'[c] < ConsumerRanks[c]
  BY <1>2, <1>3
<1>5. QED
  BY <1>1, <1>4, ComAssumption, StagesFall DEF ConsumerSteps

\* The goroutine that waits exists from the time the consumer connects.
WaitersFollow == \A c \in Consumers : con[c] \in {"none", "created"} => waiter[c] = "none"

LEMMA WaitersFollowStep == IInv /\ WaitersFollow /\ [Next]_vars => WaitersFollow'
<1> SUFFICES ASSUME IInv, WaitersFollow, [Next]_vars PROVE WaitersFollow'
  OBVIOUS
<1> USE DEF WaitersFollow, IInv, Values
<1>1. CASE CallNewCom \/ NewCom \/ CallClose \/ ConsumersDone \/ Done \/ Exit
  BY <1>1 DEF CallNewCom, NewCom, CallClose, ConsumersDone, Done, Exit, consumerVars,
              ownerVars
<1>2. ASSUME NEW c \in Consumers,
             NewConsumer(c) \/ Connect(c) \/ Count(c) \/ WaiterStopsQueue(c) \/ Stop(c)
      PROVE  WaitersFollow'
  BY <1>2 DEF NewConsumer, Connect, Count, WaiterStopsQueue, Stop
<1>3. CASE UNCHANGED vars
  BY <1>3 DEF vars, consumerVars
<1>4. QED
  BY <1>1, <1>2, <1>3 DEF Next

\* Every step other than a new call of NewCom or Close brings the owner, nsqd and the
\* consumers nearer to the rest of which CallsWaitOnlySo speaks. The two together are
\* what CallsReturn says, for every number of consumers and without an assumption on
\* the order in which goroutines run, but that some step is taken where one can be.
THEOREM ComGetsNearer ==
  Spec => /\ [](StepsLeft \in Nat)
          /\ [][StepsLeft' < StepsLeft \/ CallNewCom \/ CallClose]_vars
<1>1. ASSUME IInv, WaitersFollow, Next, ~(CallNewCom \/ CallClose) PROVE StepsLeft' < StepsLeft
  <2> DEFINE a == CallSteps      a1 == CallSteps'
             b == ConsumerSteps  b1 == ConsumerSteps'
  <2>1. /\ a \in Nat /\ b \in Nat /\ a1 \in Nat /\ b1 \in Nat
        /\ StepsLeft = a + b /\ StepsLeft' = a1 + b1
    <3>1. (CallSteps \in Nat /\ ConsumerSteps \in Nat /\ StepsLeft \in Nat)'
      BY StepsAreNat, PTL
    <3>2. QED
      BY <3>1, StepsAreNat DEF StepsLeft
  <2>2. /\ con \in [Consumers ->
                     {"none", "created", "connected", "started", "stopped", "failed"}]
        /\ waiter \in [Consumers -> {"none", "waiting", "ended"}]
    BY <1>1 DEF IInv, Values
  <2>3. CASE NewCom \/ ConsumersDone \/ Done \/ Exit
    <3>1. UNCHANGED <<con, waiter>>
      BY <2>3 DEF NewCom, ConsumersDone, Done, Exit, consumerVars
    <3>2. b1 <= b
      BY <2>2, <3>1, ConsumersGoOn DEF ConRank, WaiterRank
    <3>3. a1 <= a - 1
      <4>1. \/ owner = "newcom" /\ owner' = "idle" /\ exit' \in {"none", "waiting"}
               /\ exit \in {"none", "sending"}
            \/ owner = "close" /\ owner' = "done" /\ exit' = exit
            \/ owner = "done" /\ owner' = "idle" /\ exit = "waiting" /\ exit' = "exiting"
            \/ owner' = owner /\ exit = "exiting" /\ exit' = "sending"
        BY <1>1, <2>3 DEF NewCom, StartNsqd, ConsumersDone, Done, Exit, nsqdVars, ownerVars,
                          IInv, NsqdKnown
      <4>2. QED
        BY <4>1 DEF CallSteps, OwnerRank, ExitRank
    <3> HIDE DEF a, a1, b, b1
    <3>4. QED
      BY <2>1, <3>2, <3>3
  <2>4. ASSUME NEW c \in Consumers,
               NewConsumer(c) \/ Connect(c) \/ Count(c) \/ WaiterStopsQueue(c) \/ Stop(c)
        PROVE  StepsLeft' < StepsLeft
    <3>1. a1 = a
      BY <2>4 DEF NewConsumer, Connect, Count, WaiterStopsQueue, Stop, nsqdVars, ownerVars,
                  CallSteps
    <3>2. \/ /\ waiter' = waiter /\ con[c] = "none" /\ con' = [con EXCEPT ![c] = "created"]
          \/ /\ con[c] = "created" /\ con' = [con EXCEPT ![c] = "connected"]
             /\ waiter' = [waiter EXCEPT ![c] = "waiting"] /\ waiter[c] = "none"
          \/ /\ waiter' = waiter /\ con[c] = "created" /\ con' = [con EXCEPT ![c] = "failed"]
          \/ /\ waiter' = waiter /\ con[c] = "connected" /\ con' = [con EXCEPT ![c] = "started"]
          \/ /\ con' = con /\ waiter[c] = "waiting" /\ waiter' = [waiter EXCEPT ![c] = "ended"]
          \/ /\ waiter' = waiter /\ con[c] = "started" /\ con' = [con EXCEPT ![c] = "stopped"]
      BY <1>1, <2>4 DEF NewConsumer, Connect, Count, WaiterStopsQueue, Stop, WaitersFollow
    <3>3. b1 <= b - 1
      <4>1. /\ \A d \in Consumers : /\ ConRank(con'[d]) <= ConRank(con[d])
                                    /\ WaiterRank(waiter'[d]) <= WaiterRank(waiter[d])
            /\ \/ ConRank(con'[c]) < ConRank(con[c])
               \/ WaiterRank(waiter'[c]) < WaiterRank(waiter[c])
        BY <2>2, <3>2 DEF ConRank, WaiterRank
      <4>2. QED
        BY <4>1, ConsumersGoOn
    <3> HIDE DEF a, a1, b, b1
    <3>4. QED
      BY <2>1, <3>1, <3>3
  <2>5. QED
    BY <1>1, <2>3, <2>4 DEF Next
<1>2. IInv /\ WaitersFollow /\ [Next]_vars => [StepsLeft' < StepsLeft \/ CallNewCom \/ CallClose]_vars
  BY <1>1
<1>3. Init => WaitersFollow
  BY DEF Init, WaitersFollow
<1>4. QED
  BY <1>2, <1>3, StepsAreNat, WaitersFollowStep, Invariance, PTL DEF Spec
=============================================================================
