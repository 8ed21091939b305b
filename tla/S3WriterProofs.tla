--------------------------- MODULE S3WriterProofs ---------------------------
(***************************************************************************)
(* S3Writer for any number of chunks, of any lengths, on any workers: the  *)
(* stream is the file, no wakeup of the condition is lost, the object has  *)
(* every byte of the chunks added, and the writer implements               *)
(* SequentialObject.                                                       *)
(***************************************************************************)
EXTENDS S3Writer, FiniteSetTheorems, WellFoundedInduction, TLAPS

-----------------------------------------------------------------------------
(* Induction, without a theorem that takes a predicate: a set of natural    *)
(* numbers that is not empty has a least element.                           *)

Below == {p \in Nat \X Nat : p[1] < p[2]}

LEMMA LeastNatural ==
  ASSUME NEW T \in SUBSET Nat, T # {}
  PROVE  \E m \in T : \A k \in T : m <= k
<1>1. IsWellFoundedOn(Below, Nat)
  BY NatLessThanWellFounded DEF OpToRel, Below
<1>2. PICK m \in T : \A k \in T : <<k, m>> \notin Below
  BY <1>1, WFMin
<1>3. \A k \in T : ~(k < m)
  BY <1>2 DEF Below
<1>4. QED
  BY <1>3

\* The chunks do not overlap: each one ends where the next one starts, so none
\* starts before an earlier one has ended.
LEMMA ChunksInOrder ==
  \A c, d \in Chunks : c < d => Offset[c] + Length[c] <= Offset[d]
<1> SUFFICES ASSUME NEW c \in Chunks
             PROVE  \A d \in Chunks : c < d => Offset[c] + Length[c] <= Offset[d]
  OBVIOUS
<1> DEFINE Early == {d \in Chunks : c < d /\ ~(Offset[c] + Length[c] <= Offset[d])}
<1>0. \A d \in Chunks : d \in Nat /\ d <= N /\ d >= 1 /\ Offset[d] \in Nat /\ Length[d] \in Nat
  BY ChunksAssumption DEF Chunks
<1>1. ASSUME Early # {} PROVE FALSE
  <2>1. PICK d \in Early : \A e \in Early : d <= e
    BY <1>0, <1>1, LeastNatural
  <2>2. d - 1 \in Chunks /\ d \in Nat /\ c \in Nat /\ c < d
    BY <1>0, <2>1, ChunksAssumption DEF Chunks
  <2>3. Offset[d] = Offset[d - 1] + Length[d - 1]
    <3>1. (d - 1) + 1 = d /\ d \in Chunks
      BY <2>1, <2>2
    <3>2. QED
      BY <2>2, <3>1, ChunksAssumption
  <2>4. CASE d - 1 = c
    BY <1>0, <2>1, <2>3, <2>4
  <2>5. CASE d - 1 # c
    <3>1. c < d - 1 /\ d - 1 \notin Early
      BY <2>1, <2>2, <2>5
    <3>2. Offset[c] + Length[c] <= Offset[d - 1]
      BY <2>2, <3>1
    <3>3. QED
      BY <1>0, <2>1, <2>2, <2>3, <3>2
  <2>6. QED
    BY <2>4, <2>5
<1>2. QED
  BY <1>1

-----------------------------------------------------------------------------
(* The first layer: the stream.                                             *)

\* The types the argument needs, TypeOK without the counters of the handler.
WriterType ==
  /\ status \in [Chunks -> {"new", "accepted", "running", "done"}]
  /\ pc \in [Chunks -> {"none", "locking", "waiting", "writing", "broadcasting", "returned"}]
  /\ l \in Chunks \union {NoChunk}
  /\ totalBytes \in Nat
  /\ n \in Nat
  /\ append \in BOOLEAN
  /\ sink \in Seq(Nat)

\* A job that no worker has started is nowhere in WriteAt.
NotStarted == \A c \in Chunks : status[c] \in {"new", "accepted"} => pc[c] = "none"

\* The chunk being written holds the mutex, has had its turn and gave the
\* reader no more bytes than it has.
WriterHoldsMutex ==
  /\ \A c \in Chunks : pc[c] = "writing" <=> l = c
  /\ l = NoChunk => n = 0
  /\ \A c \in Chunks : pc[c] = "writing" => totalBytes >= Offset[c] /\ n <= Length[c]

\* As long as the pipe is whole, totalBytes has not gone past the start of a
\* chunk that has bytes and is still to be written: a turn is never skipped,
\* though WriteAt tests totalBytes with >=.
NoTurnSkipped ==
  pipe # "broken" =>
    \A c \in Chunks :
      pc[c] \in {"none", "locking", "waiting", "writing"} /\ Length[c] > 0
        => totalBytes <= Offset[c]

\* The bytes in the stream are the chunks written and the taken part of the one
\* being written.
StreamIsCounted == Len(sink) = totalBytes + n

\* The object appears when the goroutine of the uploader is done with S3.
ObjectAtTheEnd == uploader \notin {"releasing", "gone"} => object = NoObject

\* The inductive invariant. InOrder needs that the byte read is the next one,
\* which NoTurnSkipped and WriterHoldsMutex say of the chunk being written.
IInv ==
  /\ WriterType /\ NotStarted /\ WriterHoldsMutex /\ NoTurnSkipped
  /\ StreamIsCounted /\ ObjectAtTheEnd /\ InOrder /\ NoLostWakeup

-----------------------------------------------------------------------------
(* The invariant, one lemma for each group of conjuncts.                    *)

LEMMA InitIInv == Init => IInv
<1> SUFFICES ASSUME Init PROVE IInv
  OBVIOUS
<1> USE ChunksAssumption DEF Init, Pool!Init
<1>1. WriterType /\ NotStarted
  BY DEF WriterType, NotStarted
<1>2. WriterHoldsMutex
  BY DEF WriterHoldsMutex
<1>3. NoTurnSkipped
  BY DEF NoTurnSkipped
<1>4. StreamIsCounted /\ ObjectAtTheEnd /\ InOrder /\ NoLostWakeup
  BY DEF StreamIsCounted, ObjectAtTheEnd, InOrder, NoLostWakeup
<1>5. QED
  BY <1>1, <1>2, <1>3, <1>4 DEF IInv

\* The byte the reader takes is the next one of the file.
LEMMA ByteIsNext ==
  ASSUME IInv, ReadByte
  PROVE  /\ l \in Chunks
         /\ n < Length[l]
         /\ Offset[l] + n = Len(sink)
         /\ sink' = Append(sink, Len(sink))
<1>1. PICK c \in Chunks :
        pc[c] = "writing" /\ n < Length[c] /\ sink' = Append(sink, Offset[c] + n)
  BY DEF ReadByte
<1>2. l = c /\ totalBytes >= Offset[c]
  BY <1>1 DEF IInv, WriterHoldsMutex
<1>3. Offset[c] \in Nat /\ Length[c] \in Nat /\ n \in Nat /\ totalBytes \in Nat
  BY ChunksAssumption DEF IInv, WriterType
<1>4. Length[c] > 0
  BY <1>1, <1>3
<1>5. totalBytes <= Offset[c]
  BY <1>1, <1>4 DEF IInv, NoTurnSkipped, ReadByte
<1>6. Offset[c] + n = Len(sink)
  BY <1>2, <1>3, <1>5 DEF IInv, StreamIsCounted
<1>7. QED
  BY <1>1, <1>2, <1>6

LEMMA TypeStep == IInv /\ [Next]_vars => WriterType' /\ NotStarted'
<1> SUFFICES ASSUME IInv, [Next]_vars PROVE WriterType' /\ NotStarted'
  OBVIOUS
<1> USE ChunksAssumption DEF IInv, WriterType, NotStarted
<1>1. CASE AddChunk
  BY <1>1 DEF AddChunk, Pool!Accept, writeVars, s3Vars
<1>2. CASE Close \/ CloseWriter \/ Unlock
  BY <1>2 DEF Close, CloseWriter, Unlock, writeVars, s3Vars
<1>3. ASSUME NEW c \in Chunks, StartJob(c) PROVE WriterType' /\ NotStarted'
  BY <1>3 DEF StartJob, Pool!Start, s3Vars
<1>4. ASSUME NEW c \in Chunks, Lock(c) \/ WriteReturns(c) \/ Broadcast(c)
      PROVE  WriterType' /\ NotStarted'
  <2>1. CASE Lock(c)
    BY <2>1 DEF Lock, s3Vars
  <2>2. CASE WriteReturns(c)
    BY <2>2 DEF WriteReturns, s3Vars
  <2>3. CASE Broadcast(c)
    <3>1. /\ pc' \in [Chunks -> {"none", "locking", "waiting", "writing",
                                 "broadcasting", "returned"}]
          /\ \A d \in Chunks : pc[d] = "none" => d = c \/ pc'[d] = "none"
          /\ pc[c] = "broadcasting"
      BY <2>3 DEF Broadcast
    <3>2. UNCHANGED <<status, l, totalBytes, n, append, sink>>
      BY <2>3 DEF Broadcast, s3Vars
    <3>3. QED
      BY <3>1, <3>2
  <2>4. QED
    BY <1>4, <2>1, <2>2, <2>3
<1>5. ASSUME NEW c \in Chunks, FinishJob(c) PROVE WriterType' /\ NotStarted'
  BY <1>5 DEF FinishJob, Pool!Finish, writeVars, s3Vars
<1>6. CASE ReadByte
  <2>1. sink' = Append(sink, Len(sink))
    BY <1>6, ByteIsNext
  <2>2. sink' \in Seq(Nat)
    BY <2>1
  <2>3. QED
    BY <1>6, <2>2 DEF ReadByte, s3Vars
<1>7. CASE NextStage \/ ReadEOF \/ Complete \/ Fail
  BY <1>7 DEF NextStage, ReadEOF, Complete, Fail, writeVars
<1>8. CASE UNCHANGED vars
  BY <1>8 DEF vars, writeVars, s3Vars
<1>9. QED
  BY <1>1, <1>2, <1>3, <1>4, <1>5, <1>6, <1>7, <1>8 DEF Next

LEMMA MutexStep == IInv /\ [Next]_vars => WriterHoldsMutex'
<1> SUFFICES ASSUME IInv, [Next]_vars PROVE WriterHoldsMutex'
  OBVIOUS
<1> USE ChunksAssumption DEF IInv, WriterType, WriterHoldsMutex
<1>1. CASE AddChunk \/ Close \/ CloseWriter \/ Unlock
  BY <1>1 DEF AddChunk, Close, CloseWriter, Unlock, writeVars
<1>2. ASSUME NEW c \in Chunks, StartJob(c) PROVE WriterHoldsMutex'
  <2>1. pc[c] = "none"
    BY <1>2 DEF StartJob, Pool!Start, NotStarted
  <2>2. QED
    BY <1>2, <2>1 DEF StartJob
<1>3. ASSUME NEW c \in Chunks, Lock(c) PROVE WriterHoldsMutex'
  BY <1>3 DEF Lock, MyTurn
<1>4. ASSUME NEW c \in Chunks, WriteReturns(c) PROVE WriterHoldsMutex'
  BY <1>4 DEF WriteReturns
<1>5. ASSUME NEW c \in Chunks, Broadcast(c) \/ FinishJob(c) PROVE WriterHoldsMutex'
  <2>1. UNCHANGED <<l, totalBytes, n>>
    BY <1>5 DEF Broadcast, FinishJob, writeVars
  <2>2. \A d \in Chunks : pc'[d] = "writing" <=> pc[d] = "writing"
    BY <1>5 DEF Broadcast, FinishJob, writeVars
  <2>3. QED
    BY <2>1, <2>2
<1>6. CASE ReadByte
  <2>1. n' = n + 1 /\ l \in Chunks /\ n < Length[l] /\ UNCHANGED <<pc, l, totalBytes>>
    BY <1>6, ByteIsNext DEF ReadByte
  <2>2. Length[l] \in Nat /\ n' <= Length[l]
    BY <2>1
  <2>3. QED
    BY <2>1, <2>2
<1>7. CASE NextStage \/ ReadEOF \/ Complete \/ Fail
  BY <1>7 DEF NextStage, ReadEOF, Complete, Fail, writeVars
<1>8. CASE UNCHANGED vars
  BY <1>8 DEF vars, writeVars
<1>9. QED
  BY <1>1, <1>2, <1>3, <1>4, <1>5, <1>6, <1>7, <1>8 DEF Next

\* A whole chunk d was written: the chunks before it that have bytes were
\* written before it, and those after it start where it ends or later.
LEMMA TurnStep == IInv /\ [Next]_vars => NoTurnSkipped'
<1> SUFFICES ASSUME IInv, [Next]_vars PROVE NoTurnSkipped'
  OBVIOUS
<1> USE ChunksAssumption DEF IInv, WriterType, NoTurnSkipped
<1>1. CASE AddChunk \/ Close \/ CloseWriter \/ Unlock
  BY <1>1 DEF AddChunk, Close, CloseWriter, Unlock, writeVars
<1>2. ASSUME NEW c \in Chunks, StartJob(c) PROVE NoTurnSkipped'
  <2>1. pc[c] = "none"
    BY <1>2 DEF StartJob, Pool!Start, NotStarted
  <2>2. QED
    BY <1>2, <2>1 DEF StartJob
<1>3. ASSUME NEW c \in Chunks, Lock(c) PROVE NoTurnSkipped'
  BY <1>3 DEF Lock
<1>4. ASSUME NEW d \in Chunks, WriteReturns(d) PROVE NoTurnSkipped'
  <2> SUFFICES ASSUME pipe # "broken", NEW c \in Chunks,
                      pc'[c] \in {"none", "locking", "waiting", "writing"}, Length[c] > 0
               PROVE  totalBytes' <= Offset[c]
    BY <1>4 DEF WriteReturns
  <2>1. /\ n = Length[d] /\ totalBytes' = totalBytes + Length[d]
        /\ pc[d] = "writing" /\ pc' = [pc EXCEPT ![d] = "broadcasting"]
    BY <1>4 DEF WriteReturns
  <2>2. c # d /\ pc[c] \in {"none", "locking", "waiting", "writing"}
    BY <2>1
  <2>3. totalBytes <= Offset[c]
    BY <2>2
  <2>4. /\ Offset[c] \in Nat /\ Length[c] \in Nat /\ Offset[d] \in Nat /\ Length[d] \in Nat
        /\ totalBytes \in Nat /\ c \in Nat /\ d \in Nat
    BY DEF Chunks
  <2>5. CASE Length[d] = 0
    BY <2>1, <2>3, <2>4, <2>5
  <2>6. CASE Length[d] > 0
    <3>1. totalBytes = Offset[d]
      BY <2>1, <2>4, <2>6 DEF WriterHoldsMutex
    <3>2. ~(c < d)
      <4>1. c < d => Offset[c] + Length[c] <= Offset[d]
        BY ChunksInOrder
      <4>2. QED
        BY <2>3, <2>4, <3>1, <4>1
    <3>3. d < c
      BY <2>2, <2>4, <3>2
    <3>4. Offset[d] + Length[d] <= Offset[c]
      BY <3>3, ChunksInOrder
    <3>5. QED
      BY <2>1, <2>4, <3>1, <3>4
  <2>7. QED
    BY <2>4, <2>5, <2>6
<1>5. ASSUME NEW c \in Chunks, Broadcast(c) \/ FinishJob(c) PROVE NoTurnSkipped'
  BY <1>5 DEF Broadcast, FinishJob, writeVars
<1>6. CASE ReadByte
  BY <1>6 DEF ReadByte
<1>7. CASE NextStage \/ ReadEOF \/ Complete \/ Fail
  BY <1>7 DEF NextStage, ReadEOF, Complete, Fail, writeVars
<1>8. CASE UNCHANGED vars
  BY <1>8 DEF vars, writeVars
<1>9. QED
  BY <1>1, <1>2, <1>3, <1>4, <1>5, <1>6, <1>7, <1>8 DEF Next

LEMMA StreamStep == IInv /\ [Next]_vars => StreamIsCounted' /\ InOrder'
<1> SUFFICES ASSUME IInv, [Next]_vars PROVE StreamIsCounted' /\ InOrder'
  OBVIOUS
<1> USE DEF IInv, WriterType, StreamIsCounted, InOrder
<1>1. CASE AddChunk \/ Close \/ CloseWriter \/ Unlock
  BY <1>1 DEF AddChunk, Close, CloseWriter, Unlock, writeVars
<1>2. ASSUME NEW c \in Chunks, StartJob(c) \/ Lock(c) \/ Broadcast(c) \/ FinishJob(c)
      PROVE  StreamIsCounted' /\ InOrder'
  BY <1>2 DEF StartJob, Lock, Broadcast, FinishJob, writeVars
<1>3. ASSUME NEW c \in Chunks, WriteReturns(c) PROVE StreamIsCounted' /\ InOrder'
  BY <1>3 DEF WriteReturns
<1>4. CASE ReadByte
  <2>1. sink' = Append(sink, Len(sink)) /\ n' = n + 1 /\ totalBytes' = totalBytes
    BY <1>4, ByteIsNext DEF ReadByte
  <2>2. /\ Len(sink') = Len(sink) + 1
        /\ \A i \in 1..Len(sink) : sink'[i] = sink[i]
        /\ sink'[Len(sink) + 1] = Len(sink)
    BY <2>1
  <2>3. QED
    BY <2>1, <2>2
<1>5. CASE NextStage \/ ReadEOF \/ Complete \/ Fail
  BY <1>5 DEF NextStage, ReadEOF, Complete, Fail, writeVars
<1>6. CASE UNCHANGED vars
  BY <1>6 DEF vars, writeVars
<1>7. QED
  BY <1>1, <1>2, <1>3, <1>4, <1>5, <1>6 DEF Next

\* Only WriteReturns makes a turn come, and it leaves its chunk on the way to
\* Broadcast, after which nobody waits.
LEMMA WakeupStep == IInv /\ [Next]_vars => NoLostWakeup'
<1> SUFFICES ASSUME IInv, [Next]_vars PROVE NoLostWakeup'
  OBVIOUS
<1> USE DEF IInv, WriterType, NoLostWakeup
<1>1. CASE AddChunk \/ Close \/ CloseWriter \/ Unlock
  BY <1>1 DEF AddChunk, Close, CloseWriter, Unlock, writeVars
<1>2. ASSUME NEW c \in Chunks, StartJob(c) PROVE NoLostWakeup'
  <2>1. pc[c] = "none"
    BY <1>2 DEF StartJob, Pool!Start, NotStarted
  <2>2. QED
    BY <1>2, <2>1 DEF StartJob
<1>3. ASSUME NEW c \in Chunks, Lock(c) PROVE NoLostWakeup'
  BY <1>3 DEF Lock, MyTurn
<1>4. ASSUME NEW c \in Chunks, WriteReturns(c) PROVE NoLostWakeup'
  <2>1. pc'[c] = "broadcasting"
    BY <1>4 DEF WriteReturns
  <2>2. QED
    BY <2>1
<1>5. ASSUME NEW c \in Chunks, Broadcast(c) PROVE NoLostWakeup'
  <2>1. \A d \in Chunks : pc'[d] # "waiting"
    BY <1>5 DEF Broadcast
  <2>2. QED
    BY <2>1
<1>6. ASSUME NEW c \in Chunks, FinishJob(c) PROVE NoLostWakeup'
  BY <1>6 DEF FinishJob, writeVars
<1>7. CASE ReadByte \/ NextStage \/ ReadEOF \/ Complete \/ Fail
  BY <1>7 DEF ReadByte, NextStage, ReadEOF, Complete, Fail, writeVars
<1>8. CASE UNCHANGED vars
  BY <1>8 DEF vars, writeVars
<1>9. QED
  BY <1>1, <1>2, <1>3, <1>4, <1>5, <1>6, <1>7, <1>8 DEF Next

LEMMA ObjectStep == IInv /\ [Next]_vars => ObjectAtTheEnd'
<1> SUFFICES ASSUME IInv, [Next]_vars PROVE ObjectAtTheEnd'
  OBVIOUS
<1> USE DEF IInv, ObjectAtTheEnd
<1>1. CASE AddChunk \/ Close \/ CloseWriter \/ Unlock
  BY <1>1 DEF AddChunk, Close, CloseWriter, Unlock, s3Vars
<1>2. ASSUME NEW c \in Chunks,
             StartJob(c) \/ Lock(c) \/ WriteReturns(c) \/ Broadcast(c) \/ FinishJob(c)
      PROVE  ObjectAtTheEnd'
  BY <1>2 DEF StartJob, Lock, WriteReturns, Broadcast, FinishJob, s3Vars
<1>3. CASE ReadByte \/ NextStage \/ ReadEOF \/ Complete \/ Fail
  BY <1>3 DEF ReadByte, NextStage, ReadEOF, Complete, Fail, s3Vars
<1>4. CASE UNCHANGED vars
  BY <1>4 DEF vars, s3Vars
<1>5. QED
  BY <1>1, <1>2, <1>3, <1>4 DEF Next

LEMMA Invariance == Spec => []IInv
<1>1. IInv /\ [Next]_vars => IInv'
  BY TypeStep, MutexStep, TurnStep, StreamStep, WakeupStep, ObjectStep DEF IInv
<1>2. QED
  BY InitIInv, <1>1, PTL DEF Spec

\* S3 reads the file from its first byte, without a gap, a repetition or a swap,
\* whatever the number and lengths of the chunks, the order in which the workers
\* run their WriteAt and the moment a call to S3 fails.
THEOREM StreamInOrder == Spec => []InOrder
<1>1. IInv => InOrder
  BY DEF IInv
<1>2. QED
  BY <1>1, Invariance, PTL

\* A WriteAt whose turn has come never sleeps on the condition without another
\* WriteAt about to call Broadcast, which it does after it released the mutex.
THEOREM NoWakeupLost == Spec => []NoLostWakeup
<1>1. IInv => NoLostWakeup
  BY DEF IInv
<1>2. QED
  BY <1>1, Invariance, PTL

-----------------------------------------------------------------------------
(* The second layer: the jobs that File.Close waits for, and the bytes that *)
(* are in the stream when it has ended.                                     *)

\* The rest of TypeOK; the bound of wg follows from Counted.
HandlerType ==
  /\ slot \in [Workers -> Chunks \union {NoChunk}]
  /\ handler \in {"copying", "waiting", "locked", "closed"}
  /\ added \in 0..N
  /\ pipe \in {"open", "eof", "broken"}
  /\ uploader \in {"creating", "copying", "reading", "uploading", "completing",
                   "releasing", "gone"}
  /\ object \in {NoObject} \union Seq(Nat)

UnderWay(s) == s \in {"accepted", "running"}

\* The jobs that were added and are not done.
Pending(st) == {c \in Chunks : UnderWay(st[c])}

\* The WaitGroup has one count for each of them.
Counted == wg \in Nat /\ wg = Cardinality(Pending(status))

\* The Dispatcher has got the chunks in the order of the file, up to chunk added.
AddedInOrder == \A c \in Chunks : status[c] # "new" <=> c <= added

DoneHaveReturned == \A c \in Chunks : status[c] = "done" => pc[c] = "returned"

\* The writer is closed when every job is done, and the stream ends then.
ClosedWhenDone ==
  /\ handler \in {"locked", "closed"} => \A c \in Chunks : ~UnderWay(status[c])
  /\ pipe = "eof" => handler \in {"locked", "closed"}

\* What S3 has stored is a stream that has ended, unless a later call fails.
StoredAfterEOF ==
  /\ uploader \in {"uploading", "completing"} => pipe = "eof"
  /\ object # NoObject =>
       pipe = "eof" /\ uploader \in {"releasing", "gone"} /\ object = sink

\* As long as the pipe is whole, totalBytes is not behind a chunk that was written
\* and not past the last chunk that was added.
TotalInBounds ==
  pipe # "broken" =>
    /\ \A c \in Chunks :
         pc[c] \in {"broadcasting", "returned"} => totalBytes >= Offset[c] + Length[c]
    /\ added = 0 => totalBytes = 0
    /\ added > 0 => totalBytes <= Offset[added] + Length[added]

CloseInv ==
  /\ HandlerType /\ Counted /\ AddedInOrder /\ DoneHaveReturned
  /\ ClosedWhenDone /\ StoredAfterEOF /\ TotalInBounds

LEMMA PendingIsFinite ==
  ASSUME NEW st
  PROVE  /\ IsFiniteSet(Pending(st)) /\ Cardinality(Pending(st)) \in 0..N
<1>1. N \in Nat /\ 1 \in Int /\ N \in Int
  BY ChunksAssumption
<1>2. IsFiniteSet(Chunks) /\ Cardinality(Chunks) = N
  BY <1>1, FS_Interval DEF Chunks
<1>3. Pending(st) \in SUBSET Chunks
  BY DEF Pending
<1>4. IsFiniteSet(Pending(st)) /\ Cardinality(Pending(st)) <= N
  BY <1>2, <1>3, FS_Subset
<1>5. QED
  BY <1>1, <1>4, FS_CardinalityType

LEMMA PendingGrows ==
  ASSUME NEW st, NEW su, NEW c \in Chunks, ~UnderWay(st[c]), UnderWay(su[c]),
         \A d \in Chunks \ {c} : su[d] = st[d]
  PROVE  Cardinality(Pending(su)) = Cardinality(Pending(st)) + 1
<1>1. Pending(su) = Pending(st) \cup {c} /\ c \notin Pending(st)
  BY DEF Pending
<1>2. IsFiniteSet(Pending(st))
  BY PendingIsFinite
<1>3. QED
  BY <1>1, <1>2, FS_AddElement

LEMMA PendingShrinks ==
  ASSUME NEW st, NEW su, NEW c \in Chunks, UnderWay(st[c]), ~UnderWay(su[c]),
         \A d \in Chunks \ {c} : su[d] = st[d]
  PROVE  Cardinality(Pending(su)) = Cardinality(Pending(st)) - 1
<1>1. Pending(su) = Pending(st) \ {c} /\ c \in Pending(st)
  BY DEF Pending
<1>2. IsFiniteSet(Pending(st))
  BY PendingIsFinite
<1>3. QED
  BY <1>1, <1>2, FS_RemoveElement

LEMMA PendingSame ==
  ASSUME NEW st, NEW su, \A c \in Chunks : UnderWay(su[c]) <=> UnderWay(st[c])
  PROVE  Pending(su) = Pending(st)
  BY DEF Pending

LEMMA NoneIsPending ==
  ASSUME Counted, wg = 0
  PROVE  \A c \in Chunks : ~UnderWay(status[c])
<1>1. IsFiniteSet(Pending(status)) /\ Cardinality(Pending(status)) = 0
  BY PendingIsFinite DEF Counted
<1>2. Pending(status) = {}
  BY <1>1, FS_EmptySet
<1>3. QED
  BY <1>2 DEF Pending

\* The chunk that AddChunk adds.
LEMMA AddedChunk ==
  ASSUME CloseInv, AddChunk
  PROVE  added + 1 \in Chunks /\ added \in Nat /\ status[added + 1] = "new"
  BY ChunksAssumption DEF CloseInv, HandlerType, AddChunk, Pool!Accept, Chunks

LEMMA InitCloseInv == Init => CloseInv
<1> SUFFICES ASSUME Init PROVE CloseInv
  OBVIOUS
<1> USE ChunksAssumption DEF Init, Pool!Init
<1>1. HandlerType
  BY DEF HandlerType
<1>2. Counted
  <2>1. Pending(status) = {}
    BY DEF Pending, UnderWay
  <2>2. QED
    BY <2>1, FS_EmptySet DEF Counted
<1>3. AddedInOrder /\ DoneHaveReturned
  BY DEF AddedInOrder, DoneHaveReturned, Chunks
<1>4. ClosedWhenDone
  BY DEF ClosedWhenDone
<1>5. StoredAfterEOF
  BY DEF StoredAfterEOF
<1>6. TotalInBounds
  BY DEF TotalInBounds
<1>7. QED
  BY <1>1, <1>2, <1>3, <1>4, <1>5, <1>6 DEF CloseInv

LEMMA HandlerTypeStep == IInv /\ CloseInv /\ [Next]_vars => HandlerType'
<1> SUFFICES ASSUME IInv, CloseInv, [Next]_vars PROVE HandlerType'
  OBVIOUS
<1> USE DEF HandlerType
<1>0. HandlerType
  BY DEF CloseInv
<1>1. CASE AddChunk
  <2>1. added' \in 0..N
    BY <1>1, AddedChunk DEF AddChunk, Chunks
  <2>2. QED
    BY <1>0, <1>1, <2>1 DEF AddChunk, Pool!Accept, s3Vars
<1>2. CASE Close \/ CloseWriter \/ Unlock
  BY <1>0, <1>2 DEF Close, CloseWriter, Unlock, s3Vars
<1>3. ASSUME NEW c \in Chunks,
             StartJob(c) \/ Lock(c) \/ WriteReturns(c) \/ Broadcast(c) \/ FinishJob(c)
      PROVE  HandlerType'
  <2>1. UNCHANGED <<handler, added, pipe, s3Vars>>
    BY <1>3 DEF StartJob, Lock, WriteReturns, Broadcast, FinishJob, fileVars
  <2>2. slot' \in [Workers -> Chunks \union {NoChunk}]
    BY <1>0, <1>3 DEF StartJob, Lock, WriteReturns, Broadcast, FinishJob, Pool!Start, Pool!Finish
  <2>3. QED
    BY <1>0, <2>1, <2>2 DEF s3Vars
<1>4. CASE ReadByte \/ NextStage \/ Fail
  BY <1>0, <1>4 DEF ReadByte, NextStage, Fail, fileVars, s3Vars
<1>5. CASE ReadEOF \/ Complete
  <2>1. sink \in Seq(Nat)
    BY DEF IInv, WriterType
  <2>2. QED
    BY <1>0, <1>5, <2>1 DEF ReadEOF, Complete, fileVars
<1>6. CASE UNCHANGED vars
  BY <1>0, <1>6 DEF vars, fileVars, s3Vars
<1>7. QED
  BY <1>1, <1>2, <1>3, <1>4, <1>5, <1>6 DEF Next

LEMMA CountStep == IInv /\ CloseInv /\ [Next]_vars => Counted'
<1> SUFFICES ASSUME IInv, CloseInv, [Next]_vars PROVE Counted'
  OBVIOUS
<1>0. Counted /\ status \in [Chunks -> {"new", "accepted", "running", "done"}]
  BY DEF IInv, WriterType, CloseInv
<1>1. ASSUME wg' = wg, \A d \in Chunks : UnderWay(status'[d]) <=> UnderWay(status[d])
      PROVE  Counted'
  BY <1>0, <1>1, PendingSame DEF Counted
<1>2. CASE AddChunk
  <2>1. /\ added + 1 \in Chunks /\ status[added + 1] = "new" /\ wg' = wg + 1
        /\ status' = [status EXCEPT ![added + 1] = "accepted"]
    BY <1>2, AddedChunk DEF AddChunk, Pool!Accept
  <2>2. ~UnderWay(status[added + 1]) /\ UnderWay(status'[added + 1])
    BY <1>0, <2>1 DEF UnderWay
  <2>3. \A d \in Chunks \ {added + 1} : status'[d] = status[d]
    BY <1>0, <2>1
  <2>4. Cardinality(Pending(status')) = Cardinality(Pending(status)) + 1
    BY <2>1, <2>2, <2>3, PendingGrows
  <2>5. QED
    BY <1>0, <2>1, <2>4 DEF Counted
<1>3. CASE Close \/ CloseWriter \/ Unlock
  BY <1>1, <1>3 DEF Close, CloseWriter, Unlock
<1>4. ASSUME NEW c \in Chunks, StartJob(c) PROVE Counted'
  <2>1. status[c] = "accepted" /\ status' = [status EXCEPT ![c] = "running"] /\ wg' = wg
    BY <1>4 DEF StartJob, Pool!Start, fileVars
  <2>2. \A d \in Chunks : UnderWay(status'[d]) <=> UnderWay(status[d])
    BY <1>0, <2>1 DEF UnderWay
  <2>3. QED
    BY <1>1, <2>1, <2>2
<1>5. ASSUME NEW c \in Chunks, Lock(c) \/ WriteReturns(c) \/ Broadcast(c) PROVE Counted'
  BY <1>1, <1>5 DEF Lock, WriteReturns, Broadcast, fileVars
<1>6. ASSUME NEW c \in Chunks, FinishJob(c) PROVE Counted'
  <2>1. /\ status[c] = "running" /\ status' = [status EXCEPT ![c] = "done"]
        /\ wg' = wg - 1
    BY <1>6 DEF FinishJob, Pool!Finish
  <2>2. /\ UnderWay(status[c]) /\ ~UnderWay(status'[c])
        /\ \A d \in Chunks \ {c} : status'[d] = status[d]
    BY <1>0, <2>1 DEF UnderWay
  <2>3. Cardinality(Pending(status')) = Cardinality(Pending(status)) - 1
    BY <2>2, PendingShrinks
  <2>4. Cardinality(Pending(status')) \in Nat
    BY PendingIsFinite
  <2>5. QED
    BY <1>0, <2>1, <2>3, <2>4 DEF Counted
<1>7. CASE ReadByte \/ NextStage \/ ReadEOF \/ Complete \/ Fail
  BY <1>1, <1>7 DEF ReadByte, NextStage, ReadEOF, Complete, Fail, fileVars
<1>8. CASE UNCHANGED vars
  BY <1>1, <1>8 DEF vars, fileVars
<1>9. QED
  BY <1>2, <1>3, <1>4, <1>5, <1>6, <1>7, <1>8 DEF Next

LEMMA OrderStep == IInv /\ CloseInv /\ [Next]_vars => AddedInOrder' /\ DoneHaveReturned'
<1> SUFFICES ASSUME IInv, CloseInv, [Next]_vars PROVE AddedInOrder' /\ DoneHaveReturned'
  OBVIOUS
<1> USE DEF AddedInOrder, DoneHaveReturned
<1>0. /\ status \in [Chunks -> {"new", "accepted", "running", "done"}]
      /\ pc \in [Chunks -> {"none", "locking", "waiting", "writing", "broadcasting", "returned"}]
      /\ AddedInOrder /\ DoneHaveReturned
  BY DEF IInv, WriterType, CloseInv
<1>1. ASSUME UNCHANGED <<status, added, pc>> PROVE AddedInOrder' /\ DoneHaveReturned'
  BY <1>0, <1>1
<1>2. CASE AddChunk
  <2>1. \A c \in Chunks : c \in Nat
    BY DEF Chunks
  <2>2. QED
    BY <1>0, <1>2, <2>1, AddedChunk DEF AddChunk, Pool!Accept, writeVars
<1>3. CASE Close \/ CloseWriter \/ Unlock
  BY <1>1, <1>3 DEF Close, CloseWriter, Unlock, writeVars
<1>4. ASSUME NEW c \in Chunks, StartJob(c) PROVE AddedInOrder' /\ DoneHaveReturned'
  BY <1>0, <1>4 DEF StartJob, Pool!Start, fileVars
<1>5. ASSUME NEW c \in Chunks, Lock(c) \/ WriteReturns(c) \/ Broadcast(c)
      PROVE  AddedInOrder' /\ DoneHaveReturned'
  <2>1. UNCHANGED <<status, added>>
    BY <1>5 DEF Lock, WriteReturns, Broadcast, fileVars
  <2>2. \A d \in Chunks : pc[d] = "returned" => pc'[d] = "returned"
    BY <1>0, <1>5 DEF Lock, WriteReturns, Broadcast
  <2>3. QED
    BY <1>0, <2>1, <2>2
<1>6. ASSUME NEW c \in Chunks, FinishJob(c) PROVE AddedInOrder' /\ DoneHaveReturned'
  BY <1>0, <1>6 DEF FinishJob, Pool!Finish, writeVars
<1>7. CASE ReadByte \/ NextStage \/ ReadEOF \/ Complete \/ Fail
  BY <1>1, <1>7 DEF ReadByte, NextStage, ReadEOF, Complete, Fail, fileVars, writeVars
<1>8. CASE UNCHANGED vars
  BY <1>1, <1>8 DEF vars, fileVars, writeVars
<1>9. QED
  BY <1>2, <1>3, <1>4, <1>5, <1>6, <1>7, <1>8 DEF Next

\* No job is added after Close, and CloseWriter waits for those that were.
LEMMA ClosedStep == IInv /\ CloseInv /\ [Next]_vars => ClosedWhenDone'
<1> SUFFICES ASSUME IInv, CloseInv, [Next]_vars PROVE ClosedWhenDone'
  OBVIOUS
<1> USE DEF ClosedWhenDone
<1>0. /\ ClosedWhenDone /\ Counted
      /\ status \in [Chunks -> {"new", "accepted", "running", "done"}]
  BY DEF IInv, WriterType, CloseInv
<1>1. CASE AddChunk \/ Close
  BY <1>0, <1>1 DEF AddChunk, Close
<1>2. CASE CloseWriter
  BY <1>0, <1>2, NoneIsPending DEF CloseWriter
<1>3. CASE Unlock
  BY <1>0, <1>3 DEF Unlock
<1>4. ASSUME NEW c \in Chunks,
             StartJob(c) \/ Lock(c) \/ WriteReturns(c) \/ Broadcast(c) \/ FinishJob(c)
      PROVE  ClosedWhenDone'
  <2>1. UNCHANGED <<handler, pipe>>
    BY <1>4 DEF StartJob, Lock, WriteReturns, Broadcast, FinishJob, fileVars
  <2>2. \A d \in Chunks : UnderWay(status'[d]) => UnderWay(status[d])
    BY <1>0, <1>4 DEF StartJob, Lock, WriteReturns, Broadcast, FinishJob, Pool!Start,
       Pool!Finish, UnderWay
  <2>3. QED
    BY <1>0, <2>1, <2>2
<1>5. CASE ReadByte \/ NextStage \/ ReadEOF \/ Complete \/ Fail
  BY <1>0, <1>5 DEF ReadByte, NextStage, ReadEOF, Complete, Fail, fileVars
<1>6. CASE UNCHANGED vars
  BY <1>0, <1>6 DEF vars, fileVars
<1>7. QED
  BY <1>1, <1>2, <1>3, <1>4, <1>5, <1>6 DEF Next

LEMMA StoredStep == IInv /\ CloseInv /\ [Next]_vars => StoredAfterEOF'
<1> SUFFICES ASSUME IInv, CloseInv, [Next]_vars PROVE StoredAfterEOF'
  OBVIOUS
<1> USE DEF StoredAfterEOF
<1>0. StoredAfterEOF /\ ClosedWhenDone /\ ObjectAtTheEnd
  BY DEF IInv, CloseInv
<1>1. CASE AddChunk \/ Close \/ CloseWriter \/ Unlock
  BY <1>0, <1>1 DEF AddChunk, Close, CloseWriter, Unlock, s3Vars, ClosedWhenDone
<1>2. ASSUME NEW c \in Chunks,
             StartJob(c) \/ Lock(c) \/ WriteReturns(c) \/ Broadcast(c) \/ FinishJob(c)
      PROVE  StoredAfterEOF'
  BY <1>0, <1>2 DEF StartJob, Lock, WriteReturns, Broadcast, FinishJob, s3Vars
<1>3. CASE ReadByte \/ NextStage \/ Fail
  BY <1>0, <1>3 DEF ReadByte, NextStage, Fail, s3Vars, ObjectAtTheEnd
<1>4. CASE ReadEOF \/ Complete
  BY <1>0, <1>4 DEF ReadEOF, Complete, ObjectAtTheEnd
<1>5. CASE UNCHANGED vars
  BY <1>0, <1>5 DEF vars, s3Vars
<1>6. QED
  BY <1>1, <1>2, <1>3, <1>4, <1>5 DEF Next

\* The bytes of chunk d were the last part of the stream, or it had none.
LEMMA BoundsStep == IInv /\ CloseInv /\ [Next]_vars => TotalInBounds'
<1> SUFFICES ASSUME IInv, CloseInv, [Next]_vars PROVE TotalInBounds'
  OBVIOUS
<1> USE DEF TotalInBounds
<1>0. WriterType /\ TotalInBounds /\ added \in 0..N /\ N \in Nat
  BY ChunksAssumption DEF IInv, CloseInv, HandlerType
<1>a. \A c \in Chunks : Offset[c] \in Nat /\ Length[c] \in Nat /\ c \in Nat
  BY ChunksAssumption DEF Chunks
<1>1. ASSUME UNCHANGED <<pc, totalBytes, added>>, pipe' # "broken" => pipe # "broken"
      PROVE  TotalInBounds'
  BY <1>0, <1>1
<1>2. CASE AddChunk
  <2>1. /\ added + 1 \in Chunks /\ added \in Nat
        /\ added' = added + 1 /\ UNCHANGED <<pc, totalBytes, pipe>>
    BY <1>2, AddedChunk DEF AddChunk, writeVars
  <2>2. added > 0 => added \in Chunks /\ Offset[added] + Length[added] <= Offset[added + 1]
    BY <1>0, <2>1, ChunksAssumption DEF Chunks
  <2>3. totalBytes \in Nat
    BY <1>0 DEF WriterType
  <2>4. QED
    BY <1>0, <1>a, <2>1, <2>2, <2>3
<1>3. CASE Close \/ CloseWriter \/ Unlock
  BY <1>1, <1>3 DEF Close, CloseWriter, Unlock, writeVars
<1>4. ASSUME NEW c \in Chunks, StartJob(c) \/ Lock(c) PROVE TotalInBounds'
  <2>1. UNCHANGED <<totalBytes, added, pipe>>
    BY <1>4 DEF StartJob, Lock, fileVars
  <2>2. \A d \in Chunks : pc'[d] \in {"broadcasting", "returned"} => pc[d] = pc'[d]
    BY <1>0, <1>4 DEF StartJob, Lock, WriterType
  <2>3. QED
    BY <1>0, <2>1, <2>2
<1>5. ASSUME NEW d \in Chunks, WriteReturns(d) PROVE TotalInBounds'
  <2> SUFFICES ASSUME pipe # "broken"
               PROVE  /\ \A c \in Chunks : pc'[c] \in {"broadcasting", "returned"} =>
                           totalBytes' >= Offset[c] + Length[c]
                      /\ added = 0 => totalBytes' = 0
                      /\ added > 0 => totalBytes' <= Offset[added] + Length[added]
    BY <1>5 DEF WriteReturns, fileVars
  <2>1. /\ totalBytes' = totalBytes + Length[d] /\ pc[d] = "writing"
        /\ pc' = [pc EXCEPT ![d] = "broadcasting"]
    BY <1>5 DEF WriteReturns
  <2>2. totalBytes \in Nat /\ Offset[d] \in Nat /\ Length[d] \in Nat /\ totalBytes >= Offset[d]
    BY <1>0, <1>a, <2>1 DEF IInv, WriterType, WriterHoldsMutex
  <2>3. ASSUME NEW c \in Chunks, pc'[c] \in {"broadcasting", "returned"}
        PROVE  totalBytes' >= Offset[c] + Length[c]
    <3>1. CASE c = d
      BY <2>1, <2>2, <3>1
    <3>2. CASE c # d
      <4>1. totalBytes >= Offset[c] + Length[c]
        BY <1>0, <2>1, <2>3, <3>2 DEF WriterType
      <4>2. QED
        BY <1>a, <2>1, <2>2, <4>1
    <3>3. QED
      BY <3>1, <3>2
  <2>4. d <= added /\ added > 0
    <3>1. status[d] # "new"
      BY <2>1 DEF IInv, NotStarted
    <3>2. QED
      BY <1>0, <1>a, <3>1 DEF CloseInv, AddedInOrder, Chunks
  <2>5. added \in Chunks
    BY <1>0, <2>4 DEF Chunks
  <2>6. totalBytes' <= Offset[added] + Length[added]
    <3>1. CASE Length[d] = 0
      BY <1>0, <2>1, <2>2, <2>4, <3>1
    <3>2. CASE Length[d] > 0
      <4>1. totalBytes = Offset[d]
        BY <2>1, <2>2, <3>2 DEF IInv, NoTurnSkipped
      <4>2. d = added \/ Offset[d] + Length[d] <= Offset[added]
        BY <1>0, <1>a, <2>4, <2>5, ChunksInOrder
      <4>3. QED
        BY <1>a, <2>1, <2>5, <4>1, <4>2
    <3>3. QED
      BY <2>2, <3>1, <3>2
  <2>7. QED
    BY <2>3, <2>4, <2>6
<1>6. ASSUME NEW c \in Chunks, Broadcast(c) PROVE TotalInBounds'
  <2>1. UNCHANGED <<totalBytes, added, pipe>>
    BY <1>6 DEF Broadcast, fileVars
  <2>2. \A d \in Chunks : pc'[d] \in {"broadcasting", "returned"} =>
          pc[d] \in {"broadcasting", "returned"}
    BY <1>6 DEF Broadcast
  <2>3. QED
    BY <1>0, <2>1, <2>2
<1>7. ASSUME NEW c \in Chunks, FinishJob(c) PROVE TotalInBounds'
  BY <1>1, <1>7 DEF FinishJob, writeVars
<1>8. CASE ReadByte \/ NextStage \/ ReadEOF \/ Complete \/ Fail
  BY <1>1, <1>8 DEF ReadByte, NextStage, ReadEOF, Complete, Fail, fileVars, writeVars
<1>9. CASE UNCHANGED vars
  BY <1>1, <1>9 DEF vars, fileVars, writeVars
<1>10. QED
  BY <1>2, <1>3, <1>4, <1>5, <1>6, <1>7, <1>8, <1>9 DEF Next

LEMMA CloseInvariance == Spec => []CloseInv
<1>1. IInv /\ CloseInv /\ [Next]_vars => CloseInv'
  BY HandlerTypeStep, CountStep, OrderStep, ClosedStep, StoredStep, BoundsStep DEF CloseInv
<1>2. QED
  BY InitCloseInv, Invariance, <1>1, PTL DEF Spec

\* The variables have their types; the WaitGroup of the file never counts more jobs
\* than there are chunks, and never less than none, where it would panic.
THEOREM TypeCorrect == Spec => []TypeOK
<1>1. IInv /\ CloseInv => TypeOK
  <2>1. ASSUME Counted PROVE wg \in 0..N
    BY <2>1, PendingIsFinite DEF Counted
  <2>2. QED
    BY <2>1 DEF IInv, WriterType, CloseInv, HandlerType, TypeOK
<1>2. QED
  BY <1>1, Invariance, CloseInvariance, PTL

\* When the stream has ended, all that was given to the Dispatcher is in it.
LEMMA StreamIsWhole ==
  IInv /\ CloseInv /\ pipe = "eof" =>
    handler \in {"locked", "closed"} /\ Len(sink) = Given
<1> SUFFICES ASSUME IInv, CloseInv, pipe = "eof"
             PROVE  handler \in {"locked", "closed"} /\ Len(sink) = Given
  OBVIOUS
<1>1. handler \in {"locked", "closed"}
  BY DEF CloseInv, ClosedWhenDone
<1>2. \A c \in Chunks : c <= added => status[c] = "done"
  <2>1. \A c \in Chunks : ~UnderWay(status[c])
    BY <1>1 DEF CloseInv, ClosedWhenDone
  <2>2. QED
    BY <2>1 DEF IInv, WriterType, CloseInv, AddedInOrder, UnderWay
<1>3. \A c \in Chunks : pc[c] # "writing"
  <2>1. \A c \in Chunks : status[c] \in {"new", "done"}
    BY <1>1 DEF IInv, WriterType, CloseInv, ClosedWhenDone, UnderWay
  <2>2. QED
    BY <2>1 DEF IInv, NotStarted, CloseInv, DoneHaveReturned
<1>4. n = 0 /\ Len(sink) = totalBytes /\ totalBytes \in Nat
  BY <1>3 DEF IInv, WriterType, WriterHoldsMutex, StreamIsCounted
<1>5. CASE added = 0
  BY <1>1, <1>4, <1>5 DEF CloseInv, TotalInBounds, Given
<1>6. CASE added # 0
  <2>1. /\ added \in Chunks /\ Offset[added] \in Nat /\ Length[added] \in Nat
        /\ added <= added /\ added > 0
    BY <1>6, ChunksAssumption DEF CloseInv, HandlerType, Chunks
  <2>2. pc[added] = "returned"
    BY <1>2, <2>1 DEF CloseInv, DoneHaveReturned
  <2>3. totalBytes = Offset[added] + Length[added]
    BY <1>4, <2>1, <2>2 DEF CloseInv, TotalInBounds
  <2>4. QED
    BY <1>1, <1>4, <1>6, <2>3 DEF Given
<1>7. QED
  BY <1>5, <1>6

\* The object that S3 shows has every byte of every chunk that was given to the
\* Dispatcher, the last of them included, whatever the order of the jobs.
THEOREM ObjectHasAllChunks == Spec => []ObjectIsWhole
<1>1. IInv /\ CloseInv => ObjectIsWhole
  BY StreamIsWhole DEF CloseInv, StoredAfterEOF, ObjectIsWhole
<1>2. QED
  BY <1>1, Invariance, CloseInvariance, PTL

-----------------------------------------------------------------------------
(* Refinement: AddChunk is Give, ReadByte is Receive; the end of an Upload, *)
(* and Complete of an append, are Publish; every other step stutters.       *)

\* The chunk given is the next one of the file.
LEMMA GivenGrows ==
  IInv /\ CloseInv /\ AddChunk => Given \in Nat /\ Given' \in Nat /\ Given' >= Given
<1> SUFFICES ASSUME IInv, CloseInv, AddChunk
             PROVE  Given \in Nat /\ Given' \in Nat /\ Given' >= Given
  OBVIOUS
<1>1. added \in Nat /\ added + 1 \in Chunks /\ added' = added + 1
  BY AddedChunk DEF AddChunk, CloseInv, HandlerType
<1>2. /\ Offset[added + 1] \in Nat /\ Length[added + 1] \in Nat
      /\ Given' = Offset[added + 1] + Length[added + 1]
  BY <1>1, ChunksAssumption DEF Given
<1>3. CASE added = 0
  BY <1>2, <1>3 DEF Given
<1>4. CASE added # 0
  <2>1. added \in Chunks
    BY <1>1, <1>4, ChunksAssumption DEF Chunks
  <2>2. /\ Offset[added] \in Nat /\ Length[added] \in Nat
        /\ Offset[added + 1] = Offset[added] + Length[added]
    BY <1>1, <2>1, ChunksAssumption
  <2>3. QED
    BY <1>2, <1>4, <2>2 DEF Given
<1>5. QED
  BY <1>3, <1>4

\* A byte is read only of a chunk that was given.
LEMMA ByteWasGiven == IInv /\ CloseInv /\ ReadByte => Len(sink) < Given
<1> SUFFICES ASSUME IInv, CloseInv, ReadByte PROVE Len(sink) < Given
  OBVIOUS
<1>1. l \in Chunks /\ n < Length[l] /\ Offset[l] + n = Len(sink)
  BY ByteIsNext
<1>2. l <= added
  <2>1. pc[l] = "writing"
    BY <1>1 DEF IInv, WriterHoldsMutex
  <2>2. status[l] # "new"
    BY <1>1, <2>1 DEF IInv, NotStarted
  <2>3. QED
    BY <1>1, <2>2 DEF CloseInv, AddedInOrder
<1>3. /\ l \in Nat /\ added \in Nat /\ added # 0 /\ added \in Chunks
  BY <1>1, <1>2, ChunksAssumption DEF CloseInv, HandlerType, Chunks
<1>4. /\ Offset[l] \in Nat /\ Length[l] \in Nat /\ n \in Nat
      /\ Offset[added] \in Nat /\ Length[added] \in Nat
  BY <1>1, <1>3, ChunksAssumption DEF IInv, WriterType
<1>5. Offset[l] + Length[l] <= Offset[added] + Length[added]
  <2>1. l = added \/ Offset[l] + Length[l] <= Offset[added]
    BY <1>1, <1>2, <1>3, ChunksInOrder
  <2>2. QED
    BY <1>4, <2>1
<1>6. QED
  BY <1>1, <1>3, <1>4, <1>5 DEF Given

LEMMA StepSimulation ==
  IInv /\ CloseInv /\ [Next]_vars => [Sequential!Next]_(Sequential!vars)
<1> SUFFICES ASSUME IInv, CloseInv, [Next]_vars
             PROVE  [Sequential!Next]_(Sequential!vars)
  OBVIOUS
<1> USE DEF Sequential!vars
<1>1. UNCHANGED added => UNCHANGED Given
  BY DEF Given
<1>2. CASE AddChunk
  <2>1. UNCHANGED <<sink, object>>
    BY <1>2 DEF AddChunk, s3Vars
  <2>2. object = NoObject
    BY <1>2 DEF AddChunk, CloseInv, StoredAfterEOF, ClosedWhenDone
  <2>3. Given \in Nat /\ Given' \in Nat /\ Given' >= Given
    BY <1>2, GivenGrows
  <2>4. CASE Given' = Given
    BY <2>1, <2>4
  <2>5. CASE Given' # Given
    <3>1. Given' > Given
      BY <2>3, <2>5
    <3>2. Sequential!Give
      BY <2>1, <2>2, <2>3, <3>1 DEF Sequential!Give
    <3>3. QED
      BY <3>2 DEF Sequential!Next
  <2>6. QED
    BY <2>4, <2>5
<1>3. CASE Close \/ CloseWriter \/ Unlock
  BY <1>1, <1>3 DEF Close, CloseWriter, Unlock, s3Vars
<1>4. ASSUME NEW c \in Chunks,
             StartJob(c) \/ Lock(c) \/ WriteReturns(c) \/ Broadcast(c) \/ FinishJob(c)
      PROVE  UNCHANGED Sequential!vars
  BY <1>1, <1>4 DEF StartJob, Lock, WriteReturns, Broadcast, FinishJob, s3Vars, fileVars
<1>5. ASSUME ReadByte PROVE Sequential!Receive
  <2>1. object = NoObject /\ UNCHANGED <<object, added>>
    BY <1>5 DEF IInv, ObjectAtTheEnd, ReadByte, s3Vars, fileVars
  <2>2. sink' = Append(sink, Len(sink))
    BY <1>5, ByteIsNext
  <2>3. QED
    BY <1>1, <1>5, <2>1, <2>2, ByteWasGiven DEF Sequential!Receive
<1>6. ASSUME ReadEOF \/ Complete
      PROVE  Sequential!Publish \/ UNCHANGED Sequential!vars
  <2>1. object = NoObject /\ UNCHANGED <<sink, added>>
    BY <1>6 DEF IInv, ObjectAtTheEnd, ReadEOF, Complete, fileVars
  <2>2. Len(sink) = Given
    BY <1>6, StreamIsWhole DEF ReadEOF, Complete, CloseInv, StoredAfterEOF
  <2>3. object' = object \/ object' = sink
    BY <1>6 DEF ReadEOF, Complete
  <2>4. QED
    BY <1>1, <2>1, <2>2, <2>3 DEF Sequential!Publish
<1>7. CASE NextStage \/ Fail
  BY <1>1, <1>7 DEF NextStage, Fail, fileVars
<1>8. CASE UNCHANGED vars
  BY <1>1, <1>8 DEF vars, s3Vars, fileVars
<1>9. QED
  BY <1>2, <1>3, <1>4, <1>5, <1>6, <1>7, <1>8 DEF Next, Sequential!Next

\* The concurrent writer behaves as one to which bytes of the file are handed over,
\* which receives just these one after the other in the order of the file, and which
\* publishes the object once, with all of them.
THEOREM S3WriterImplementsSequential == Spec => ImplementsSequential
<1>1. Init => Sequential!Init
  BY DEF Init, Sequential!Init, Given
<1>2. QED
  BY <1>1, Invariance, CloseInvariance, StepSimulation, PTL
     DEF Spec, ImplementsSequential, Sequential!Spec

-----------------------------------------------------------------------------
(* The use of the workers.                                                  *)

LEMMA ServiceStep == IInv /\ CloseInv /\ [Next]_vars => [Pool!Next]_(Pool!vars)
<1> SUFFICES ASSUME IInv, CloseInv, [Next]_vars
             PROVE  Pool!Next \/ UNCHANGED <<status, slot>>
  BY DEF Pool!vars
<1>1. CASE UNCHANGED vars
  BY <1>1 DEF vars
<1>2. CASE Close \/ CloseWriter \/ Unlock \/ ReadByte \/ NextStage \/ ReadEOF \/ Complete \/ Fail
  BY <1>2 DEF Close, CloseWriter, Unlock, ReadByte, NextStage, ReadEOF, Complete, Fail
<1>3. CASE AddChunk
  <2>1. added + 1 \in Chunks
    BY <1>3, AddedChunk
  <2>2. Pool!Accept(added + 1)
    BY <1>3 DEF AddChunk
  <2>3. QED
    BY <2>1, <2>2 DEF Pool!Next
<1>4. ASSUME NEW c \in Chunks, StartJob(c) \/ FinishJob(c)
      PROVE  \E w \in Workers : Pool!Start(c, w) \/ Pool!Finish(c, w)
  BY <1>4 DEF StartJob, FinishJob
<1>5. ASSUME NEW c \in Chunks, Lock(c) \/ WriteReturns(c) \/ Broadcast(c)
      PROVE  UNCHANGED <<status, slot>>
  BY <1>5 DEF Lock, WriteReturns, Broadcast
<1>6. QED
  BY <1>1, <1>2, <1>3, <1>4, <1>5 DEF Next, Pool!Next

\* The guard of Pool!Accept, a condition that Dispatcher.Add does not test.
AddsNewJob == added < N => status[added + 1] = "new"

\* The chunks use the workers as JobService allows, in no other way, and none is
\* given to the Dispatcher twice.
THEOREM UsesTheService == Spec => Pool!Spec /\ []AddsNewJob
<1>1. Init => Pool!Init
  BY DEF Init
<1>2. ASSUME CloseInv, added < N PROVE status[added + 1] = "new"
  <2>1. added \in Nat /\ N \in Nat
    BY <1>2, ChunksAssumption DEF CloseInv, HandlerType
  <2>2. added + 1 \in Chunks /\ ~(added + 1 <= added)
    BY <1>2, <2>1 DEF Chunks
  <2>3. QED
    BY <1>2, <2>2 DEF CloseInv, AddedInOrder
<1>3. CloseInv => AddsNewJob
  BY <1>2 DEF AddsNewJob
<1>4. QED
  BY <1>1, <1>3, Invariance, CloseInvariance, ServiceStep, PTL DEF Spec, Pool!Spec
-----------------------------------------------------------------------------
(* The third layer: the ways in which File.Close can hang. Each predicate   *)
(* says that a goroutine has a step to take, the guards of its actions; a   *)
(* new chunk and a failing call to S3 are not among them, since neither may *)
(* be waited for.                                                           *)

HandlerCanMove ==
  \/ handler = "copying"
  \/ handler = "waiting" /\ wg = 0
  \/ handler = "locked" /\ uploader = "releasing"

JobCanMove(c) ==
  \/ status[c] = "accepted" /\ \E w \in Workers : slot[w] = NoChunk
  \/ pc[c] = "locking" /\ l = NoChunk
  \/ pc[c] = "writing" /\ (n = Length[c] \/ pipe = "broken")
  \/ pc[c] = "broadcasting"
  \/ pc[c] = "returned" /\ status[c] = "running" /\ \E w \in Workers : slot[w] = c

UploaderCanMove ==
  \/ uploader \in {"creating", "copying", "uploading", "completing"}
  \/ uploader = "reading" /\ pipe = "eof"
  \/ /\ uploader = "reading" /\ pipe # "broken"
     /\ \E c \in Chunks : pc[c] = "writing" /\ n < Length[c]

SomeoneCanMove ==
  HandlerCanMove \/ UploaderCanMove \/ \E c \in Chunks : JobCanMove(c)

HangsOnlySo ==
  handler # "closed" /\ ~SomeoneCanMove => NoWorkerForTheNext \/ StuckBehindFailure

\* A running job is on one worker, and in WriteAt.
OnWorkers ==
  /\ \A c \in Chunks :
       status[c] = "running" => pc[c] # "none" /\ \E w \in Workers : slot[w] = c
  /\ \A w \in Workers : slot[w] # NoChunk => status[slot[w]] = "running"
  /\ \A v, w \in Workers : slot[v] = slot[w] /\ slot[v] # NoChunk => v = w

\* The goroutine of the uploader leaves its calls with the pipe closed at one end
\* or the other, and stays for File.Close.
ReleasedOnce ==
  /\ pipe = "broken" => uploader \in {"releasing", "gone"}
  /\ uploader \in {"releasing", "gone"} => pipe # "open"
  /\ handler \in {"locked", "closed"} => pipe # "open"
  /\ uploader = "gone" => handler = "closed"

HangInv == OnWorkers /\ ReleasedOnce
LEMMA OnWorkersStep == IInv /\ CloseInv /\ HangInv /\ [Next]_vars => OnWorkers'
<1> SUFFICES ASSUME IInv, CloseInv, HangInv, [Next]_vars PROVE OnWorkers'
  OBVIOUS
<1> USE DEF OnWorkers
<1>0. /\ OnWorkers /\ NoChunk \notin Chunks
      /\ status \in [Chunks -> {"new", "accepted", "running", "done"}]
      /\ slot \in [Workers -> Chunks \union {NoChunk}]
  BY ChunksAssumption DEF HangInv, IInv, WriterType, CloseInv, HandlerType
<1>p. pc \in [Chunks -> {"none", "locking", "waiting", "writing", "broadcasting", "returned"}]
  BY DEF IInv, WriterType
<1>1. CASE AddChunk
  <2>1. /\ added + 1 \in Chunks /\ status[added + 1] = "new"
        /\ status' = [status EXCEPT ![added + 1] = "accepted"] /\ UNCHANGED <<slot, pc>>
    BY <1>1, AddedChunk DEF AddChunk, Pool!Accept, writeVars
  <2>2. \A c \in Chunks : status'[c] = "running" <=> status[c] = "running"
    BY <1>0, <2>1
  <2>3. QED
    BY <1>0, <2>1, <2>2
<1>2. ASSUME NEW c \in Chunks, StartJob(c) PROVE OnWorkers'
  <2>1. PICK v \in Workers : Pool!Start(c, v)
    BY <1>2 DEF StartJob
  <2>2. /\ status[c] = "accepted" /\ slot[v] = NoChunk
        /\ status' = [status EXCEPT ![c] = "running"] /\ slot' = [slot EXCEPT ![v] = c]
    BY <2>1 DEF Pool!Start
  <2>3. pc' = [pc EXCEPT ![c] = "locking"]
    BY <1>2 DEF StartJob
  <2>4. ASSUME NEW d \in Chunks, status'[d] = "running"
        PROVE  pc'[d] # "none" /\ \E w \in Workers : slot'[w] = d
    <3>1. CASE d = c
      BY <1>0, <1>p, <2>2, <2>3, <3>1
    <3>2. CASE d # c
      <4>1. pc[d] # "none" /\ \E w \in Workers : slot[w] = d
        BY <1>0, <2>2, <2>4, <3>2
      <4>2. PICK w \in Workers : slot[w] = d
        BY <4>1
      <4>3. w # v /\ slot'[w] = d
        BY <1>0, <2>2, <4>2
      <4>4. QED
        BY <1>p, <2>3, <3>2, <4>1, <4>3
    <3>3. QED
      BY <3>1, <3>2
  <2>5. \A w \in Workers : slot[w] # c
    BY <1>0, <2>2
  <2>6. QED
    BY <1>0, <2>2, <2>4, <2>5
<1>3. ASSUME NEW c \in Chunks, Lock(c) \/ WriteReturns(c) \/ Broadcast(c) PROVE OnWorkers'
  <2>1. UNCHANGED <<status, slot>>
    BY <1>3 DEF Lock, WriteReturns, Broadcast
  <2>2. \A d \in Chunks : pc[d] # "none" => pc'[d] # "none"
    BY <1>3, <1>p DEF Lock, WriteReturns, Broadcast
  <2>3. QED
    BY <1>0, <2>1, <2>2
<1>4. ASSUME NEW c \in Chunks, FinishJob(c) PROVE OnWorkers'
  <2>1. PICK v \in Workers : Pool!Finish(c, v)
    BY <1>4 DEF FinishJob
  <2>2. /\ status[c] = "running" /\ slot[v] = c /\ pc' = pc
        /\ status' = [status EXCEPT ![c] = "done"] /\ slot' = [slot EXCEPT ![v] = NoChunk]
    BY <1>4, <2>1 DEF FinishJob, Pool!Finish, writeVars
  <2>3. QED
    BY <1>0, <2>2
<1>5. CASE Close \/ CloseWriter \/ Unlock
  <2>1. UNCHANGED <<status, slot, pc>>
    BY <1>5 DEF Close, CloseWriter, Unlock, writeVars
  <2>2. QED
    BY <1>0, <2>1
<1>6. CASE ReadByte \/ NextStage \/ ReadEOF \/ Complete \/ Fail
  <2>1. UNCHANGED <<status, slot, pc>>
    BY <1>6 DEF ReadByte, NextStage, ReadEOF, Complete, Fail, writeVars
  <2>2. QED
    BY <1>0, <2>1
<1>7. CASE UNCHANGED vars
  BY <1>0, <1>7 DEF vars, writeVars
<1>8. QED
  BY <1>1, <1>2, <1>3, <1>4, <1>5, <1>6, <1>7 DEF Next

LEMMA ReleasedStep == IInv /\ CloseInv /\ HangInv /\ [Next]_vars => ReleasedOnce'
<1> SUFFICES ASSUME IInv, CloseInv, HangInv, [Next]_vars PROVE ReleasedOnce'
  OBVIOUS
<1> USE DEF ReleasedOnce
<1>0. ReleasedOnce /\ pipe \in {"open", "eof", "broken"}
  BY DEF HangInv, CloseInv, HandlerType
<1>s. uploader \in {"uploading", "completing"} => pipe = "eof"
  BY DEF CloseInv, StoredAfterEOF
<1>1. CASE AddChunk \/ Close \/ CloseWriter \/ Unlock
  BY <1>0, <1>1 DEF AddChunk, Close, CloseWriter, Unlock, s3Vars
<1>2. ASSUME NEW c \in Chunks,
             StartJob(c) \/ Lock(c) \/ WriteReturns(c) \/ Broadcast(c) \/ FinishJob(c)
      PROVE  ReleasedOnce'
  <2>1. UNCHANGED <<handler, pipe, uploader>>
    BY <1>2 DEF StartJob, Lock, WriteReturns, Broadcast, FinishJob, fileVars, s3Vars
  <2>2. QED
    BY <1>0, <2>1
<1>3. CASE ReadByte \/ NextStage \/ Fail
  BY <1>0, <1>s, <1>3 DEF ReadByte, NextStage, Fail, fileVars, s3Vars
<1>4. CASE ReadEOF \/ Complete
  BY <1>0, <1>s, <1>4 DEF ReadEOF, Complete, fileVars
<1>5. CASE UNCHANGED vars
  BY <1>0, <1>5 DEF vars, fileVars, s3Vars
<1>6. QED
  BY <1>1, <1>2, <1>3, <1>4, <1>5 DEF Next

LEMMA HangInvariance == Spec => []HangInv
<1>1. Init => HangInv
  BY ChunksAssumption DEF Init, Pool!Init, HangInv, OnWorkers, ReleasedOnce
<1>2. IInv /\ CloseInv /\ HangInv /\ [Next]_vars => HangInv'
  BY OnWorkersStep, ReleasedStep DEF HangInv
<1>3. QED
  BY Invariance, CloseInvariance, <1>1, <1>2, PTL DEF Spec

\* When no goroutine can move no WriteAt is in its Write, and a job that runs sleeps
\* on the condition for a turn that has not come.
LEMMA RunningJobsSleep ==
  ASSUME IInv, CloseInv, HangInv, handler = "waiting", ~SomeoneCanMove
  PROVE  \A d \in Chunks : status[d] = "running" =>
           pc[d] = "waiting" /\ totalBytes < Offset[d]
<1>1. \A d \in Chunks : ~JobCanMove(d)
  BY DEF SomeoneCanMove
<1>2. ~UploaderCanMove
  BY DEF SomeoneCanMove
<1>3. ASSUME NEW d \in Chunks, pc[d] = "writing" PROVE FALSE
  <2>1. n # Length[d] /\ pipe # "broken"
    BY <1>1, <1>3 DEF JobCanMove
  <2>2. n <= Length[d] /\ n \in Nat /\ Length[d] \in Nat
    BY <1>3, ChunksAssumption DEF IInv, WriterHoldsMutex, WriterType
  <2>3. uploader # "reading"
    BY <1>2, <1>3, <2>1, <2>2 DEF UploaderCanMove
  <2>4. uploader \in {"releasing", "gone"}
    BY <1>2, <2>3 DEF UploaderCanMove, CloseInv, HandlerType
  <2>5. pipe = "eof"
    BY <2>1, <2>4 DEF HangInv, ReleasedOnce, CloseInv, HandlerType
  <2>6. QED
    BY <2>5 DEF CloseInv, ClosedWhenDone
<1>4. l = NoChunk
  BY <1>3 DEF IInv, WriterType, WriterHoldsMutex
<1>5. SUFFICES ASSUME NEW d \in Chunks, status[d] = "running"
               PROVE  pc[d] = "waiting" /\ totalBytes < Offset[d]
  OBVIOUS
<1>6. pc[d] # "none" /\ \E w \in Workers : slot[w] = d
  BY <1>5 DEF HangInv, OnWorkers
<1>7. pc[d] \notin {"none", "locking", "writing", "broadcasting", "returned"}
  BY <1>1, <1>3, <1>4, <1>5, <1>6 DEF JobCanMove
<1>8. pc[d] = "waiting"
  BY <1>7 DEF IInv, WriterType
<1>9. ~(totalBytes >= Offset[d])
  <2>1. \A e \in Chunks : pc[e] # "broadcasting"
    BY <1>1 DEF JobCanMove
  <2>2. QED
    BY <1>8, <2>1 DEF IInv, NoLostWakeup
<1>10. totalBytes \in Nat /\ Offset[d] \in Nat
  BY ChunksAssumption DEF IInv, WriterType
<1>11. QED
  BY <1>8, <1>9, <1>10

\* The first chunk whose job is not done: its turn has come while the pipe is whole.
LEMMA FirstPending ==
  ASSUME IInv, CloseInv, wg # 0
  PROVE  \E c \in Chunks : UnderWay(status[c]) /\ (pipe # "broken" => Offset[c] <= totalBytes)
<1>1. Pending(status) # {}
  BY FS_EmptySet DEF CloseInv, Counted
<1>2. Pending(status) \in SUBSET Nat
  BY DEF Pending, Chunks
<1>3. PICK c \in Pending(status) : \A d \in Pending(status) : c <= d
  BY <1>1, <1>2, LeastNatural
<1>4. c \in Chunks /\ UnderWay(status[c]) /\ c \in Nat /\ c >= 1
  BY <1>3 DEF Pending, Chunks
<1>5. ASSUME pipe # "broken" PROVE Offset[c] <= totalBytes
  <2>1. totalBytes \in Nat
    BY DEF IInv, WriterType
  <2>2. CASE c = 1
    BY <1>4, <2>1, <2>2, ChunksAssumption
  <2>3. CASE c # 1
    <3>1. c - 1 \in Chunks /\ (c - 1) + 1 = c /\ c - 1 < c
      BY <1>4, <2>3, ChunksAssumption DEF Chunks
    <3>2. c <= added /\ added \in Nat
      BY <1>4, ChunksAssumption DEF CloseInv, AddedInOrder, HandlerType, UnderWay
    <3>3. status[c - 1] # "new"
      BY <1>4, <3>1, <3>2 DEF CloseInv, AddedInOrder
    <3>4. ~UnderWay(status[c - 1])
      BY <1>3, <1>4, <3>1 DEF Pending
    <3>5. status[c - 1] = "done"
      BY <3>1, <3>3, <3>4 DEF IInv, WriterType, UnderWay
    <3>6. totalBytes >= Offset[c - 1] + Length[c - 1]
      BY <1>5, <3>1, <3>5 DEF CloseInv, DoneHaveReturned, TotalInBounds
    <3>7. Offset[c] = Offset[c - 1] + Length[c - 1] /\ Offset[c] \in Nat
      BY <1>4, <3>1, ChunksAssumption
    <3>8. QED
      BY <2>1, <3>6, <3>7
  <2>4. QED
    BY <2>2, <2>3
<1>6. QED
  BY <1>4, <1>5

\* On at least one worker, an S3 file that is not closed and whose goroutines can go
\* no further hangs for one of the two reasons that CloseReturns names, and for no
\* other: later chunks have all the workers, or a failed call left chunks behind.
\* There is no other deadlock of File.Close, WriteAt, the pipe and the uploader.
THEOREM CloseHangsOnlySo ==
  ASSUME Workers # {}
  PROVE  Spec => []HangsOnlySo
<1>1. ASSUME IInv, CloseInv, HangInv, handler # "closed", ~SomeoneCanMove
      PROVE  NoWorkerForTheNext \/ StuckBehindFailure
  <2>1. ~HandlerCanMove /\ ~UploaderCanMove /\ \A c \in Chunks : ~JobCanMove(c)
    BY <1>1 DEF SomeoneCanMove
  <2>2. handler \in {"waiting", "locked"}
    BY <1>1, <2>1 DEF HandlerCanMove, CloseInv, HandlerType
  <2>3. handler # "locked"
    <3>1. ASSUME handler = "locked" PROVE FALSE
      <4>1. uploader # "releasing" /\ uploader # "gone"
        BY <1>1, <2>1, <3>1 DEF HandlerCanMove, HangInv, ReleasedOnce
      <4>2. uploader = "reading"
        BY <1>1, <2>1, <4>1 DEF UploaderCanMove, CloseInv, HandlerType
      <4>3. pipe = "eof"
        BY <1>1, <3>1, <4>1 DEF HangInv, ReleasedOnce, CloseInv, HandlerType
      <4>4. QED
        BY <2>1, <4>2, <4>3 DEF UploaderCanMove
    <3>2. QED
      BY <3>1
  <2>4. handler = "waiting" /\ wg # 0
    BY <2>1, <2>2, <2>3 DEF HandlerCanMove
  <2>5. \A d \in Chunks : status[d] = "running" =>
          pc[d] = "waiting" /\ totalBytes < Offset[d]
    BY <1>1, <2>4, RunningJobsSleep
  <2>6. PICK c \in Chunks :
          UnderWay(status[c]) /\ (pipe # "broken" => Offset[c] <= totalBytes)
    BY <1>1, <2>4, FirstPending
  <2>7. totalBytes \in Nat /\ Offset[c] \in Nat
    BY <1>1, ChunksAssumption DEF IInv, WriterType
  <2>8. CASE status[c] = "running"
    <3>1. pc[c] = "waiting" /\ totalBytes < Offset[c]
      BY <2>5, <2>8
    <3>2. pipe = "broken"
      BY <2>6, <2>7, <3>1
    <3>3. QED
      BY <3>1, <3>2 DEF StuckBehindFailure
  <2>9. CASE status[c] = "accepted"
    <3>1. \A w \in Workers : slot[w] # NoChunk
      BY <2>1, <2>9 DEF JobCanMove
    <3>2. \A w \in Workers : slot[w] \in Chunks /\ status[slot[w]] = "running"
      BY <1>1, <3>1 DEF HangInv, OnWorkers, CloseInv, HandlerType
    <3>3. \A w \in Workers : pc[slot[w]] = "waiting" /\ totalBytes < Offset[slot[w]]
      BY <2>5, <3>2
    <3>4. CASE pipe = "broken"
      BY <3>2, <3>3, <3>4 DEF StuckBehindFailure
    <3>5. CASE pipe # "broken"
      BY <2>6, <2>9, <3>1, <3>3, <3>5 DEF NoWorkerForTheNext
    <3>6. QED
      BY <3>4, <3>5
  <2>10. QED
    BY <2>6, <2>8, <2>9 DEF UnderWay
<1>2. IInv /\ CloseInv /\ HangInv => HangsOnlySo
  BY <1>1 DEF HangsOnlySo
<1>3. QED
  BY <1>2, Invariance, CloseInvariance, HangInvariance, PTL

-----------------------------------------------------------------------------
(* A measure: no run of the writer goes on for ever, its waiters included,  *)
(* which wake up at each Broadcast to go back to sleep.                     *)

\* How many stages the things of S have before them, r[x] <= K for each x: the number of
\* pairs of a thing and a stage. A sum over a set that may be counted without recursion.
StageCount(S, K, r) == Cardinality({p \in S \X (1..K) : p[2] <= r[p[1]]})

LEMMA StagesFall ==
  ASSUME NEW S, IsFiniteSet(S), NEW K \in Nat,
         NEW r \in [S -> 0..K], NEW q \in [S -> 0..K], \A x \in S : q[x] <= r[x]
  PROVE  /\ StageCount(S, K, r) \in Nat /\ StageCount(S, K, q) \in Nat
         /\ StageCount(S, K, q) <= StageCount(S, K, r)
         /\ (\E x \in S : q[x] < r[x]) => StageCount(S, K, q) <= StageCount(S, K, r) - 1
<1> DEFINE R == {p \in S \X (1..K) : p[2] <= r[p[1]]}
           Q == {p \in S \X (1..K) : p[2] <= q[p[1]]}
<1>1. IsFiniteSet(1..K)
  BY FS_Interval
<1>2. IsFiniteSet(S \X (1..K))
  BY <1>1, FS_Product
<1>3. IsFiniteSet(R)
  BY <1>2, FS_Subset
<1>4. Q \subseteq R
  <2>1. ASSUME NEW p \in Q PROVE p \in R
    <3>1. p \in S \X (1..K) /\ p[1] \in S /\ p[2] \in 1..K /\ p[2] <= q[p[1]]
      OBVIOUS
    <3>2. q[p[1]] <= r[p[1]] /\ q[p[1]] \in 0..K /\ r[p[1]] \in 0..K
      BY <3>1
    <3>3. QED
      BY <3>1, <3>2
  <2>2. QED
    BY <2>1
<1>5. IsFiniteSet(Q) /\ Cardinality(Q) <= Cardinality(R) /\ (Cardinality(R) = Cardinality(Q) => R = Q)
  BY <1>3, <1>4, FS_Subset
<1>6. Cardinality(R) \in Nat /\ Cardinality(Q) \in Nat
  BY <1>3, <1>5, FS_CardinalityType
<1>7. ASSUME NEW x \in S, q[x] < r[x] PROVE R # Q
  <2>1. q[x] \in 0..K /\ r[x] \in 0..K
    OBVIOUS
  <2>2. r[x] \in 1..K /\ <<x, r[x]>> \in S \X (1..K)
    BY <1>7, <2>1
  <2>3. <<x, r[x]>>[1] = x /\ <<x, r[x]>>[2] = r[x] /\ ~(r[x] <= q[x]) /\ r[x] <= r[x]
    BY <1>7, <2>1
  <2>4. <<x, r[x]>> \in R /\ <<x, r[x]>> \notin Q
    BY <2>2, <2>3
  <2>5. QED
    BY <2>4
<1>8. StageCount(S, K, r) = Cardinality(R) /\ StageCount(S, K, q) = Cardinality(Q)
  BY DEF StageCount
<1> HIDE DEF R, Q
<1>9. QED
  BY <1>5, <1>6, <1>7, <1>8

\* A WriteAt that goes for the mutex and one that sleeps are at the same stage, since a
\* job alternates between the two.
JobRank(s, p) ==
  CASE s = "new" -> 6 [] s = "accepted" -> 5
    [] s = "running" /\ p \in {"none", "locking", "waiting"} -> 4
    [] s = "running" /\ p = "writing" -> 3
    [] s = "running" /\ p = "broadcasting" -> 2
    [] s = "running" /\ p = "returned" -> 1
    [] OTHER -> 0

HandlerRank(s) ==
  CASE s = "copying" -> 3 [] s = "waiting" -> 2 [] s = "locked" -> 1 [] OTHER -> 0

UploaderRank(s) ==
  CASE s = "creating" -> 6 [] s = "copying" -> 5 [] s = "reading" -> 4
    [] s = "uploading" -> 3 [] s = "completing" -> 2 [] s = "releasing" -> 1 [] OTHER -> 0

JobRanks == [c \in Chunks |-> JobRank(status[c], pc[c])]
JobSteps == StageCount(Chunks, 6, JobRanks)

\* The jobs that go for the mutex: at most N at a time.
Locking == {c \in Chunks : pc[c] = "locking"}
LockSteps == Cardinality(Locking)

FileLength == IF N = 0 THEN 0 ELSE Offset[N] + Length[N]
ByteSteps == FileLength - Len(sink)

PartySteps == HandlerRank(handler) + UploaderRank(uploader)

\* A step of a job may wake up all the waiters, whose steps back to sleep it outweighs.
StepsLeft == (N + 1) * JobSteps + LockSteps + ByteSteps + PartySteps

LEMMA LockingIsFinite == IsFiniteSet(Locking) /\ LockSteps \in Nat /\ LockSteps <= N
<1>1. N \in Nat /\ 1 \in Int /\ N \in Int
  BY ChunksAssumption
<1>2. IsFiniteSet(Chunks) /\ Cardinality(Chunks) = N
  BY <1>1, FS_Interval DEF Chunks
<1>3. Locking \in SUBSET Chunks
  BY DEF Locking
<1>4. IsFiniteSet(Locking) /\ Cardinality(Locking) <= N
  BY <1>2, <1>3, FS_Subset
<1>5. QED
  BY <1>4, FS_CardinalityType DEF LockSteps

LEMMA ChunksAreFinite == IsFiniteSet(Chunks)
<1>1. 1 \in Int /\ N \in Int
  BY ChunksAssumption
<1>2. QED
  BY <1>1, FS_Interval DEF Chunks

\* The stream is not longer than the file, whatever the pipe and S3 do.
StreamInFile == FileLength \in Nat /\ Len(sink) <= FileLength

LEMMA StreamInFileInvariance == Spec => []StreamInFile
<1>1. FileLength \in Nat /\ \A c \in Chunks : Offset[c] + Length[c] <= FileLength
  <2>1. N \in Nat /\ (N # 0 => N \in Chunks)
    BY ChunksAssumption DEF Chunks
  <2>2. \A c \in Chunks : Offset[c] \in Nat /\ Length[c] \in Nat /\ c \in Nat /\ c <= N /\ N # 0
    BY ChunksAssumption DEF Chunks
  <2>3. FileLength \in Nat
    BY <2>1, <2>2 DEF FileLength
  <2>4. ASSUME NEW c \in Chunks PROVE Offset[c] + Length[c] <= FileLength
    <3>1. c = N \/ Offset[c] + Length[c] <= Offset[N]
      BY <2>1, <2>2, ChunksInOrder
    <3>2. FileLength = Offset[N] + Length[N] /\ N \in Chunks
      BY <2>1, <2>2 DEF FileLength
    <3>3. QED
      BY <2>2, <3>1, <3>2
  <2>5. QED
    BY <2>3, <2>4
<1>2. Init => StreamInFile
  BY <1>1 DEF Init, StreamInFile
<1>3. ASSUME IInv, StreamInFile, [Next]_vars PROVE StreamInFile'
  <2>1. CASE ReadByte
    <3>1. l \in Chunks /\ n < Length[l] /\ Offset[l] + n = Len(sink) /\ sink' = Append(sink, Len(sink))
      BY <1>3, <2>1, ByteIsNext
    <3>2. sink \in Seq(Nat) /\ n \in Nat /\ Offset[l] \in Nat /\ Length[l] \in Nat
      BY <1>3, <3>1, ChunksAssumption DEF IInv, WriterType
    <3>3. Len(sink') = Len(sink) + 1
      BY <3>1, <3>2
    <3>4. Offset[l] + Length[l] <= FileLength
      BY <1>1, <3>1
    <3>5. Len(sink') <= FileLength
      BY <1>1, <3>1, <3>2, <3>3, <3>4
    <3>6. QED
      BY <1>1, <3>5 DEF StreamInFile, FileLength
  <2>2. CASE UNCHANGED sink
    BY <1>3, <2>2 DEF StreamInFile, FileLength
  <2>3. [Next]_vars => ReadByte \/ UNCHANGED sink
    BY DEF Next, AddChunk, Close, CloseWriter, Unlock, StartJob, Lock, WriteReturns, Broadcast,
           FinishJob, NextStage, ReadEOF, Complete, Fail, vars
  <2>4. QED
    BY <1>3, <2>1, <2>2, <2>3
<1>4. QED
  BY <1>2, <1>3, Invariance, PTL DEF Spec

LEMMA RanksAreRanks == JobRanks \in [Chunks -> 0..6]
  BY DEF JobRanks, JobRank

LEMMA JobStepsAreNat == JobSteps \in Nat
  BY RanksAreRanks, ChunksAreFinite, StagesFall DEF JobSteps

LEMMA StepsAreNat ==
  IInv /\ StreamInFile =>
    /\ JobSteps \in Nat /\ LockSteps \in Nat /\ ByteSteps \in Nat
    /\ PartySteps \in Nat /\ StepsLeft \in Nat
<1> SUFFICES ASSUME IInv, StreamInFile
             PROVE  /\ JobSteps \in Nat /\ LockSteps \in Nat /\ ByteSteps \in Nat
                    /\ PartySteps \in Nat /\ StepsLeft \in Nat
  OBVIOUS
<1>1. Len(sink) \in Nat
  BY DEF IInv, WriterType
<1>2. ByteSteps \in Nat
  BY <1>1 DEF ByteSteps, StreamInFile
<1>3. PartySteps \in Nat
  BY DEF PartySteps, HandlerRank, UploaderRank
<1>4. (N + 1) * JobSteps \in Nat
  <2>1. N + 1 \in Nat /\ JobSteps \in Nat
    BY ChunksAssumption, JobStepsAreNat
  <2> HIDE DEF JobSteps
  <2>2. QED
    BY <2>1
<1>5. QED
  BY <1>2, <1>3, <1>4, JobStepsAreNat, LockingIsFinite DEF StepsLeft

\* A step that brings a job to a later stage, or leaves the jobs alone.
LEMMA JobsGoOn ==
  ASSUME \A c \in Chunks : JobRank(status'[c], pc'[c]) <= JobRank(status[c], pc[c])
  PROVE  /\ JobSteps \in Nat /\ JobSteps' \in Nat /\ JobSteps' <= JobSteps
         /\ (\E c \in Chunks : JobRank(status'[c], pc'[c]) < JobRank(status[c], pc[c]))
              => JobSteps' <= JobSteps - 1
<1>1. JobRanks \in [Chunks -> 0..6] /\ JobRanks' \in [Chunks -> 0..6]
  <2>1. (JobRanks \in [Chunks -> 0..6])'
    BY RanksAreRanks, PTL
  <2>2. QED
    BY <2>1, RanksAreRanks
<1>2. \A c \in Chunks : /\ JobRanks[c] = JobRank(status[c], pc[c])
                        /\ JobRanks'[c] = JobRank(status'[c], pc'[c])
  BY DEF JobRanks, JobRank
<1>3. QED
  BY <1>1, <1>2, ChunksAreFinite, StagesFall DEF JobSteps

\* What the factor N + 1 is for.
LEMMA Outweighs ==
  ASSUME NEW m \in Nat, NEW j \in Nat, NEW j1 \in Nat
  PROVE  /\ j1 <= j => (m + 1) * j1 <= (m + 1) * j
         /\ j1 <= j - 1 => (m + 1) * j1 + m + 1 <= (m + 1) * j
<1>1. ASSUME NEW k \in Nat, j = j1 + k
      PROVE  (m + 1) * j = (m + 1) * j1 + (m + 1) * k /\ (m + 1) * k \in Nat
  BY <1>1
<1>2. ASSUME j1 <= j PROVE (m + 1) * j1 <= (m + 1) * j
  <2>1. j - j1 \in Nat /\ j = j1 + (j - j1)
    BY <1>2
  <2>2. QED
    BY <1>1, <2>1
<1>3. ASSUME j1 <= j - 1 PROVE (m + 1) * j1 + m + 1 <= (m + 1) * j
  <2>1. j - 1 - j1 \in Nat /\ j = j1 + (j - 1 - j1) + 1
    BY <1>3
  <2>2. (m + 1) * j = (m + 1) * j1 + (m + 1) * (j - 1 - j1) + (m + 1)
    BY <2>1
  <2>3. (m + 1) * (j - 1 - j1) \in Nat
    BY <2>1
  <2>4. QED
    BY <2>2, <2>3
<1>4. QED
  BY <1>2, <1>3

\* Every step of the writer brings it nearer to the rest of which CloseHangsOnlySo
\* speaks: no order of locks, waits and broadcasts, of bytes read and calls that fail
\* goes on for ever. The two together are what CloseReturns says, for every upload and
\* without an assumption on the order in which goroutines run, but that some step is
\* taken where one can be.
THEOREM WriterGetsNearer == Spec => [](StepsLeft \in Nat) /\ [][StepsLeft' < StepsLeft]_vars
<1>1. ASSUME IInv, CloseInv, StreamInFile, StreamInFile', IInv', Next
      PROVE  StepsLeft' < StepsLeft
  <2> DEFINE j == JobSteps    j1 == JobSteps'
             k == LockSteps   k1 == LockSteps'
             b == ByteSteps   b1 == ByteSteps'
             p == PartySteps  p1 == PartySteps'
  <2>1. /\ j \in Nat /\ k \in Nat /\ b \in Nat /\ p \in Nat
        /\ j1 \in Nat /\ k1 \in Nat /\ b1 \in Nat /\ p1 \in Nat
        /\ k <= N /\ k1 <= N /\ N \in Nat
        /\ StepsLeft = (N + 1) * j + k + b + p
        /\ StepsLeft' = (N + 1) * j1 + k1 + b1 + p1
    <3>1. (IInv /\ StreamInFile)' =>
            (/\ JobSteps \in Nat /\ LockSteps \in Nat /\ ByteSteps \in Nat
             /\ PartySteps \in Nat /\ StepsLeft \in Nat)'
      BY StepsAreNat, PTL
    <3>2. (IsFiniteSet(Locking) /\ LockSteps \in Nat /\ LockSteps <= N)'
      BY LockingIsFinite, PTL
    <3>3. QED
      BY <1>1, <3>1, <3>2, StepsAreNat, LockingIsFinite, ChunksAssumption DEF StepsLeft
  <2>2. /\ status \in [Chunks -> {"new", "accepted", "running", "done"}]
        /\ pc \in [Chunks -> {"none", "locking", "waiting", "writing", "broadcasting", "returned"}]
    BY <1>1 DEF IInv, WriterType
  <2>3. UNCHANGED <<status, pc>> => j1 <= j /\ k1 = k
    <3>1. UNCHANGED <<status, pc>> => j1 <= j
      BY <2>2, JobsGoOn DEF JobRank
    <3>2. UNCHANGED <<status, pc>> => k1 = k
      BY DEF LockSteps, Locking
    <3>3. QED
      BY <3>1, <3>2
  <2>4. UNCHANGED sink => b1 = b
    BY DEF ByteSteps, FileLength
  <2>5. UNCHANGED <<handler, uploader>> => p1 = p
    BY DEF PartySteps
  <2>6. \A c \in Chunks : pc[c] \notin {"none", "returned"} => status[c] = "running"
    BY <1>1, <2>2 DEF IInv, NotStarted, CloseInv, DoneHaveReturned
  <2>7. ASSUME j1 <= j - 1, b1 = b, p1 = p PROVE StepsLeft' < StepsLeft
    <3> HIDE DEF j, j1, k, k1, b, b1, p, p1
    <3>1. (N + 1) * j1 + N + 1 <= (N + 1) * j
      BY <2>1, <2>7, Outweighs
    <3>2. (N + 1) * j1 \in Nat /\ (N + 1) * j \in Nat
      BY <2>1
    <3>3. QED
      BY <2>1, <2>7, <3>1, <3>2
  <2>8. ASSUME j1 <= j, k1 + b1 + p1 <= k + b + p - 1 PROVE StepsLeft' < StepsLeft
    <3> HIDE DEF j, j1, k, k1, b, b1, p, p1
    <3>1. (N + 1) * j1 <= (N + 1) * j
      BY <2>1, <2>8, Outweighs
    <3>2. (N + 1) * j1 \in Nat /\ (N + 1) * j \in Nat
      BY <2>1
    <3>3. QED
      BY <2>1, <2>8, <3>1, <3>2
  <2>9. CASE Close \/ CloseWriter \/ Unlock \/ NextStage \/ ReadEOF \/ Complete \/ Fail
    <3>1. UNCHANGED <<status, pc, sink>>
      BY <2>9 DEF Close, CloseWriter, Unlock, NextStage, ReadEOF, Complete, Fail, writeVars
    <3>2. p1 <= p - 1
      <4>1. CASE Close \/ CloseWriter
        <5>1. /\ uploader' = uploader
              /\ \/ handler = "copying" /\ handler' = "waiting"
                 \/ handler = "waiting" /\ handler' = "locked"
          BY <4>1 DEF Close, CloseWriter, s3Vars
        <5>2. QED
          BY <5>1 DEF PartySteps, HandlerRank, UploaderRank
      <4>2. CASE Unlock
        BY <4>2 DEF Unlock, PartySteps, HandlerRank, UploaderRank
      <4>3. CASE NextStage \/ ReadEOF \/ Complete \/ Fail
        <5>1. /\ handler' = handler
              /\ \/ uploader = "creating" /\ uploader' = "copying"
                 \/ uploader = "copying" /\ uploader' = "reading"
                 \/ uploader = "uploading" /\ uploader' = "completing"
                 \/ uploader = "reading" /\ uploader' = "uploading"
                 \/ /\ uploader' = "releasing"
                    /\ uploader \in {"creating", "copying", "reading", "uploading", "completing"}
          BY <4>3 DEF NextStage, ReadEOF, Complete, Fail, fileVars
        <5>2. QED
          BY <5>1 DEF PartySteps, HandlerRank, UploaderRank
      <4>4. QED
        BY <2>9, <4>1, <4>2, <4>3
    <3>3. j1 <= j /\ k1 = k /\ b1 = b
      BY <2>3, <2>4, <3>1
    <3> HIDE DEF j, j1, k, k1, b, b1, p, p1
    <3>4. k1 + b1 + p1 <= k + b + p - 1
      BY <2>1, <3>2, <3>3
    <3>5. QED
      BY <2>8, <3>3, <3>4
  <2>10. CASE ReadByte
    <3>1. UNCHANGED <<status, pc, handler, uploader>>
      BY <2>10 DEF ReadByte, fileVars, s3Vars
    <3>2. b1 = b - 1
      <4>1. sink' = Append(sink, Len(sink)) /\ sink \in Seq(Nat)
        BY <1>1, <2>10, ByteIsNext DEF IInv, WriterType
      <4>2. Len(sink') = Len(sink) + 1 /\ Len(sink) \in Nat
        BY <4>1
      <4>3. QED
        BY <1>1, <4>2 DEF ByteSteps, FileLength, StreamInFile
    <3>3. j1 <= j /\ k1 = k /\ p1 = p
      BY <2>3, <2>5, <3>1
    <3> HIDE DEF j, j1, k, k1, b, b1, p, p1
    <3>4. k1 + b1 + p1 <= k + b + p - 1
      BY <2>1, <3>2, <3>3
    <3>5. QED
      BY <2>8, <3>3, <3>4
  <2>11. CASE AddChunk
    <3> DEFINE c == added + 1
    <3>1. c \in Chunks /\ status[c] = "new" /\ status' = [status EXCEPT ![c] = "accepted"]
          /\ UNCHANGED <<pc, handler, uploader, sink>>
      BY <1>1, <2>11, AddedChunk DEF AddChunk, Pool!Accept, writeVars, s3Vars
    <3> HIDE DEF c
    <3>2. /\ JobRank(status'[c], pc'[c]) < JobRank(status[c], pc[c])
          /\ \A d \in Chunks : JobRank(status'[d], pc'[d]) <= JobRank(status[d], pc[d])
      BY <2>2, <3>1 DEF JobRank
    <3>3. j1 <= j - 1
      BY <3>1, <3>2, JobsGoOn
    <3>4. QED
      BY <2>4, <2>5, <2>7, <3>1, <3>3
  <2>12. ASSUME NEW c \in Chunks, StartJob(c) \/ WriteReturns(c) \/ Broadcast(c) \/ FinishJob(c)
         PROVE  StepsLeft' < StepsLeft
    <3>1. UNCHANGED <<handler, uploader, sink>>
      BY <2>12 DEF StartJob, WriteReturns, Broadcast, FinishJob, fileVars, s3Vars
    <3>2. /\ JobRank(status'[c], pc'[c]) < JobRank(status[c], pc[c])
          /\ \A d \in Chunks : JobRank(status'[d], pc'[d]) <= JobRank(status[d], pc[d])
      <4>1. CASE StartJob(c)
        <5>1. /\ status[c] = "accepted" /\ status' = [status EXCEPT ![c] = "running"]
              /\ pc' = [pc EXCEPT ![c] = "locking"]
          BY <4>1 DEF StartJob, Pool!Start
        <5>2. QED
          BY <2>2, <5>1 DEF JobRank
      <4>2. CASE WriteReturns(c)
        <5>1. /\ status' = status /\ pc[c] = "writing" /\ status[c] = "running"
              /\ pc' = [pc EXCEPT ![c] = "broadcasting"]
          BY <2>6, <4>2 DEF WriteReturns
        <5>2. QED
          BY <2>2, <5>1 DEF JobRank
      <4>3. CASE Broadcast(c)
        <5>1. /\ status' = status /\ pc[c] = "broadcasting" /\ status[c] = "running"
              /\ pc'[c] = "returned"
              /\ \A d \in Chunks \ {c} :
                   pc'[d] = pc[d] \/ (pc[d] = "waiting" /\ pc'[d] = "locking")
          BY <2>6, <4>3 DEF Broadcast
        <5>2. QED
          BY <2>2, <5>1 DEF JobRank
      <4>4. CASE FinishJob(c)
        <5>1. /\ status[c] = "running" /\ pc[c] = "returned" /\ pc' = pc
              /\ status' = [status EXCEPT ![c] = "done"]
          BY <4>4 DEF FinishJob, Pool!Finish, writeVars
        <5>2. QED
          BY <2>2, <5>1 DEF JobRank
      <4>5. QED
        BY <2>12, <4>1, <4>2, <4>3, <4>4
    <3>3. j1 <= j - 1
      BY <3>2, JobsGoOn
    <3>4. QED
      BY <2>4, <2>5, <2>7, <3>1, <3>3
  <2>13. ASSUME NEW c \in Chunks, Lock(c) PROVE StepsLeft' < StepsLeft
    <3>1. /\ UNCHANGED <<status, handler, uploader, sink>>
          /\ pc[c] = "locking" /\ status[c] = "running"
          /\ pc' = [pc EXCEPT ![c] = "writing"] \/ pc' = [pc EXCEPT ![c] = "waiting"]
      BY <2>6, <2>13 DEF Lock, fileVars, s3Vars
    <3>2. \A d \in Chunks : JobRank(status'[d], pc'[d]) <= JobRank(status[d], pc[d])
      BY <2>2, <3>1 DEF JobRank
    <3>3. j1 <= j
      BY <3>2, JobsGoOn
    <3>4. k1 = k - 1
      <4>1. Locking' = Locking \ {c} /\ c \in Locking
        BY <2>2, <3>1 DEF Locking
      <4>2. Cardinality(Locking \ {c}) = Cardinality(Locking) - 1
        BY <4>1, LockingIsFinite, FS_RemoveElement
      <4>3. QED
        BY <4>1, <4>2 DEF LockSteps
    <3>5. b1 = b /\ p1 = p
      BY <2>4, <2>5, <3>1
    <3> HIDE DEF j, j1, k, k1, b, b1, p, p1
    <3>6. k1 + b1 + p1 <= k + b + p - 1
      BY <2>1, <3>4, <3>5
    <3>7. QED
      BY <2>8, <3>3, <3>6
  <2>14. QED
    BY <1>1, <2>9, <2>10, <2>11, <2>12, <2>13 DEF Next
<1>2. /\ IInv /\ CloseInv /\ StreamInFile /\ StreamInFile' /\ IInv' /\ [Next]_vars
           => [StepsLeft' < StepsLeft]_vars
      /\ IInv /\ StreamInFile => StepsLeft \in Nat
  BY <1>1, StepsAreNat
<1>3. QED
  BY <1>2, Invariance, CloseInvariance, StreamInFileInvariance, PTL DEF Spec
=============================================================================
