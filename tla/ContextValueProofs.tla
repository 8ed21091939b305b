------------------------- MODULE ContextValueProofs -------------------------
(***************************************************************************)
(* ContextValue for a value of any number of pieces and any number of      *)
(* reads: as long as no two goroutines were in Read together, every read   *)
(* that succeeds has the whole value.                                      *)
(***************************************************************************)
EXTENDS ContextValue, FiniteSetTheorems, SequenceTheorems, TLAPS

\* The first m pieces of the value.
Prefix(m) == [i \in 1..m |-> i]

\* TypeOK without the flags.
Types ==
  /\ outcome \in {"value", "empty", "fail"}
  /\ producer \in {"queued", "writing", "closing", "done"}
  /\ next \in 1..P + 1
  /\ buf \in Seq(1..P)
  /\ off \in Nat
  /\ call \in [1..Calls -> {"none", "waiting", "timedout", "ok", "error"}]
  /\ reader \in [1..Calls -> {"none", "checking", "reading", "copying", "counting",
                              "rewinding", "ended", "panicked"}]
  /\ data \in [1..Calls -> Seq(1..P)]
  /\ n \in [1..Calls -> 0..1]
  /\ got \in [1..Calls -> Seq(1..P)]

Flags == piped \in BOOLEAN /\ closed \in BOOLEAN /\ overlapped \in BOOLEAN

\* What the producer has offered at each stage.
Offered ==
  /\ producer = "writing" => outcome = "value" /\ next <= P
  /\ producer \in {"closing", "done"} /\ outcome = "value" => next = P + 1
  /\ producer = "closing" => outcome # "fail"
  /\ producer = "queued" \/ outcome # "value" => next = 1

\* The flag is set before the pipe is closed, by a job that has done its writes.
ClosedInOrder ==
  /\ closed => producer \in {"closing", "done"} /\ outcome # "fail"
  /\ ~piped => closed

\* A call succeeds by the end of its goroutine.
CallsAndReaders ==
  \A k \in 1..Calls :
    /\ call[k] = "none" <=> reader[k] = "none"
    /\ call[k] = "ok" => reader[k] = "ended"

\* A reader that is in Read, alone: where it stands says what it has and what off,
\* buf and the pipe hold. off is 0 whenever nobody reads.
Alone(k) == \A m \in 1..Calls : InRead(m) => m = k

HasPrefix(k) ==
  /\ got[k] = Prefix(off)
  /\ off < Len(Produced) \/ off = 0

SerialReader(k) ==
  /\ InRead(k) => Alone(k)
  /\ reader[k] = "none" => data[k] = <<>> /\ got[k] = <<>>
  /\ reader[k] = "checking" => HasPrefix(k) /\ (off = 0 => data[k] = <<>>) /\ (off > 0 => closed)
  /\ reader[k] = "reading" => off = 0 /\ got[k] = <<>> /\ data[k] = Prefix(next - 1)
  /\ reader[k] = "copying" => closed /\ HasPrefix(k)
  /\ reader[k] = "counting" =>
       /\ closed
       /\ n[k] = 1 => off < Len(Produced) /\ got[k] = Prefix(off + 1)
       /\ n[k] = 0 => got[k] = Produced
  /\ reader[k] = "rewinding" => closed /\ got[k] = Produced
  /\ reader[k] = "ended" => got[k] = Produced
  /\ reader[k] # "panicked"

NobodyReads == \A k \in 1..Calls : reader[k] # "reading"

\* The value is in the hands of the one reader of the pipe, or it is kept, or it
\* has not been begun.
Serial ==
  /\ \A k \in 1..Calls : SerialReader(k)
  /\ (\A k \in 1..Calls : ~InRead(k)) => off = 0
  /\ NobodyReads /\ closed => buf = Produced
  /\ NobodyReads /\ ~closed => next = 1 /\ buf = <<>>

\* The inductive invariant.
IInv ==
  /\ Types /\ Flags /\ Offered /\ ClosedInOrder /\ CallsAndReaders
  /\ overlapped \/ Serial

-----------------------------------------------------------------------------
(* Prefixes.                                                                *)

LEMMA PrefixIsSeq ==
  ASSUME NEW m \in 0..P
  PROVE  /\ Prefix(m) \in Seq(1..P) /\ Len(Prefix(m)) = m
         /\ \A i \in 1..m : Prefix(m)[i] = i
  BY ContextAssumption DEF Prefix

LEMMA PrefixEmpty == Prefix(0) = <<>>
  BY DEF Prefix

LEMMA PrefixGrows ==
  ASSUME NEW m \in Nat
  PROVE  Append(Prefix(m), m + 1) = Prefix(m + 1)
  BY DEF Prefix

LEMMA ProducedIsPrefix ==
  /\ outcome = "value" => Produced = Prefix(P) /\ Len(Produced) = P
  /\ outcome # "value" => Produced = <<>> /\ Len(Produced) = 0
<1>1. Value = Prefix(P)
  BY DEF Value, Prefix
<1>2. Len(Prefix(P)) = P
  BY PrefixIsSeq, ContextAssumption
<1>3. QED
  BY <1>1, <1>2 DEF Produced

-----------------------------------------------------------------------------
(* The invariant, one lemma for each group of conjuncts.                    *)

LEMMA InitIInv == Init => IInv
<1> SUFFICES ASSUME Init PROVE IInv
  OBVIOUS
<1>1. Types
  BY ContextAssumption DEF Init, Types
<1>2. Flags
  BY DEF Init, Flags
<1>3. Offered
  BY ContextAssumption DEF Init, Offered
<1>4. ClosedInOrder
  BY DEF Init, ClosedInOrder
<1>5. CallsAndReaders
  BY DEF Init, CallsAndReaders
<1>6. Serial
  BY DEF Init, Serial, SerialReader, Alone, InRead, NobodyReads
<1>7. QED
  BY <1>1, <1>2, <1>3, <1>4, <1>5, <1>6 DEF IInv

LEMMA FlagsStep == IInv /\ [Next]_vars => Flags'
<1> SUFFICES ASSUME IInv, [Next]_vars PROVE Flags'
  OBVIOUS
<1> USE DEF Flags
<1>0. Flags
  BY DEF IInv
<1>1. CASE Produce
  BY <1>0, <1>1 DEF Produce, valueVars, readerVars
<1>2. CASE Close
  BY <1>0, <1>2 DEF Close, readerVars
<1>3. ASSUME NEW k \in 1..Calls,
             \/ FromContext(k) \/ Answer(k) \/ Timeout(k) \/ ReturnAfterTimeout(k)
             \/ Check(k) \/ TakePiece(k) \/ KeepValue(k) \/ Copy(k) \/ Count(k) \/ Rewind(k)
      PROVE  Flags'
  <2>1. piped' = piped /\ closed' = closed
    BY <1>3 DEF FromContext, Answer, Timeout, ReturnAfterTimeout, Check, TakePiece, KeepValue,
       Copy, Count, Rewind, producerVars, valueVars
  <2>2. CASE FromContext(k)
    BY <1>0, <2>1, <2>2 DEF FromContext
  <2>3. CASE ~FromContext(k)
    BY <1>0, <1>3, <2>1, <2>3 DEF Answer, Timeout, ReturnAfterTimeout, Check, TakePiece,
       KeepValue, Copy, Count, Rewind, readerVars
  <2>4. QED
    BY <2>2, <2>3
<1>4. CASE UNCHANGED vars
  BY <1>0, <1>4 DEF vars, producerVars, valueVars, readerVars
<1>5. QED
  BY <1>1, <1>2, <1>3, <1>4 DEF Next, ReaderNext

LEMMA TypesStep == IInv /\ [Next]_vars => Types'
<1> SUFFICES ASSUME IInv, [Next]_vars PROVE Types'
  OBVIOUS
<1> USE DEF Types
<1>0. Types /\ Offered
  BY DEF IInv
<1>1. CASE Produce
  BY <1>0, <1>1 DEF Produce, valueVars, readerVars
<1>2. CASE Close
  BY <1>0, <1>2 DEF Close, readerVars
<1>3. ASSUME NEW k \in 1..Calls, FromContext(k) \/ Answer(k) \/ Timeout(k) \/ ReturnAfterTimeout(k)
      PROVE  Types'
  BY <1>0, <1>3 DEF FromContext, Answer, Timeout, ReturnAfterTimeout, producerVars, valueVars,
     readerVars
<1>4. ASSUME NEW k \in 1..Calls, Check(k) PROVE Types'
  BY <1>0, <1>4 DEF Check, producerVars, valueVars
<1>5. ASSUME NEW k \in 1..Calls, TakePiece(k) PROVE Types'
  <2>1. /\ producer = "writing" /\ next' = next + 1 /\ data' = [data EXCEPT ![k] = Append(@, next)]
        /\ producer' \in {"closing", "writing"}
        /\ UNCHANGED <<outcome, buf, off, call, reader, n, got>>
    BY <1>5 DEF TakePiece, valueVars
  <2>2. next \in 1..P /\ next' \in 1..P + 1
    BY <1>0, <2>1, ContextAssumption DEF Offered
  <2>3. data[k] \in Seq(1..P)
    BY <1>0
  <2>4. Append(data[k], next) \in Seq(1..P)
    BY <2>2, <2>3
  <2>5. data' \in [1..Calls -> Seq(1..P)]
    BY <1>0, <2>1, <2>4
  <2>6. QED
    BY <1>0, <2>1, <2>2, <2>5
<1>6. ASSUME NEW k \in 1..Calls, KeepValue(k) PROVE Types'
  BY <1>0, <1>6 DEF KeepValue, producerVars
<1>7. ASSUME NEW k \in 1..Calls, Copy(k) PROVE Types'
  <2>1. CASE off > Len(buf)
    BY <1>0, <1>7, <2>1 DEF Copy, producerVars, valueVars
  <2>2. CASE off <= Len(buf)
    <3>1. /\ reader' = [reader EXCEPT ![k] = "counting"]
          /\ n' = [n EXCEPT ![k] = IF off < Len(buf) THEN 1 ELSE 0]
          /\ got' = [got EXCEPT ![k] = IF off < Len(buf) THEN Append(@, buf[off + 1]) ELSE @]
          /\ UNCHANGED <<outcome, producer, next, buf, off, call, data>>
      BY <1>0, <1>7, <2>2 DEF Copy, producerVars, valueVars
    <3>2. off < Len(buf) => buf[off + 1] \in 1..P
      <4>1. buf \in Seq(1..P) /\ off \in Nat
        BY <1>0
      <4>2. off < Len(buf) => off + 1 \in 1..Len(buf)
        BY <4>1
      <4>3. QED
        BY <4>1, <4>2, ElementOfSeq
    <3>3. got[k] \in Seq(1..P)
      BY <1>0
    <3>4. off < Len(buf) => Append(got[k], buf[off + 1]) \in Seq(1..P)
      BY <3>2, <3>3
    <3>5. got' \in [1..Calls -> Seq(1..P)]
      BY <1>0, <3>1, <3>4
    <3>6. QED
      BY <1>0, <3>1, <3>5
  <2>3. QED
    BY <1>0, <2>1, <2>2
<1>8. ASSUME NEW k \in 1..Calls, Count(k) \/ Rewind(k) PROVE Types'
  <2>1. off' \in Nat
    BY <1>0, <1>8 DEF Count, Rewind
  <2>2. QED
    BY <1>0, <1>8, <2>1 DEF Count, Rewind, producerVars
<1>9. CASE UNCHANGED vars
  BY <1>0, <1>9 DEF vars, producerVars, valueVars, readerVars
<1>10. QED
  BY <1>1, <1>2, <1>3, <1>4, <1>5, <1>6, <1>7, <1>8, <1>9 DEF Next, ReaderNext

LEMMA OfferedStep == IInv /\ [Next]_vars => Offered' /\ ClosedInOrder'
<1> SUFFICES ASSUME IInv, [Next]_vars PROVE Offered' /\ ClosedInOrder'
  OBVIOUS
<1> USE DEF Offered, ClosedInOrder
<1>0. Types /\ Offered /\ ClosedInOrder
  BY DEF IInv
<1>1. CASE Produce
  <2>1. Offered'
    BY <1>0, <1>1, ContextAssumption DEF Produce, Types
  <2>2. ClosedInOrder'
    BY <1>0, <1>1 DEF Produce, Types, valueVars
  <2>3. QED
    BY <2>1, <2>2
<1>2. CASE Close
  <2>1. Offered'
    BY <1>0, <1>2 DEF Close
  <2>2. ClosedInOrder'
    BY <1>0, <1>2 DEF Close
  <2>3. QED
    BY <2>1, <2>2
<1>3. ASSUME NEW k \in 1..Calls, TakePiece(k) PROVE Offered' /\ ClosedInOrder'
  <2>1. /\ producer = "writing" /\ next' = next + 1 /\ outcome' = outcome
        /\ producer' = IF next = P THEN "closing" ELSE "writing"
    BY <1>3 DEF TakePiece
  <2>2. Offered'
    BY <1>0, <2>1, ContextAssumption DEF Types
  <2>3. ClosedInOrder'
    BY <1>0, <1>3 DEF TakePiece, valueVars
  <2>4. QED
    BY <2>2, <2>3
<1>4. ASSUME NEW k \in 1..Calls,
             \/ FromContext(k) \/ Answer(k) \/ Timeout(k) \/ ReturnAfterTimeout(k)
             \/ Check(k) \/ KeepValue(k) \/ Copy(k) \/ Count(k) \/ Rewind(k)
      PROVE  Offered' /\ ClosedInOrder'
  <2>1. UNCHANGED <<producerVars, closed>>
    BY <1>4 DEF FromContext, Answer, Timeout, ReturnAfterTimeout, Check, KeepValue, Copy, Count, Rewind,
       valueVars
  <2>2. QED
    BY <1>0, <2>1 DEF producerVars
<1>5. CASE UNCHANGED vars
  BY <1>0, <1>5 DEF vars, producerVars, valueVars
<1>6. QED
  BY <1>1, <1>2, <1>3, <1>4, <1>5 DEF Next, ReaderNext

LEMMA CallsStep == IInv /\ [Next]_vars => CallsAndReaders'
<1> SUFFICES ASSUME IInv, [Next]_vars PROVE CallsAndReaders'
  OBVIOUS
<1> USE DEF CallsAndReaders
<1>0. Types /\ CallsAndReaders
  BY DEF IInv
<1>1. CASE Produce \/ Close
  BY <1>0, <1>1 DEF Produce, Close, readerVars
<1>2. ASSUME NEW k \in 1..Calls, FromContext(k) PROVE CallsAndReaders'
  BY <1>0, <1>2 DEF FromContext, Types
<1>3. ASSUME NEW k \in 1..Calls, Answer(k) \/ Timeout(k) \/ ReturnAfterTimeout(k)
      PROVE  CallsAndReaders'
  BY <1>0, <1>3 DEF Answer, Timeout, ReturnAfterTimeout, readerVars, Types
<1>4. ASSUME NEW k \in 1..Calls, Check(k) \/ TakePiece(k) \/ KeepValue(k) \/ Copy(k) \/ Count(k) \/ Rewind(k)
      PROVE  CallsAndReaders'
  <2>1. call' = call /\ InRead(k)
    BY <1>4 DEF Check, TakePiece, KeepValue, Copy, Count, Rewind, InRead
  <2>2. \E r : r # "none" /\ reader' = [reader EXCEPT ![k] = r]
    <3>1. CASE TakePiece(k)
      BY <1>0, <3>1 DEF TakePiece, Types
    <3>2. CASE Check(k) \/ KeepValue(k) \/ Copy(k) \/ Count(k) \/ Rewind(k)
      BY <3>2 DEF Check, KeepValue, Copy, Count, Rewind
    <3>3. QED
      BY <1>4, <3>1, <3>2
  <2>3. QED
    BY <1>0, <2>1, <2>2 DEF InRead, Types
<1>5. CASE UNCHANGED vars
  BY <1>0, <1>5 DEF vars, readerVars
<1>6. QED
  BY <1>1, <1>2, <1>3, <1>4, <1>5 DEF Next, ReaderNext

-----------------------------------------------------------------------------
(* Serial reads.                                                            *)

\* The other readers, when one is in Read alone: they have not begun or have ended,
\* and a step of that one leaves them so.
LEMMA OthersRest ==
  ASSUME Types, Serial, NEW k \in 1..Calls, InRead(k), outcome' = outcome,
         \A j \in 1..Calls \ {k} :
           reader'[j] = reader[j] /\ data'[j] = data[j] /\ got'[j] = got[j]
  PROVE  \A j \in 1..Calls \ {k} : ~InRead(j)' /\ SerialReader(j)'
<1> SUFFICES ASSUME NEW j \in 1..Calls, j # k PROVE ~InRead(j)' /\ SerialReader(j)'
  OBVIOUS
<1>1. SerialReader(k) /\ SerialReader(j)
  BY DEF Serial
<1>2. reader'[j] = reader[j] /\ data'[j] = data[j] /\ got'[j] = got[j] /\ Produced' = Produced
  BY DEF Produced
<1>3. ~InRead(j)
  BY <1>1 DEF SerialReader, Alone
<1>4. reader[j] \in {"none", "ended"}
  BY <1>1, <1>3 DEF Types, SerialReader, InRead
<1>5. QED
  BY <1>1, <1>2, <1>4 DEF SerialReader, InRead

\* What remains to be shown of a step of reader k.
LEMMA SerialByReader ==
  ASSUME Types, Serial, NEW k \in 1..Calls, InRead(k), outcome' = outcome,
         \A j \in 1..Calls \ {k} :
           reader'[j] = reader[j] /\ data'[j] = data[j] /\ got'[j] = got[j],
         Alone(k)' => SerialReader(k)',
         ~InRead(k)' => off' = 0,
         reader'[k] # "reading" /\ closed' => buf' = Produced',
         reader'[k] # "reading" /\ ~closed' => next' = 1 /\ buf' = <<>>
  PROVE  Serial'
<1>1. \A j \in 1..Calls \ {k} : ~InRead(j)' /\ SerialReader(j)'
  BY OthersRest
<1>2. Alone(k)'
  BY <1>1 DEF Alone
<1>3. \A j \in 1..Calls : SerialReader(j)'
  BY <1>1, <1>2
<1>4. NobodyReads' => reader'[k] # "reading"
  BY DEF NobodyReads
<1>5. QED
  BY <1>3, <1>4 DEF Serial

\* While a reader is in Read alone and not at the pipe, nobody is.
LEMMA NobodyElseReads ==
  ASSUME Serial, NEW k \in 1..Calls, InRead(k), reader[k] # "reading"
  PROVE  NobodyReads
  BY DEF Serial, SerialReader, Alone, NobodyReads, InRead

LEMMA CheckStep ==
  ASSUME IInv, Serial, NEW k \in 1..Calls, Check(k)
  PROVE  Serial'
<1>1. /\ reader[k] = "checking" /\ InRead(k)
      /\ UNCHANGED <<outcome, next, closed, buf, off, data, got, n>>
  BY DEF Check, producerVars, valueVars, InRead
<1>2. Types /\ SerialReader(k) /\ NobodyReads /\ Produced' = Produced
  BY <1>1, NobodyElseReads DEF IInv, Serial, Produced
<1>3. HasPrefix(k) /\ HasPrefix(k)' /\ off \in Nat
  BY <1>1, <1>2 DEF SerialReader, HasPrefix, Types
<1>4. /\ \A j \in 1..Calls \ {k} : reader'[j] = reader[j]
      /\ reader'[k] = IF closed THEN "copying" ELSE "reading"
  BY <1>2 DEF Check, Types
<1>5. CASE closed
  <2>1. reader'[k] = "copying" /\ buf = Produced
    BY <1>2, <1>4, <1>5 DEF Serial
  <2>2. Alone(k)' => SerialReader(k)'
    BY <1>1, <1>3, <1>5, <2>1 DEF SerialReader
  <2>3. InRead(k)'
    BY <2>1 DEF InRead
  <2>4. QED
    BY <1>1, <1>2, <1>4, <1>5, <2>1, <2>2, <2>3, SerialByReader
<1>6. CASE ~closed
  <2>1. reader'[k] = "reading" /\ next = 1
    BY <1>2, <1>4, <1>6 DEF Serial
  <2>2. off = 0 /\ data[k] = <<>>
    BY <1>1, <1>2, <1>3, <1>6 DEF SerialReader
  <2>3. got[k] = <<>> /\ data'[k] = Prefix(next' - 1)
    BY <1>1, <1>3, <2>1, <2>2, PrefixEmpty DEF HasPrefix
  <2>4. Alone(k)' => SerialReader(k)'
    BY <1>1, <2>1, <2>2, <2>3 DEF SerialReader
  <2>5. InRead(k)'
    BY <2>1 DEF InRead
  <2>6. QED
    BY <1>1, <1>2, <1>4, <2>1, <2>4, <2>5, SerialByReader
<1>7. QED
  BY <1>5, <1>6

LEMMA TakePieceStep ==
  ASSUME IInv, Serial, NEW k \in 1..Calls, TakePiece(k)
  PROVE  Serial'
<1>1. /\ reader[k] = "reading" /\ InRead(k) /\ next' = next + 1
      /\ data' = [data EXCEPT ![k] = Append(@, next)]
      /\ UNCHANGED <<outcome, closed, buf, off, reader, got, n>>
  BY DEF TakePiece, valueVars, InRead
<1>2. Types /\ SerialReader(k) /\ next \in Nat /\ next >= 1
  <2>1. Types /\ SerialReader(k)
    BY <1>1 DEF IInv, Serial
  <2>2. next \in Nat /\ next >= 1
    BY <2>1, ContextAssumption DEF Types
  <2>3. QED
    BY <2>1, <2>2
<1>3. data[k] = Prefix(next - 1) /\ off = 0 /\ got[k] = <<>>
  BY <1>1, <1>2 DEF SerialReader
<1>4. Append(Prefix(next - 1), (next - 1) + 1) = Prefix((next - 1) + 1)
  <2>1. next - 1 \in Nat
    BY <1>2
  <2>2. QED
    BY <2>1, PrefixGrows
<1>5. data'[k] = Prefix(next' - 1)
  <2>1. (next - 1) + 1 = next /\ next' - 1 = next
    BY <1>1, <1>2
  <2>2. data'[k] = Append(Prefix(next - 1), next)
    BY <1>1, <1>2, <1>3 DEF Types
  <2>3. QED
    BY <1>4, <2>1, <2>2
<1>6. \A j \in 1..Calls \ {k} : reader'[j] = reader[j] /\ data'[j] = data[j] /\ got'[j] = got[j]
  BY <1>1, <1>2 DEF Types
<1>7. reader'[k] = "reading" /\ InRead(k)'
  BY <1>1 DEF InRead
<1>8. Alone(k)' => SerialReader(k)'
  BY <1>1, <1>3, <1>5, <1>7 DEF SerialReader
<1>9. QED
  BY <1>1, <1>2, <1>6, <1>7, <1>8, SerialByReader

\* The pipe is closed: the job has written all that it produces.
LEMMA KeepValueStep ==
  ASSUME IInv, Serial, NEW k \in 1..Calls, KeepValue(k)
  PROVE  Serial'
<1>1. /\ reader[k] = "reading" /\ InRead(k) /\ ~piped /\ buf' = data[k]
      /\ reader' = [reader EXCEPT ![k] = "copying"]
      /\ UNCHANGED <<outcome, next, closed, off, data, got, n>>
  BY DEF KeepValue, producerVars, InRead
<1>2. Types /\ SerialReader(k) /\ Produced' = Produced
  BY <1>1 DEF IInv, Serial, Produced
<1>3. data[k] = Prefix(next - 1) /\ off = 0 /\ got[k] = <<>>
  BY <1>1, <1>2 DEF SerialReader
<1>4. closed /\ producer \in {"closing", "done"} /\ outcome # "fail"
  BY <1>1 DEF IInv, ClosedInOrder
<1>5. data[k] = Produced
  <2>1. CASE outcome = "value"
    <3>1. next = P + 1
      BY <1>4, <2>1 DEF IInv, Offered
    <3>2. next - 1 = P
      BY <3>1, ContextAssumption
    <3>3. QED
      BY <1>3, <2>1, <3>2, ProducedIsPrefix
  <2>2. CASE outcome # "value"
    <3>1. next = 1
      BY <2>2 DEF IInv, Offered
    <3>2. QED
      BY <1>3, <2>2, <3>1, ProducedIsPrefix, PrefixEmpty
  <2>3. QED
    BY <2>1, <2>2
<1>6. reader'[k] = "copying" /\ InRead(k)'
  BY <1>1, <1>2 DEF Types, InRead
<1>7. HasPrefix(k)'
  BY <1>1, <1>3, PrefixEmpty DEF HasPrefix
<1>8. Alone(k)' => SerialReader(k)'
  BY <1>1, <1>4, <1>6, <1>7 DEF SerialReader
<1>9. \A j \in 1..Calls \ {k} : reader'[j] = reader[j] /\ data'[j] = data[j] /\ got'[j] = got[j]
  BY <1>1, <1>2 DEF Types
<1>10. buf' = Produced' /\ closed'
  BY <1>1, <1>2, <1>4, <1>5
<1>11. QED
  BY <1>1, <1>2, <1>6, <1>8, <1>9, <1>10, SerialByReader

LEMMA CopyStep ==
  ASSUME IInv, Serial, NEW k \in 1..Calls, Copy(k)
  PROVE  Serial'
<1>1. /\ reader[k] = "copying" /\ InRead(k)
      /\ UNCHANGED <<outcome, next, closed, buf, off, data>>
  BY DEF Copy, producerVars, valueVars, InRead
<1>2. Types /\ SerialReader(k) /\ NobodyReads /\ Produced' = Produced
  BY <1>1, NobodyElseReads DEF IInv, Serial, Produced
<1>3. closed /\ HasPrefix(k) /\ buf = Produced /\ off \in Nat
  BY <1>1, <1>2 DEF SerialReader, Serial, Types
<1>4. Len(Produced) \in Nat
  BY ProducedIsPrefix, ContextAssumption
<1>5. off <= Len(buf)
  BY <1>3, <1>4 DEF HasPrefix
<1>6. /\ reader' = [reader EXCEPT ![k] = "counting"]
      /\ n' = [n EXCEPT ![k] = IF off < Len(buf) THEN 1 ELSE 0]
      /\ got' = [got EXCEPT ![k] = IF off < Len(buf) THEN Append(@, buf[off + 1]) ELSE @]
  BY <1>3, <1>4, <1>5 DEF Copy
<1>7. reader'[k] = "counting" /\ InRead(k)'
  BY <1>2, <1>6 DEF Types, InRead
<1>8. \A j \in 1..Calls \ {k} : reader'[j] = reader[j] /\ data'[j] = data[j] /\ got'[j] = got[j]
  BY <1>1, <1>2, <1>6 DEF Types
<1>9. Alone(k)' => SerialReader(k)'
  <2>1. CASE off < Len(buf)
    <3>1. outcome = "value" /\ Produced = Prefix(P) /\ off + 1 \in 1..P
      BY <1>3, <2>1, ProducedIsPrefix, ContextAssumption
    <3>2. buf[off + 1] = off + 1
      BY <1>3, <3>1, PrefixIsSeq, ContextAssumption
    <3>3. got'[k] = Prefix(off + 1) /\ n'[k] = 1
      BY <1>2, <1>3, <1>6, <2>1, <3>2, PrefixGrows DEF Types, HasPrefix
    <3>4. QED
      BY <1>1, <1>2, <1>3, <1>7, <2>1, <3>3 DEF SerialReader
  <2>2. CASE ~(off < Len(buf))
    <3>1. got'[k] = got[k] /\ n'[k] = 0
      BY <1>2, <1>6, <2>2 DEF Types
    <3>2. off = 0 /\ Len(Produced) = 0
      BY <1>3, <1>4, <2>2 DEF HasPrefix
    <3>3. Produced = <<>>
      BY <3>2, ProducedIsPrefix, ContextAssumption
    <3>4. got'[k] = Produced
      BY <1>3, <3>1, <3>2, <3>3, PrefixEmpty DEF HasPrefix
    <3>5. QED
      BY <1>1, <1>2, <1>3, <1>7, <3>1, <3>4 DEF SerialReader
  <2>3. QED
    BY <2>1, <2>2
<1>10. QED
  BY <1>1, <1>2, <1>3, <1>7, <1>8, <1>9, SerialByReader

LEMMA CountStep ==
  ASSUME IInv, Serial, NEW k \in 1..Calls, Count(k)
  PROVE  Serial'
<1>1. /\ reader[k] = "counting" /\ InRead(k)
      /\ UNCHANGED <<outcome, next, closed, buf, data, got, n>>
  BY DEF Count, producerVars, InRead
<1>2. Types /\ SerialReader(k) /\ NobodyReads /\ Produced' = Produced
  BY <1>1, NobodyElseReads DEF IInv, Serial, Produced
<1>3. closed /\ buf = Produced /\ off \in Nat /\ n[k] \in {0, 1}
  BY <1>1, <1>2 DEF SerialReader, Serial, Types
<1>4. \A j \in 1..Calls \ {k} : reader'[j] = reader[j] /\ data'[j] = data[j] /\ got'[j] = got[j]
  BY <1>1, <1>2 DEF Types, Count
<1>a. n[k] = 1 => /\ outcome = "value" /\ off + 1 \in 1..P /\ got[k] = Prefix(off + 1)
                  /\ got[k][Len(got[k])] = off + 1
  <2> SUFFICES ASSUME n[k] = 1
               PROVE  /\ outcome = "value" /\ off + 1 \in 1..P /\ got[k] = Prefix(off + 1)
                      /\ got[k][Len(got[k])] = off + 1
    OBVIOUS
  <2>1. off < Len(Produced) /\ got[k] = Prefix(off + 1)
    BY <1>1, <1>2 DEF SerialReader
  <2>2. outcome = "value" /\ off + 1 \in 1..P
    BY <1>3, <2>1, ProducedIsPrefix, ContextAssumption
  <2>3. Len(got[k]) = off + 1 /\ Prefix(off + 1)[off + 1] = off + 1
    BY <2>1, <2>2, PrefixIsSeq, ContextAssumption
  <2>4. QED
    BY <2>1, <2>2, <2>3
<1>5. CASE n[k] = 1 /\ got[k][Len(got[k])] # P
  <2>1. reader'[k] = "checking" /\ off' = off + 1
    BY <1>2, <1>5 DEF Count, Types
  <2>2. off + 1 < P /\ Len(Produced) = P
    BY <1>a, <1>3, <1>5, ProducedIsPrefix, ContextAssumption
  <2>3. HasPrefix(k)'
    BY <1>a, <1>1, <1>2, <1>5, <2>1, <2>2 DEF HasPrefix
  <2>4. Alone(k)' => SerialReader(k)'
    BY <1>1, <1>3, <2>1, <2>3 DEF SerialReader
  <2>5. InRead(k)'
    BY <2>1 DEF InRead
  <2>6. QED
    BY <1>1, <1>2, <1>3, <1>4, <2>1, <2>4, <2>5, SerialByReader
<1>6. CASE ~(n[k] = 1 /\ got[k][Len(got[k])] # P)
  <2>1. reader'[k] = "rewinding"
    BY <1>2, <1>6 DEF Count, Types
  <2>2. got[k] = Produced
    <3>1. CASE n[k] = 0
      BY <1>1, <1>2, <3>1 DEF SerialReader
    <3>2. CASE n[k] = 1
      BY <1>a, <1>6, <3>2, ProducedIsPrefix
    <3>3. QED
      BY <1>3, <3>1, <3>2
  <2>3. InRead(k)'
    BY <2>1 DEF InRead
  <2>4. Alone(k)' => SerialReader(k)'
    BY <1>1, <1>2, <1>3, <2>1, <2>2 DEF SerialReader
  <2>5. QED
    BY <1>1, <1>2, <1>3, <1>4, <2>1, <2>3, <2>4, SerialByReader
<1>7. QED
  BY <1>5, <1>6

LEMMA RewindStep ==
  ASSUME IInv, Serial, NEW k \in 1..Calls, Rewind(k)
  PROVE  Serial'
<1>1. /\ reader[k] = "rewinding" /\ InRead(k) /\ off' = 0
      /\ UNCHANGED <<outcome, next, closed, buf, data, got, n>>
  BY DEF Rewind, producerVars, InRead
<1>2. Types /\ SerialReader(k) /\ NobodyReads /\ Produced' = Produced
  BY <1>1, NobodyElseReads DEF IInv, Serial, Produced
<1>3. closed /\ buf = Produced /\ got[k] = Produced
  BY <1>1, <1>2 DEF SerialReader, Serial
<1>4. \A j \in 1..Calls \ {k} : reader'[j] = reader[j] /\ data'[j] = data[j] /\ got'[j] = got[j]
  BY <1>1, <1>2 DEF Types, Rewind
<1>5. reader'[k] = "ended" /\ ~InRead(k)'
  BY <1>2 DEF Rewind, Types, InRead
<1>6. Alone(k)' => SerialReader(k)'
  BY <1>1, <1>2, <1>3, <1>5 DEF SerialReader
<1>7. QED
  BY <1>1, <1>2, <1>3, <1>4, <1>5, <1>6, SerialByReader

\* A new read begins where nobody is in Read.
LEMMA FromContextStep ==
  ASSUME IInv, Serial, NEW k \in 1..Calls, FromContext(k), ~overlapped'
  PROVE  Serial'
<1>1. /\ call[k] = "none" /\ reader' = [reader EXCEPT ![k] = "checking"]
      /\ UNCHANGED <<outcome, next, closed, buf, off, data, got, n>>
  BY DEF FromContext, producerVars, valueVars
<1>2. \A m \in 1..Calls : ~InRead(m)
  BY DEF FromContext
<1>3. Types /\ off = 0 /\ reader[k] = "none" /\ Produced' = Produced
  BY <1>1, <1>2 DEF IInv, Serial, CallsAndReaders, Produced
<1>4. NobodyReads /\ NobodyReads' /\ reader'[k] = "checking"
  BY <1>1, <1>2, <1>3 DEF NobodyReads, InRead, Types
<1>5. ASSUME NEW j \in 1..Calls, j # k PROVE ~InRead(j)' /\ SerialReader(j)'
  <2>1. reader'[j] = reader[j] /\ SerialReader(j) /\ ~InRead(j)
    BY <1>1, <1>2, <1>3, <1>5 DEF Types, Serial
  <2>2. reader[j] \in {"none", "ended"}
    BY <1>3, <2>1 DEF Types, SerialReader, InRead
  <2>3. QED
    BY <1>1, <1>3, <2>1, <2>2 DEF SerialReader, InRead
<1>6. SerialReader(k)'
  <2>1. Alone(k)'
    BY <1>5 DEF Alone
  <2>2. data[k] = <<>> /\ got[k] = <<>>
    BY <1>3 DEF Serial, SerialReader
  <2>3. HasPrefix(k)'
    BY <1>1, <1>3, <2>2, PrefixEmpty DEF HasPrefix
  <2>4. QED
    BY <1>1, <1>3, <1>4, <2>1, <2>2, <2>3 DEF SerialReader
<1>7. QED
  BY <1>1, <1>3, <1>4, <1>5, <1>6 DEF Serial

\* The flag is set while a reader has the pipe, unless there is nothing to read.
LEMMA CloseStep ==
  ASSUME IInv, Serial, Close
  PROVE  Serial'
<1>1. UNCHANGED <<outcome, next, buf, off, call, reader, data, n, got>> /\ closed' /\ producer = "closing"
  BY DEF Close, readerVars
<1>2. Produced' = Produced /\ (NobodyReads' <=> NobodyReads) /\ \A j \in 1..Calls : InRead(j)' <=> InRead(j)
  BY <1>1 DEF Produced, NobodyReads, InRead
<1>3. ASSUME NEW j \in 1..Calls PROVE SerialReader(j)'
  <2>1. SerialReader(j)
    BY DEF Serial
  <2>2. HasPrefix(j) => HasPrefix(j)'
    BY <1>1, <1>2 DEF HasPrefix
  <2>3. Alone(j) => Alone(j)'
    BY <1>2 DEF Alone
  <2>4. QED
    BY <1>1, <1>2, <2>1, <2>2, <2>3 DEF SerialReader
<1>4. NobodyReads => buf = Produced
  <2>1. CASE closed
    BY <2>1 DEF Serial
  <2>2. CASE NobodyReads /\ ~closed
    <3>1. next = 1 /\ buf = <<>>
      BY <2>2 DEF Serial
    <3>2. outcome # "value"
      BY <1>1, <3>1, ContextAssumption DEF IInv, Offered
    <3>3. QED
      BY <3>1, <3>2, ProducedIsPrefix
  <2>3. QED
    BY <2>1, <2>2
<1>5. QED
  BY <1>1, <1>2, <1>3, <1>4 DEF Serial

LEMMA SerialStep == IInv /\ [Next]_vars => (overlapped \/ Serial)'
<1> SUFFICES ASSUME IInv, [Next]_vars, ~overlapped' PROVE Serial'
  OBVIOUS
<1>1. ~overlapped
  <2>1. ASSUME NEW k \in 1..Calls,
               \/ FromContext(k) \/ Answer(k) \/ Timeout(k) \/ ReturnAfterTimeout(k)
               \/ Check(k) \/ TakePiece(k) \/ KeepValue(k) \/ Copy(k) \/ Count(k) \/ Rewind(k)
        PROVE  ~overlapped
    BY <2>1 DEF FromContext, Answer, Timeout, ReturnAfterTimeout, Check, TakePiece, KeepValue,
       Copy, Count, Rewind, readerVars
  <2>2. CASE Produce \/ Close \/ UNCHANGED vars
    BY <2>2 DEF Produce, Close, vars, readerVars
  <2>3. QED
    BY <2>1, <2>2 DEF Next, ReaderNext
<1>2. Serial
  BY <1>1 DEF IInv
<1>3. ASSUME UNCHANGED <<outcome, next, closed, buf, off, reader, data, n, got>> PROVE Serial'
  <2>1. Produced' = Produced /\ (NobodyReads' <=> NobodyReads)
    BY <1>3 DEF Produced, NobodyReads
  <2>2. \A j \in 1..Calls : (InRead(j)' <=> InRead(j)) /\ (Alone(j)' <=> Alone(j))
    BY <1>3 DEF InRead, Alone
  <2>3. ASSUME NEW j \in 1..Calls PROVE SerialReader(j)'
    BY <1>2, <1>3, <2>1, <2>2 DEF Serial, SerialReader, HasPrefix
  <2>4. QED
    BY <1>2, <1>3, <2>1, <2>2, <2>3 DEF Serial
<1>4. CASE Produce \/ UNCHANGED vars
  BY <1>3, <1>4 DEF Produce, vars, producerVars, valueVars, readerVars
<1>5. CASE Close
  BY <1>2, <1>5, CloseStep
<1>6. ASSUME NEW k \in 1..Calls, Answer(k) \/ Timeout(k) \/ ReturnAfterTimeout(k) PROVE Serial'
  BY <1>3, <1>6 DEF Answer, Timeout, ReturnAfterTimeout, producerVars, valueVars, readerVars
<1>7. ASSUME NEW k \in 1..Calls,
             FromContext(k) \/ Check(k) \/ TakePiece(k) \/ KeepValue(k) \/ Copy(k) \/ Count(k) \/ Rewind(k)
      PROVE  Serial'
  BY <1>2, <1>7, FromContextStep, CheckStep, TakePieceStep, KeepValueStep, CopyStep, CountStep,
     RewindStep
<1>8. QED
  BY <1>4, <1>5, <1>6, <1>7 DEF Next, ReaderNext

LEMMA Invariance == Spec => []IInv
<1>1. IInv /\ [Next]_vars => IInv'
  BY FlagsStep, TypesStep, OfferedStep, CallsStep, SerialStep DEF IInv
<1>2. QED
  BY InitIInv, <1>1, PTL DEF Spec

-----------------------------------------------------------------------------

\* The variables have their types: the producer never writes more than its value.
THEOREM TypeCorrect == Spec => []TypeOK
<1>1. IInv => TypeOK
  BY DEF IInv, Types, Flags, TypeOK
<1>2. QED
  BY <1>1, Invariance, PTL

\* Reads that were never in Read together all have the whole value, the first from
\* the pipe and the others from the buffer, timed out ones included, and none of
\* them slices out of range.
THEOREM SerialReadsHaveTheValue == Spec => []SerialReadsAreWhole
<1>1. IInv => SerialReadsAreWhole
  <2>1. ASSUME CallsAndReaders, Serial, NEW k \in 1..Calls
        PROVE  (call[k] = "ok" => got[k] = Produced) /\ reader[k] # "panicked"
    BY <2>1 DEF CallsAndReaders, Serial, SerialReader
  <2>2. QED
    BY <2>1 DEF IInv, SerialReadsAreWhole
<1>2. QED
  BY <1>1, Invariance, PTL

-----------------------------------------------------------------------------
(* Where the job and the readers stand still: the safety side of            *)
(* ProducerReleased and ReaderEnds, without the timeouts. The guards of the *)
(* actions whose fairness is assumed are written out, for ENABLED is beyond *)
(* the provers.                                                             *)

ReaderCanMove(k) ==
  \/ reader[k] \in {"checking", "copying", "counting", "rewinding"}
  \/ reader[k] = "reading" /\ (producer = "writing" \/ ~piped)

CallCanMove(k) == call[k] = "timedout" \/ (call[k] = "waiting" /\ reader[k] = "ended")

SomeoneCanMove ==
  /\ ~Crashed
  /\ \/ producer \in {"queued", "closing"}
     \/ \E k \in 1..Calls : ReaderCanMove(k) \/ CallCanMove(k)

\* The job stands in a write that nobody reads, or is done. A goroutine in Read has
\* the value of a job that failed before it, and a call waits for such a goroutine.
StandsStillOnlySo ==
  ~SomeoneCanMove =>
    \/ CrashedByOverlap
    \/ /\ producer = "done" \/ (producer = "writing" /\ \A k \in 1..Calls : ~InRead(k))
       /\ \A k \in 1..Calls : InRead(k) => outcome = "fail"
       /\ \A k \in 1..Calls : call[k] \in {"waiting", "timedout"} => outcome = "fail"

\* A job that did not fail has closed its value when it is done.
DoneHasClosed == producer = "done" /\ outcome # "fail" => ~piped

LEMMA DoneStep == IInv /\ DoneHasClosed /\ [Next]_vars => DoneHasClosed'
<1> SUFFICES ASSUME IInv, DoneHasClosed, [Next]_vars PROVE DoneHasClosed'
  OBVIOUS
<1> USE DEF DoneHasClosed
<1>1. CASE Produce
  BY <1>1 DEF Produce, IInv, Types
<1>2. CASE Close
  BY <1>2 DEF Close
<1>3. ASSUME NEW k \in 1..Calls, TakePiece(k)
      PROVE  DoneHasClosed'
  <2>1. producer' \in {"closing", "writing"}
    BY <1>3 DEF TakePiece
  <2>2. QED
    BY <2>1
<1>4. ASSUME NEW k \in 1..Calls,
             \/ FromContext(k) \/ Answer(k) \/ Timeout(k) \/ ReturnAfterTimeout(k)
             \/ Check(k) \/ KeepValue(k) \/ Copy(k) \/ Count(k) \/ Rewind(k)
      PROVE  DoneHasClosed'
  BY <1>4 DEF FromContext, Answer, Timeout, ReturnAfterTimeout, Check, KeepValue, Copy, Count, Rewind,
     producerVars
<1>5. CASE UNCHANGED vars
  BY <1>5 DEF vars, producerVars
<1>6. QED
  BY <1>1, <1>2, <1>3, <1>4, <1>5 DEF Next, ReaderNext

\* The worker of the job comes back once somebody reads the value, and the goroutine
\* of a read ends unless the job failed, whatever the timeouts did before: wherever
\* the job, the goroutines and the calls can go no further, it is for these reasons,
\* or a reader that overlapped another one has ended the server.
THEOREM ReadersWaitOnlySo == Spec => []StandsStillOnlySo
<1>1. Init => DoneHasClosed
  BY DEF Init, DoneHasClosed
<1>2. ASSUME IInv, DoneHasClosed, ~SomeoneCanMove, ~Crashed
      PROVE  /\ producer = "done" \/ (producer = "writing" /\ \A k \in 1..Calls : ~InRead(k))
             /\ \A k \in 1..Calls : InRead(k) => outcome = "fail"
             /\ \A k \in 1..Calls : call[k] \in {"waiting", "timedout"} => outcome = "fail"
  <2>1. producer \in {"writing", "done"}
    BY <1>2 DEF SomeoneCanMove, IInv, Types
  <2>2. ASSUME NEW k \in 1..Calls, InRead(k)
        PROVE  producer = "done" /\ outcome = "fail"
    <3>1. ~ReaderCanMove(k)
      BY <1>2 DEF SomeoneCanMove
    <3>2. reader[k] = "reading" /\ producer # "writing" /\ piped
      BY <2>2, <3>1 DEF InRead, ReaderCanMove
    <3>3. QED
      BY <1>2, <2>1, <3>2 DEF DoneHasClosed
  <2>3. ASSUME NEW k \in 1..Calls, call[k] \in {"waiting", "timedout"}
        PROVE  outcome = "fail"
    <3>1. call[k] = "waiting" /\ reader[k] # "ended"
      BY <1>2, <2>3 DEF SomeoneCanMove, CallCanMove
    <3>2. reader[k] # "none"
      BY <1>2, <3>1 DEF IInv, CallsAndReaders
    <3>3. reader[k] # "panicked"
      BY <1>2 DEF Crashed
    <3>4. InRead(k)
      BY <1>2, <3>1, <3>2, <3>3 DEF IInv, Types, InRead
    <3>5. QED
      BY <2>2, <3>4
  <2>4. QED
    BY <2>1, <2>2, <2>3
<1>3. IInv /\ Crashed => CrashedByOverlap
  BY DEF IInv, Serial, SerialReader, Crashed, CrashedByOverlap
<1>4. IInv /\ DoneHasClosed => StandsStillOnlySo
  BY <1>2, <1>3 DEF StandsStillOnlySo
<1>5. QED
  BY <1>1, <1>4, DoneStep, Invariance, PTL DEF Spec

-----------------------------------------------------------------------------
(* A measure: readers that race for off do not go round for ever. A Count   *)
(* that ends its reader may set off back for all others, and one that does  *)
(* not lets its reader go round once more, so the measure has three levels: *)
(* the readers that have not ended, the distance of off from its bound, and *)
(* where each reader stands.                                                *)

\* How many stages the things of S have before them, r[x] <= K for each x: the number of
\* pairs of a thing and a stage. A sum over a set that may be counted without recursion.
StageCount(S, K, r) == Cardinality({p \in S \X (1..K) : p[2] <= r[p[1]]})

LEMMA StagesFall ==
  ASSUME NEW S, IsFiniteSet(S), NEW K \in Nat,
         NEW r \in [S -> 0..K], NEW q \in [S -> 0..K], \A x \in S : q[x] <= r[x]
  PROVE  /\ StageCount(S, K, r) \in Nat /\ StageCount(S, K, q) \in Nat
         /\ StageCount(S, K, q) <= StageCount(S, K, r)
         /\ (\E x \in S : q[x] < r[x]) => StageCount(S, K, q) <= StageCount(S, K, r) - 1
<1> DEFINE R == {p \in S \X (1..K) : p[2] <= r[p[1]]}
           Q == {p \in S \X (1..K) : p[2] <= q[p[1]]}
<1>1. IsFiniteSet(1..K)
  BY FS_Interval
<1>2. IsFiniteSet(S \X (1..K))
  BY <1>1, FS_Product
<1>3. IsFiniteSet(R)
  BY <1>2, FS_Subset
<1>4. Q \subseteq R
  <2>1. ASSUME NEW p \in Q PROVE p \in R
    <3>1. p \in S \X (1..K) /\ p[1] \in S /\ p[2] \in 1..K /\ p[2] <= q[p[1]]
      OBVIOUS
    <3>2. q[p[1]] <= r[p[1]] /\ q[p[1]] \in 0..K /\ r[p[1]] \in 0..K
      BY <3>1
    <3>3. QED
      BY <3>1, <3>2
  <2>2. QED
    BY <2>1
<1>5. IsFiniteSet(Q) /\ Cardinality(Q) <= Cardinality(R) /\ (Cardinality(R) = Cardinality(Q) => R = Q)
  BY <1>3, <1>4, FS_Subset
<1>6. Cardinality(R) \in Nat /\ Cardinality(Q) \in Nat
  BY <1>3, <1>5, FS_CardinalityType
<1>7. ASSUME NEW x \in S, q[x] < r[x] PROVE R # Q
  <2>1. q[x] \in 0..K /\ r[x] \in 0..K
    OBVIOUS
  <2>2. r[x] \in 1..K /\ <<x, r[x]>> \in S \X (1..K)
    BY <1>7, <2>1
  <2>3. <<x, r[x]>>[1] = x /\ <<x, r[x]>>[2] = r[x] /\ ~(r[x] <= q[x]) /\ r[x] <= r[x]
    BY <1>7, <2>1
  <2>4. <<x, r[x]>> \in R /\ <<x, r[x]>> \notin Q
    BY <2>2, <2>3
  <2>5. QED
    BY <2>4
<1>8. StageCount(S, K, r) = Cardinality(R) /\ StageCount(S, K, q) = Cardinality(Q)
  BY DEF StageCount
<1> HIDE DEF R, Q
<1>9. QED
  BY <1>5, <1>6, <1>7, <1>8

\* A term that is less than its factor gives way to one of the first.
LEMMA Outweighs ==
  ASSUME NEW m \in Nat, NEW j \in Nat, NEW j1 \in Nat
  PROVE  /\ j1 <= j => (m + 1) * j1 <= (m + 1) * j
         /\ j1 <= j - 1 => (m + 1) * j1 + m + 1 <= (m + 1) * j
<1>1. ASSUME NEW k \in Nat, j = j1 + k
      PROVE  (m + 1) * j = (m + 1) * j1 + (m + 1) * k /\ (m + 1) * k \in Nat
  BY <1>1
<1>2. ASSUME j1 <= j PROVE (m + 1) * j1 <= (m + 1) * j
  <2>1. j - j1 \in Nat /\ j = j1 + (j - j1)
    BY <1>2
  <2>2. QED
    BY <1>1, <2>1
<1>3. ASSUME j1 <= j - 1 PROVE (m + 1) * j1 + m + 1 <= (m + 1) * j
  <2>1. j - 1 - j1 \in Nat /\ j = j1 + (j - 1 - j1) + 1
    BY <1>3
  <2>2. (m + 1) * j = (m + 1) * j1 + (m + 1) * (j - 1 - j1) + (m + 1)
    BY <2>1
  <2>3. (m + 1) * (j - 1 - j1) \in Nat
    BY <2>1
  <2>4. QED
    BY <2>2, <2>3
<1>4. QED
  BY <1>2, <1>3

Readers == 1..Calls

CallRank(s) == CASE s = "none" -> 3 [] s = "waiting" -> 2 [] s = "timedout" -> 1 [] OTHER -> 0

LiveRank(s) == IF s \in {"ended", "panicked"} THEN 0 ELSE 1

ReaderRank(s) ==
  CASE s = "none" -> 6 [] s = "checking" -> 5 [] s = "reading" -> 4 [] s = "copying" -> 3
    [] s = "counting" -> 2 [] s = "rewinding" -> 1 [] OTHER -> 0

ProducerRank(s, c) ==
  CASE s = "queued" -> 4 [] s = "writing" -> 3 [] s = "closing" /\ ~c -> 2
    [] s = "closing" /\ c -> 1 [] OTHER -> 0

CallSteps == StageCount(Readers, 3, [k \in Readers |-> CallRank(call[k])])
LiveReaders == StageCount(Readers, 1, [k \in Readers |-> LiveRank(reader[k])])
ReaderSteps == StageCount(Readers, 6, [k \in Readers |-> ReaderRank(reader[k])])
ProducerSteps == ProducerRank(producer, closed) + (P + 1 - next)

MaxOff == P + Calls
MaxReaderSteps == 6 * Calls
MaxRoundSteps == (MaxReaderSteps + 1) * MaxOff + MaxReaderSteps

RoundSteps == (MaxReaderSteps + 1) * (MaxOff - off) + ReaderSteps
StepsLeft == (MaxRoundSteps + 1) * LiveReaders + RoundSteps + CallSteps + ProducerSteps

\* The readers that have seen off before its end and are to count it up.
Counting == {k \in Readers : reader[k] = "counting" /\ n[k] = 1}

\* The value that is kept is not longer than the value, and off is past its end by no
\* more than the readers that have raced for it.
OffInBounds ==
  /\ \A k \in Readers : Len(data[k]) < next
  /\ Len(buf) <= P
  /\ off + Cardinality(Counting) <= MaxOff

LEMMA ReadersAreFinite == IsFiniteSet(Readers) /\ Cardinality(Readers) = Calls
<1>1. 1 \in Int /\ Calls \in Int /\ Calls \in Nat
  BY ContextAssumption
<1>2. QED
  BY <1>1, FS_Interval DEF Readers

LEMMA CountingIsFinite ==
  IsFiniteSet(Counting) /\ Cardinality(Counting) \in Nat /\ Cardinality(Counting) <= Calls
<1>1. Counting \in SUBSET Readers
  BY DEF Counting
<1>2. IsFiniteSet(Counting) /\ Cardinality(Counting) <= Calls
  BY <1>1, ReadersAreFinite, FS_Subset
<1>3. QED
  BY <1>2, FS_CardinalityType

LEMMA CountingSame ==
  ASSUME Counting' \subseteq Counting
  PROVE  Cardinality(Counting') <= Cardinality(Counting)
  BY CountingIsFinite, FS_Subset

LEMMA OffStep == IInv /\ OffInBounds /\ [Next]_vars => OffInBounds'
<1> SUFFICES ASSUME IInv, OffInBounds, [Next]_vars PROVE OffInBounds'
  OBVIOUS
<1>0. /\ off \in Nat /\ next \in 1..P + 1 /\ P \in Nat /\ Calls \in Nat
      /\ MaxOff = P + Calls
      /\ reader \in [Readers -> {"none", "checking", "reading", "copying", "counting",
                                 "rewinding", "ended", "panicked"}]
      /\ n \in [Readers -> 0..1]
      /\ buf \in Seq(1..P) /\ data \in [Readers -> Seq(1..P)]
  BY ContextAssumption DEF IInv, Types, MaxOff, Readers
<1>1. /\ IsFiniteSet(Counting) /\ Cardinality(Counting) \in Nat
      /\ Cardinality(Counting') \in Nat /\ Cardinality(Counting') <= Calls
  <2>1. (/\ IsFiniteSet(Counting) /\ Cardinality(Counting) \in Nat
         /\ Cardinality(Counting) <= Calls)'
    BY CountingIsFinite, PTL
  <2>2. QED
    BY <2>1, CountingIsFinite
<1>2. MaxOff' = MaxOff
  BY DEF MaxOff
<1>3. ASSUME UNCHANGED <<data, next, buf, off>>, Counting' \subseteq Counting PROVE OffInBounds'
  BY <1>0, <1>1, <1>2, <1>3, CountingSame DEF OffInBounds
<1>4. CASE Produce \/ Close \/ UNCHANGED vars
  <2>1. UNCHANGED <<data, next, buf, off, reader, n>>
    BY <1>4 DEF Produce, Close, vars, producerVars, valueVars, readerVars
  <2>2. Counting' \subseteq Counting
    BY <2>1 DEF Counting
  <2>3. QED
    BY <1>3, <2>1, <2>2
<1>5. ASSUME NEW k \in Readers,
             FromContext(k) \/ Answer(k) \/ Timeout(k) \/ ReturnAfterTimeout(k) \/ Check(k)
      PROVE  OffInBounds'
  <2>1. UNCHANGED <<data, next, buf, off, n>>
    BY <1>5 DEF FromContext, Answer, Timeout, ReturnAfterTimeout, Check, producerVars,
                valueVars, readerVars
  <2>2. \A m \in Readers : reader'[m] = "counting" => reader[m] = "counting"
    BY <1>0, <1>5 DEF FromContext, Answer, Timeout, ReturnAfterTimeout, Check, readerVars
  <2>3. Counting' \subseteq Counting
    BY <2>1, <2>2 DEF Counting
  <2>4. QED
    BY <1>3, <2>1, <2>3
<1>6. ASSUME NEW k \in Readers, TakePiece(k) PROVE OffInBounds'
  <2>1. /\ data' = [data EXCEPT ![k] = Append(@, next)] /\ next' = next + 1
        /\ UNCHANGED <<buf, off, reader, n>>
    BY <1>6 DEF TakePiece, valueVars
  <2>2. Counting' = Counting
    BY <2>1 DEF Counting
  <2>3. \A m \in Readers : Len(data'[m]) < next'
    <3>1. ASSUME NEW m \in Readers PROVE Len(data'[m]) < next'
      <4>1. Len(data[m]) \in Nat /\ Len(data[m]) < next
        BY <1>0 DEF OffInBounds
      <4>2. CASE m = k
        <5>1. data'[m] = Append(data[m], next)
          BY <1>0, <2>1, <4>2
        <5>2. Len(data'[m]) = Len(data[m]) + 1
          BY <1>0, <5>1
        <5>3. QED
          BY <1>0, <2>1, <4>1, <5>2
      <4>3. CASE m # k
        <5>1. data'[m] = data[m]
          BY <1>0, <2>1, <4>3
        <5>2. QED
          BY <1>0, <2>1, <4>1, <5>1
      <4>4. QED
        BY <4>2, <4>3
    <3>2. QED
      BY <3>1
  <2>4. QED
    BY <1>2, <2>1, <2>2, <2>3 DEF OffInBounds
<1>7. ASSUME NEW k \in Readers, KeepValue(k) PROVE OffInBounds'
  <2>1. /\ buf' = data[k] /\ UNCHANGED <<data, next, off, n>>
        /\ reader' = [reader EXCEPT ![k] = "copying"]
    BY <1>7 DEF KeepValue, producerVars
  <2>2. Counting' \subseteq Counting
    BY <1>0, <2>1 DEF Counting
  <2>3. Len(buf') <= P
    <3>1. Len(data[k]) < next /\ Len(data[k]) \in Nat
      BY <1>0 DEF OffInBounds
    <3>2. QED
      BY <1>0, <2>1, <3>1
  <2>4. QED
    BY <1>0, <1>1, <1>2, <2>1, <2>2, <2>3, CountingSame DEF OffInBounds
<1>8. ASSUME NEW k \in Readers, Copy(k) PROVE OffInBounds'
  <2>1. UNCHANGED <<data, next, buf, off>>
    BY <1>8 DEF Copy, producerVars, valueVars
  <2>2. CASE off < Len(buf)
    <3>1. off + 1 <= P
      <4>1. Len(buf) \in Nat /\ Len(buf) <= P
        BY <1>0 DEF OffInBounds
      <4>2. QED
        BY <1>0, <2>2, <4>1
    <3>2. off + Cardinality(Counting') <= MaxOff
      BY <1>0, <1>1, <3>1
    <3>3. QED
      BY <1>2, <2>1, <3>2 DEF OffInBounds
  <2>3. CASE ~(off < Len(buf))
    <3>1. \/ reader' = [reader EXCEPT ![k] = "panicked"] /\ n' = n
          \/ reader' = [reader EXCEPT ![k] = "counting"] /\ n' = [n EXCEPT ![k] = 0]
      BY <1>8, <2>3 DEF Copy
    <3>2. Counting' \subseteq Counting
      BY <1>0, <3>1 DEF Counting
    <3>3. QED
      BY <1>3, <2>1, <3>2
  <2>4. QED
    BY <2>2, <2>3
<1>9. ASSUME NEW k \in Readers, Count(k) PROVE OffInBounds'
  <2>1. /\ UNCHANGED <<data, next, buf, n>> /\ off' = off + n[k] /\ reader[k] = "counting"
        /\ \E t \in {"checking", "rewinding"} : reader' = [reader EXCEPT ![k] = t]
    BY <1>9 DEF Count, producerVars
  <2>2. n[k] \in {0, 1}
    BY <1>0
  <2>3. CASE n[k] = 1
    <3>1. Counting' = Counting \ {k} /\ k \in Counting
      BY <1>0, <2>1, <2>3 DEF Counting
    <3>2. Cardinality(Counting') = Cardinality(Counting) - 1
      BY <1>1, <3>1, FS_RemoveElement
    <3>3. off' + Cardinality(Counting') <= MaxOff
      BY <1>0, <1>1, <2>1, <2>3, <3>2 DEF OffInBounds
    <3>4. QED
      BY <1>2, <2>1, <3>3 DEF OffInBounds
  <2>4. CASE n[k] = 0
    <3>1. Counting' \subseteq Counting
      BY <1>0, <2>1 DEF Counting
    <3>2. off' = off
      BY <1>0, <2>1, <2>4
    <3>3. QED
      BY <1>3, <2>1, <3>1, <3>2
  <2>5. QED
    BY <2>2, <2>3, <2>4
<1>10. ASSUME NEW k \in Readers, Rewind(k) PROVE OffInBounds'
  <2>1. UNCHANGED <<data, next, buf, n>> /\ off' = 0
    BY <1>10 DEF Rewind, producerVars
  <2>2. off' + Cardinality(Counting') <= MaxOff
    BY <1>0, <1>1, <2>1
  <2>3. QED
    BY <1>2, <2>1, <2>2 DEF OffInBounds
<1>11. QED
  BY <1>4, <1>5, <1>6, <1>7, <1>8, <1>9, <1>10 DEF Next, ReaderNext, Readers

LEMMA OffInvariance == Spec => []OffInBounds
<1>1. ASSUME Init PROVE OffInBounds
  <2>1. Counting = {}
    BY <1>1 DEF Init, Counting, Readers
  <2>2. Cardinality(Counting) = 0
    BY <2>1, FS_EmptySet
  <2>3. /\ \A k \in Readers : data[k] = <<>>
        /\ buf = <<>> /\ next = 1 /\ off = 0 /\ P \in Nat /\ Calls \in Nat
    BY <1>1, ContextAssumption DEF Init, Readers
  <2>4. Len(<<>>) = 0
    OBVIOUS
  <2>5. QED
    BY <2>2, <2>3, <2>4 DEF OffInBounds, MaxOff
<1>2. QED
  BY <1>1, OffStep, Invariance, PTL DEF Spec

LEMMA RanksAreRanks ==
  /\ [k \in Readers |-> CallRank(call[k])] \in [Readers -> 0..3]
  /\ [k \in Readers |-> LiveRank(reader[k])] \in [Readers -> 0..1]
  /\ [k \in Readers |-> ReaderRank(reader[k])] \in [Readers -> 0..6]
<1>1. \A s : CallRank(s) \in 0..3
  BY DEF CallRank
<1>2. \A s : LiveRank(s) \in 0..1
  BY DEF LiveRank
<1>3. \A s : ReaderRank(s) \in 0..6
  BY DEF ReaderRank
<1>4. QED
  BY <1>1, <1>2, <1>3

LEMMA ReaderStepsInBounds == ReaderSteps \in Nat /\ ReaderSteps <= MaxReaderSteps
<1> DEFINE R == {p \in Readers \X (1..6) : p[2] <= [k \in Readers |-> ReaderRank(reader[k])][p[1]]}
<1>1. IsFiniteSet(1..6) /\ Cardinality(1..6) = 6
  <2>1. 1 \in Int /\ 6 \in Int
    OBVIOUS
  <2>2. IsFiniteSet(1..6) /\ Cardinality(1..6) = IF 1 > 6 THEN 0 ELSE 6 - 1 + 1
    BY <2>1, FS_Interval
  <2>3. QED
    BY <2>2
<1>2. /\ IsFiniteSet(Readers \X (1..6))
      /\ Cardinality(Readers \X (1..6)) = Cardinality(Readers) * Cardinality(1..6)
  BY <1>1, ReadersAreFinite, FS_Product
<1>3. Cardinality(Readers \X (1..6)) = Calls * 6 /\ Calls \in Nat
  BY <1>1, <1>2, ReadersAreFinite, ContextAssumption
<1>4. R \in SUBSET (Readers \X (1..6))
  OBVIOUS
<1>5. IsFiniteSet(R) /\ Cardinality(R) <= Cardinality(Readers \X (1..6))
  BY <1>2, <1>4, FS_Subset
<1>6. Cardinality(R) \in Nat
  BY <1>5, FS_CardinalityType
<1>7. ReaderSteps = Cardinality(R)
  BY DEF ReaderSteps, StageCount
<1> HIDE DEF R
<1>8. QED
  BY <1>3, <1>5, <1>6, <1>7 DEF MaxReaderSteps

LEMMA CallsAndReadersAreNat == CallSteps \in Nat /\ LiveReaders \in Nat
<1> DEFINE r == [k \in Readers |-> CallRank(call[k])]
           s == [k \in Readers |-> LiveRank(reader[k])]
<1>1. r \in [Readers -> 0..3] /\ s \in [Readers -> 0..1]
  BY RanksAreRanks
<1>2. CallSteps = StageCount(Readers, 3, r) /\ LiveReaders = StageCount(Readers, 1, s)
  BY DEF CallSteps, LiveReaders
<1> HIDE DEF r, s
<1>3. (\A k \in Readers : r[k] <= r[k]) /\ (\A k \in Readers : s[k] <= s[k])
  BY <1>1
<1>4. QED
  BY <1>1, <1>2, <1>3, ReadersAreFinite, StagesFall

LEMMA BoundsAreNat ==
  /\ Calls \in Nat /\ P \in Nat /\ MaxOff \in Nat /\ MaxReaderSteps \in Nat
  /\ (MaxReaderSteps + 1) * MaxOff \in Nat /\ MaxRoundSteps \in Nat
<1>1. Calls \in Nat /\ P \in Nat /\ MaxOff \in Nat /\ MaxReaderSteps \in Nat
  BY ContextAssumption DEF MaxOff, MaxReaderSteps
<1> HIDE DEF MaxOff, MaxReaderSteps
<1>2. (MaxReaderSteps + 1) * MaxOff \in Nat
  BY <1>1
<1>3. QED
  BY <1>1, <1>2 DEF MaxRoundSteps

LEMMA StepsAreNat ==
  IInv /\ OffInBounds =>
    /\ CallSteps \in Nat /\ LiveReaders \in Nat /\ ReaderSteps \in Nat /\ ProducerSteps \in Nat
    /\ MaxOff - off \in Nat /\ ReaderSteps <= MaxReaderSteps
    /\ RoundSteps \in Nat /\ RoundSteps <= MaxRoundSteps
    /\ StepsLeft \in Nat
<1> SUFFICES ASSUME IInv, OffInBounds
    PROVE  /\ CallSteps \in Nat /\ LiveReaders \in Nat /\ ReaderSteps \in Nat /\ ProducerSteps \in Nat
           /\ MaxOff - off \in Nat /\ ReaderSteps <= MaxReaderSteps
           /\ RoundSteps \in Nat /\ RoundSteps <= MaxRoundSteps
           /\ StepsLeft \in Nat
  OBVIOUS
<1>1. ProducerSteps \in Nat
  <2>1. P + 1 - next \in Nat
    BY ContextAssumption DEF IInv, Types
  <2>2. ProducerRank(producer, closed) \in Nat
    BY DEF ProducerRank
  <2>3. QED
    BY <2>1, <2>2 DEF ProducerSteps
<1>2. MaxOff - off \in Nat /\ MaxOff - off <= MaxOff
  BY BoundsAreNat, CountingIsFinite DEF IInv, Types, OffInBounds
<1> DEFINE d == MaxOff - off
           v == (MaxReaderSteps + 1) * (MaxOff - off)
           w == (MaxRoundSteps + 1) * LiveReaders
<1>3. v \in Nat /\ v <= (MaxReaderSteps + 1) * MaxOff
  <2> HIDE DEF MaxOff, MaxReaderSteps, d
  <2>1. d \in Nat /\ d <= MaxOff
    BY <1>2 DEF d
  <2>2. /\ (MaxReaderSteps + 1) * d \in Nat
        /\ (MaxReaderSteps + 1) * d <= (MaxReaderSteps + 1) * MaxOff
    BY <2>1, BoundsAreNat, Outweighs
  <2>3. QED
    BY <2>2 DEF d
<1>4. w \in Nat
  BY BoundsAreNat, CallsAndReadersAreNat
<1>5. RoundSteps = v + ReaderSteps
  BY DEF RoundSteps
<1>6. StepsLeft = w + RoundSteps + CallSteps + ProducerSteps
  BY DEF StepsLeft
<1>7. MaxRoundSteps = (MaxReaderSteps + 1) * MaxOff + MaxReaderSteps
  BY DEF MaxRoundSteps
<1> HIDE DEF v, w, d
<1>8. RoundSteps \in Nat /\ RoundSteps <= MaxRoundSteps
  <2> DEFINE u == (MaxReaderSteps + 1) * MaxOff
  <2>1. u \in Nat /\ v <= u /\ MaxRoundSteps = u + MaxReaderSteps
    BY <1>3, <1>7, BoundsAreNat
  <2> HIDE DEF u, MaxReaderSteps
  <2>2. QED
    BY <1>3, <1>5, <2>1, ReaderStepsInBounds, BoundsAreNat
<1>9. QED
  BY <1>1, <1>2, <1>4, <1>6, <1>8, CallsAndReadersAreNat, ReaderStepsInBounds

\* A step that brings a reader to a later stage, or leaves the readers alone; the same
\* for the calls; and a step at which a reader ends.
LEMMA ReadersGoOn ==
  ASSUME \A k \in Readers : ReaderRank(reader'[k]) <= ReaderRank(reader[k])
  PROVE  /\ ReaderSteps' <= ReaderSteps
         /\ (\E k \in Readers : ReaderRank(reader'[k]) < ReaderRank(reader[k]))
              => ReaderSteps' <= ReaderSteps - 1
<1> DEFINE r == [k \in Readers |-> ReaderRank(reader[k])]
           q == [k \in Readers |-> ReaderRank(reader'[k])]
<1>1. r \in [Readers -> 0..6] /\ q \in [Readers -> 0..6]
  <2>1. \A s : ReaderRank(s) \in 0..6
    BY DEF ReaderRank
  <2>2. QED
    BY <2>1
<1>2. \A k \in Readers : r[k] = ReaderRank(reader[k]) /\ q[k] = ReaderRank(reader'[k])
  OBVIOUS
<1>3. ReaderSteps = StageCount(Readers, 6, r) /\ ReaderSteps' = StageCount(Readers, 6, q)
  BY DEF ReaderSteps, StageCount, Readers, ReaderRank
<1> HIDE DEF r, q
<1>4. QED
  BY <1>1, <1>2, <1>3, ReadersAreFinite, StagesFall

LEMMA ReadersEnd ==
  ASSUME \A k \in Readers : LiveRank(reader'[k]) <= LiveRank(reader[k])
  PROVE  /\ LiveReaders' <= LiveReaders
         /\ (\E k \in Readers : LiveRank(reader'[k]) < LiveRank(reader[k]))
              => LiveReaders' <= LiveReaders - 1
<1> DEFINE r == [k \in Readers |-> LiveRank(reader[k])]
           q == [k \in Readers |-> LiveRank(reader'[k])]
<1>1. r \in [Readers -> 0..1] /\ q \in [Readers -> 0..1]
  <2>1. \A s : LiveRank(s) \in 0..1
    BY DEF LiveRank
  <2>2. QED
    BY <2>1
<1>2. \A k \in Readers : r[k] = LiveRank(reader[k]) /\ q[k] = LiveRank(reader'[k])
  OBVIOUS
<1>3. LiveReaders = StageCount(Readers, 1, r) /\ LiveReaders' = StageCount(Readers, 1, q)
  BY DEF LiveReaders, StageCount, Readers, LiveRank
<1> HIDE DEF r, q
<1>4. QED
  BY <1>1, <1>2, <1>3, ReadersAreFinite, StagesFall

LEMMA CallsGoOn ==
  ASSUME \A k \in Readers : CallRank(call'[k]) <= CallRank(call[k])
  PROVE  /\ CallSteps' <= CallSteps
         /\ (\E k \in Readers : CallRank(call'[k]) < CallRank(call[k]))
              => CallSteps' <= CallSteps - 1
<1> DEFINE r == [k \in Readers |-> CallRank(call[k])]
           q == [k \in Readers |-> CallRank(call'[k])]
<1>1. r \in [Readers -> 0..3] /\ q \in [Readers -> 0..3]
  <2>1. \A s : CallRank(s) \in 0..3
    BY DEF CallRank
  <2>2. QED
    BY <2>1
<1>2. \A k \in Readers : r[k] = CallRank(call[k]) /\ q[k] = CallRank(call'[k])
  OBVIOUS
<1>3. CallSteps = StageCount(Readers, 3, r) /\ CallSteps' = StageCount(Readers, 3, q)
  BY DEF CallSteps, StageCount, Readers, CallRank
<1> HIDE DEF r, q
<1>4. QED
  BY <1>1, <1>2, <1>3, ReadersAreFinite, StagesFall

\* Every step of the job, the calls and the readers brings the request nearer to the
\* rest of which ReadersWaitOnlySo speaks: no race of timed out readers for off goes on
\* for ever. The two together are what ProducerReleased and ReaderEnds say, for every
\* value and every number of reads, and without an assumption on the order in which
\* goroutines run, but that some step is taken where one can be.
THEOREM ReadersGetNearer == Spec => [](StepsLeft \in Nat) /\ [][StepsLeft' < StepsLeft]_vars
<1>1. ASSUME IInv, IInv', OffInBounds, OffInBounds', Next PROVE StepsLeft' < StepsLeft
  <2> DEFINE a == LiveReaders    a1 == LiveReaders'
             b == RoundSteps     b1 == RoundSteps'
             c == CallSteps      c1 == CallSteps'
             p == ProducerSteps  p1 == ProducerSteps'
             d == MaxOff - off   d1 == (MaxOff - off)'
             r == ReaderSteps    r1 == ReaderSteps'
             v == MaxReaderSteps
             w == MaxRoundSteps
  <2>1. /\ a \in Nat /\ b \in Nat /\ c \in Nat /\ p \in Nat /\ d \in Nat /\ r \in Nat
        /\ a1 \in Nat /\ b1 \in Nat /\ c1 \in Nat /\ p1 \in Nat /\ d1 \in Nat /\ r1 \in Nat
        /\ r <= v /\ r1 <= v /\ b <= w /\ b1 <= w /\ v \in Nat /\ w \in Nat
    <3>1. (IInv /\ OffInBounds)' =>
            (/\ CallSteps \in Nat /\ LiveReaders \in Nat /\ ReaderSteps \in Nat /\ ProducerSteps \in Nat
             /\ MaxOff - off \in Nat /\ ReaderSteps <= MaxReaderSteps
             /\ RoundSteps \in Nat /\ RoundSteps <= MaxRoundSteps
             /\ StepsLeft \in Nat)'
      BY StepsAreNat, PTL
    <3>2. MaxReaderSteps' = MaxReaderSteps /\ MaxRoundSteps' = MaxRoundSteps
      BY DEF MaxReaderSteps, MaxRoundSteps, MaxOff
    <3>3. QED
      BY <1>1, <3>1, <3>2, StepsAreNat, BoundsAreNat
  <2>2. /\ b = (v + 1) * d + r /\ b1 = (v + 1) * d1 + r1
        /\ StepsLeft = (w + 1) * a + b + c + p /\ StepsLeft' = (w + 1) * a1 + b1 + c1 + p1
    BY DEF RoundSteps, StepsLeft, MaxRoundSteps, MaxReaderSteps, MaxOff
  <2>3. /\ call \in [Readers -> {"none", "waiting", "timedout", "ok", "error"}]
        /\ reader \in [Readers -> {"none", "checking", "reading", "copying", "counting",
                                   "rewinding", "ended", "panicked"}]
        /\ off \in Nat /\ next \in 1..P + 1 /\ P \in Nat
    BY <1>1, ContextAssumption DEF IInv, Types, Readers
  <2>4. /\ UNCHANGED off => d1 = d
        /\ UNCHANGED call => c1 <= c
        /\ UNCHANGED reader => a1 <= a /\ r1 <= r
        /\ UNCHANGED <<producer, closed, next>> => p1 = p
    <3>1. UNCHANGED off => d1 = d
      BY DEF MaxOff
    <3>2. UNCHANGED call => c1 <= c
      BY <2>3, CallsGoOn DEF CallRank
    <3>3. UNCHANGED reader => a1 <= a /\ r1 <= r
      BY <2>3, ReadersGoOn, ReadersEnd DEF ReaderRank, LiveRank
    <3>4. UNCHANGED <<producer, closed, next>> => p1 = p
      BY DEF ProducerSteps
    <3>5. QED
      BY <3>1, <3>2, <3>3, <3>4
  <2>5. ASSUME a1 <= a, d1 = d, r1 <= r, c1 <= c, p1 <= p, r1 + c1 + p1 <= r + c + p - 1
        PROVE  StepsLeft' < StepsLeft
    <3> HIDE DEF a, a1, b, b1, c, c1, p, p1, d, d1, r, r1, v, w
    <3>1. (w + 1) * a1 <= (w + 1) * a /\ (w + 1) * a1 \in Nat /\ (w + 1) * a \in Nat
      BY <2>1, <2>5, Outweighs
    <3>2. (v + 1) * d1 = (v + 1) * d /\ (v + 1) * d \in Nat
      BY <2>1, <2>5
    <3>3. QED
      BY <2>1, <2>2, <2>5, <3>1, <3>2
  <2>6. ASSUME a1 <= a, d1 <= d - 1, c1 <= c, p1 <= p PROVE StepsLeft' < StepsLeft
    <3> HIDE DEF a, a1, b, b1, c, c1, p, p1, d, d1, r, r1, v, w
    <3>1. (w + 1) * a1 <= (w + 1) * a /\ (w + 1) * a1 \in Nat /\ (w + 1) * a \in Nat
      BY <2>1, <2>6, Outweighs
    <3>2. (v + 1) * d1 + v + 1 <= (v + 1) * d /\ (v + 1) * d \in Nat /\ (v + 1) * d1 \in Nat
      BY <2>1, <2>6, Outweighs
    <3>3. QED
      BY <2>1, <2>2, <2>6, <3>1, <3>2
  <2>7. ASSUME a1 <= a - 1, c1 <= c, p1 <= p PROVE StepsLeft' < StepsLeft
    <3> HIDE DEF a, a1, b, b1, c, c1, p, p1, d, d1, r, r1, v, w
    <3>1. (w + 1) * a1 + w + 1 <= (w + 1) * a /\ (w + 1) * a1 \in Nat /\ (w + 1) * a \in Nat
      BY <2>1, <2>7, Outweighs
    <3>2. QED
      BY <2>1, <2>2, <2>7, <3>1
  <2>8. CASE Produce \/ Close
    <3>1. UNCHANGED <<off, call, reader>>
      BY <2>8 DEF Produce, Close, valueVars, readerVars
    <3>2. p1 <= p - 1
      <4>1. /\ next' = next
            /\ \/ /\ producer = "queued" /\ producer' \in {"writing", "closing", "done"}
               \/ producer = "closing" /\ ~closed /\ closed' /\ producer' = producer
               \/ producer = "closing" /\ closed /\ producer' = "done"
        BY <2>8 DEF Produce, Close
      <4>2. QED
        BY <2>3, <4>1 DEF ProducerSteps, ProducerRank
    <3>3. a1 <= a /\ d1 = d /\ r1 <= r /\ c1 <= c
      BY <2>4, <3>1
    <3> HIDE DEF a, a1, b, b1, c, c1, p, p1, d, d1, r, r1, v, w
    <3>4. r1 + c1 + p1 <= r + c + p - 1 /\ p1 <= p
      BY <2>1, <3>2, <3>3
    <3>5. QED
      BY <2>5, <3>3, <3>4
  <2>9. ASSUME NEW k \in Readers, TakePiece(k) PROVE StepsLeft' < StepsLeft
    <3>1. UNCHANGED <<off, call, reader>>
      BY <2>9 DEF TakePiece, valueVars
    <3>2. p1 <= p - 1
      <4>1. /\ next' = next + 1 /\ closed' = closed
            /\ producer = "writing" /\ producer' \in {"writing", "closing"}
        BY <2>9 DEF TakePiece, valueVars
      <4>2. QED
        BY <2>3, <4>1 DEF ProducerSteps, ProducerRank
    <3>3. a1 <= a /\ d1 = d /\ r1 <= r /\ c1 <= c
      BY <2>4, <3>1
    <3> HIDE DEF a, a1, b, b1, c, c1, p, p1, d, d1, r, r1, v, w
    <3>4. r1 + c1 + p1 <= r + c + p - 1 /\ p1 <= p
      BY <2>1, <3>2, <3>3
    <3>5. QED
      BY <2>5, <3>3, <3>4
  <2>10. ASSUME NEW k \in Readers,
                FromContext(k) \/ Answer(k) \/ Timeout(k) \/ ReturnAfterTimeout(k)
         PROVE  StepsLeft' < StepsLeft
    <3>1. UNCHANGED <<producer, closed, next, off>>
      BY <2>10 DEF FromContext, Answer, Timeout, ReturnAfterTimeout, producerVars, valueVars
    <3>2. c1 <= c - 1
      <4>1. \/ call[k] = "none" /\ call' = [call EXCEPT ![k] = "waiting"]
            \/ call[k] = "waiting"
               /\ \E s \in {"ok", "error", "timedout"} : call' = [call EXCEPT ![k] = s]
            \/ call[k] = "timedout"
               /\ \E s \in {"ok", "error"} : call' = [call EXCEPT ![k] = s]
        BY <2>10 DEF FromContext, Answer, Timeout, ReturnAfterTimeout
      <4>2. /\ \A m \in Readers : CallRank(call'[m]) <= CallRank(call[m])
            /\ CallRank(call'[k]) < CallRank(call[k])
        BY <2>3, <4>1 DEF CallRank
      <4>3. QED
        BY <4>2, CallsGoOn
    <3>3. a1 <= a /\ r1 <= r
      <4>1. \/ reader' = reader
            \/ reader[k] = "none" /\ reader' = [reader EXCEPT ![k] = "checking"]
        BY <1>1, <2>10 DEF FromContext, Answer, Timeout, ReturnAfterTimeout, readerVars,
                           IInv, CallsAndReaders, Readers
      <4>2. /\ \A m \in Readers : ReaderRank(reader'[m]) <= ReaderRank(reader[m])
            /\ \A m \in Readers : LiveRank(reader'[m]) <= LiveRank(reader[m])
        BY <2>3, <4>1 DEF ReaderRank, LiveRank
      <4>3. QED
        BY <4>2, ReadersGoOn, ReadersEnd
    <3>4. d1 = d /\ p1 = p
      BY <2>4, <3>1
    <3> HIDE DEF a, a1, b, b1, c, c1, p, p1, d, d1, r, r1, v, w
    <3>5. r1 + c1 + p1 <= r + c + p - 1 /\ p1 <= p /\ c1 <= c
      BY <2>1, <3>2, <3>3, <3>4
    <3>6. QED
      BY <2>5, <3>3, <3>4, <3>5
  <2>11. ASSUME NEW k \in Readers, Check(k) \/ KeepValue(k) \/ Copy(k)
         PROVE  StepsLeft' < StepsLeft
    <3>1. UNCHANGED <<producer, closed, next, off, call>>
      BY <2>11 DEF Check, KeepValue, Copy, producerVars, valueVars
    <3>2. \/ /\ reader[k] = "checking"
             /\ \E s \in {"reading", "copying"} : reader' = [reader EXCEPT ![k] = s]
          \/ reader[k] = "reading" /\ reader' = [reader EXCEPT ![k] = "copying"]
          \/ /\ reader[k] = "copying"
             /\ \E s \in {"panicked", "counting"} : reader' = [reader EXCEPT ![k] = s]
      BY <2>11 DEF Check, KeepValue, Copy
    <3>3. /\ \A m \in Readers : ReaderRank(reader'[m]) <= ReaderRank(reader[m])
          /\ ReaderRank(reader'[k]) < ReaderRank(reader[k])
          /\ \A m \in Readers : LiveRank(reader'[m]) <= LiveRank(reader[m])
      BY <2>3, <3>2 DEF ReaderRank, LiveRank
    <3>4. r1 <= r - 1 /\ a1 <= a
      BY <3>3, ReadersGoOn, ReadersEnd
    <3>5. d1 = d /\ p1 = p /\ c1 <= c
      BY <2>4, <3>1
    <3> HIDE DEF a, a1, b, b1, c, c1, p, p1, d, d1, r, r1, v, w
    <3>6. r1 + c1 + p1 <= r + c + p - 1 /\ r1 <= r /\ p1 <= p
      BY <2>1, <3>4, <3>5
    <3>7. QED
      BY <2>5, <3>4, <3>5, <3>6
  <2>12. ASSUME NEW k \in Readers, Count(k) PROVE StepsLeft' < StepsLeft
    <3>1. UNCHANGED <<producer, closed, next, call>>
      BY <2>12 DEF Count, producerVars
    <3>2. c1 <= c /\ p1 = p
      BY <2>4, <3>1
    <3>3. p1 <= p
      BY <2>1, <3>2
    <3>4. \A m \in Readers : LiveRank(reader'[m]) <= LiveRank(reader[m])
      BY <2>3, <2>12 DEF LiveRank, Count
    <3>5. a1 <= a
      BY <3>4, ReadersEnd
    <3>6. n[k] \in {0, 1} /\ off' = off + n[k]
      BY <1>1, <2>12 DEF Count, IInv, Types, Readers
    <3>7. CASE n[k] = 1
      <4>1. d1 <= d - 1
        BY <2>3, <3>6, <3>7, BoundsAreNat DEF MaxOff
      <4>2. QED
        BY <2>6, <3>2, <3>3, <3>5, <4>1
    <3>8. CASE n[k] = 0
      <4>1. reader[k] = "counting" /\ reader' = [reader EXCEPT ![k] = "rewinding"]
        BY <2>12, <3>8 DEF Count
      <4>2. /\ \A m \in Readers : ReaderRank(reader'[m]) <= ReaderRank(reader[m])
            /\ ReaderRank(reader'[k]) < ReaderRank(reader[k])
        BY <2>3, <4>1 DEF ReaderRank
      <4>3. r1 <= r - 1
        BY <4>2, ReadersGoOn
      <4>4. off' = off
        BY <2>3, <3>6, <3>8
      <4>5. d1 = d
        BY <2>4, <4>4
      <4> HIDE DEF a, a1, b, b1, c, c1, p, p1, d, d1, r, r1, v, w
      <4>6. r1 + c1 + p1 <= r + c + p - 1 /\ r1 <= r
        BY <2>1, <3>2, <3>3, <4>3
      <4>7. QED
        BY <2>5, <3>2, <3>3, <3>5, <4>5, <4>6
    <3>9. QED
      BY <3>6, <3>7, <3>8
  <2>13. ASSUME NEW k \in Readers, Rewind(k) PROVE StepsLeft' < StepsLeft
    <3>1. UNCHANGED <<producer, closed, next, call>>
      BY <2>13 DEF Rewind, producerVars
    <3>2. c1 <= c /\ p1 = p
      BY <2>4, <3>1
    <3>3. p1 <= p
      BY <2>1, <3>2
    <3>4. /\ \A m \in Readers : LiveRank(reader'[m]) <= LiveRank(reader[m])
          /\ LiveRank(reader'[k]) < LiveRank(reader[k])
      BY <2>3, <2>13 DEF LiveRank, Rewind
    <3>5. a1 <= a - 1
      BY <3>4, ReadersEnd
    <3>6. QED
      BY <2>7, <3>2, <3>3, <3>5
  <2>14. QED
    BY <1>1, <2>8, <2>9, <2>10, <2>11, <2>12, <2>13 DEF Next, ReaderNext, Readers
<1>2. /\ IInv /\ IInv' /\ OffInBounds /\ OffInBounds' /\ [Next]_vars
           => [StepsLeft' < StepsLeft]_vars
      /\ IInv /\ OffInBounds => StepsLeft \in Nat
  BY <1>1, StepsAreNat
<1>3. QED
  BY <1>2, Invariance, OffInvariance, PTL DEF Spec
=============================================================================
