---------------------------- MODULE UploadProofs ----------------------------
(***************************************************************************)
(* Upload for any number of parts of any numbers of chunks, on any workers:*)
(* no job writes to a closed file, a request is passed on when nothing of  *)
(* its upload is under way, and an upload that was not disturbed is stored *)
(* without a hole.                                                         *)
(***************************************************************************)
EXTENDS Upload, FiniteSetTheorems, WellFoundedInduction, TLAPS

\* TypeOK without the flags and the counts, which have proofs of their own.
Values ==
  /\ status \in [Jobs -> {"new", "accepted", "running", "done"}]
  /\ slot \in [Workers -> Jobs \union {NoJob}]
  /\ serve \in {"checking", "waiting", "next", "failed"}
  /\ f \in {"idle", "parts", "values", "opening", "copying", "closing", "sent", "crashed"}
  /\ part \in 0..NumParts
  /\ chunk \in Nat
  /\ result \in {"none", "ok", "error"}
  /\ file \in [Parts -> {"none", "open", "nil", "closed"}]
  /\ written \in [Jobs -> {"no", "yes", "failed"}]
  /\ content \in [Places -> Parts \union {Nothing}]

Flags == cancelled \in BOOLEAN /\ cut \in BOOLEAN

UnderWay(s) == s \in {"accepted", "running"}

\* The chunks of a part that the Dispatcher has.
Pending(st, p) == {c \in 1..NumChunks[p] : UnderWay(st[<<p, c>>])}

Counted ==
  /\ wg \in [Parts -> Nat]
  /\ \A p \in Parts : wg[p] = Cardinality(Pending(status, p))

\* handle works on one part after the other: the files of the later ones, and of
\* the one whose values it waits for, are not opened yet.
PartsInOrder ==
  /\ f \in {"values", "opening", "copying"} => part \in Parts
  /\ f = "copying" => chunk < NumChunks[part]
  /\ \A p \in Parts : p > part => file[p] = "none"
  /\ f \in {"values", "opening"} => file[part] = "none"

\* How ServeHTTP and handle stand to each other.
Stages ==
  /\ serve = "checking" => f = "idle"
  /\ f \in {"idle", "parts", "values", "opening", "copying"} => result = "none"
  /\ f = "idle" => part = 0
  /\ f = "sent" => Unclosed = {}
  /\ serve = "next" => f = "sent" /\ result = "ok"

\* As long as the body is whole, no chunk of a part that handle is done with is
\* left out; a result of "ok" says that it is done with all of them.
Behind(j) ==
  \/ j[1] < part
  \/ j[1] = part /\ f = "parts"
  \/ j[1] = part /\ f = "copying" /\ j[2] <= chunk
  \/ result = "ok"

NoneLeftOut == \A j \in Jobs : Behind(j) => status[j] # "new"

AddedSoFar == ~cut => NoneLeftOut

\* What a job has done is in the file, in a place where it belongs.
WrittenIsThere ==
  /\ \A j \in Jobs : status[j] = "done" => written[j] # "no"
  /\ \A j \in Jobs : written[j] = "yes" => content[j[2]] # Nothing
  /\ \A c \in Places : content[c] # Nothing => c <= NumChunks[content[c]]

\* The inductive invariant.
IInv ==
  /\ Values /\ Flags /\ Counted /\ PartsInOrder /\ Stages /\ JobsHaveOpenFile
  /\ AddedSoFar /\ WrittenIsThere

-----------------------------------------------------------------------------
(* Jobs are pairs of a part and one of its chunks.                          *)

LEMMA JobIsPair ==
  ASSUME NEW j \in Jobs
  PROVE  /\ j[1] \in Parts /\ j[2] \in 1..NumChunks[j[1]] /\ j = <<j[1], j[2]>>
         /\ j[2] \in Places
  BY DEF Jobs, Places

LEMMA PairIsJob ==
  ASSUME NEW p \in Parts, NEW c \in 1..NumChunks[p]
  PROVE  <<p, c>> \in Jobs
  BY DEF Jobs

LEMMA PlaceHasJob ==
  ASSUME NEW c \in Places
  PROVE  \E p \in Parts : c \in 1..NumChunks[p]
  BY DEF Places

LEMMA PendingIsFinite ==
  ASSUME NEW st, NEW p \in Parts
  PROVE  IsFiniteSet(Pending(st, p)) /\ Cardinality(Pending(st, p)) \in Nat
<1>1. NumChunks[p] \in Int /\ 1 \in Int
  BY UploadAssumption
<1>2. IsFiniteSet(1..NumChunks[p])
  BY <1>1, FS_Interval
<1>3. IsFiniteSet(Pending(st, p))
  BY <1>2, FS_Subset DEF Pending
<1>4. QED
  BY <1>3, FS_CardinalityType

\* One more job of its part, and of no other, when a job gets under way.
LEMMA PendingGrows ==
  ASSUME NEW st, NEW su, NEW j \in Jobs, ~UnderWay(st[j]), UnderWay(su[j]),
         \A i \in Jobs \ {j} : su[i] = st[i], NEW p \in Parts
  PROVE  Cardinality(Pending(su, p)) =
           IF p = j[1] THEN Cardinality(Pending(st, p)) + 1 ELSE Cardinality(Pending(st, p))
<1>1. CASE p = j[1]
  <2>1. Pending(su, p) = Pending(st, p) \cup {j[2]} /\ j[2] \notin Pending(st, p)
    BY <1>1, JobIsPair, PairIsJob DEF Pending
  <2>2. IsFiniteSet(Pending(st, p))
    BY PendingIsFinite
  <2>3. Cardinality(Pending(su, p)) = Cardinality(Pending(st, p)) + 1
    BY <2>1, <2>2, FS_AddElement
  <2>4. QED
    BY <1>1, <2>3
<1>2. CASE p # j[1]
  <2>1. Pending(su, p) = Pending(st, p)
    BY <1>2, JobIsPair, PairIsJob DEF Pending
  <2>2. QED
    BY <1>2, <2>1
<1>3. QED
  BY <1>1, <1>2

LEMMA PendingShrinks ==
  ASSUME NEW st, NEW su, NEW j \in Jobs, UnderWay(st[j]), ~UnderWay(su[j]),
         \A i \in Jobs \ {j} : su[i] = st[i], NEW p \in Parts
  PROVE  Cardinality(Pending(su, p)) =
           IF p = j[1] THEN Cardinality(Pending(st, p)) - 1 ELSE Cardinality(Pending(st, p))
<1>1. CASE p = j[1]
  <2>1. Pending(su, p) = Pending(st, p) \ {j[2]} /\ j[2] \in Pending(st, p)
    BY <1>1, JobIsPair, PairIsJob DEF Pending
  <2>2. IsFiniteSet(Pending(st, p))
    BY PendingIsFinite
  <2>3. Cardinality(Pending(su, p)) = Cardinality(Pending(st, p)) - 1
    BY <2>1, <2>2, FS_RemoveElement
  <2>4. QED
    BY <1>1, <2>3
<1>2. CASE p # j[1]
  <2>1. Pending(su, p) = Pending(st, p)
    BY <1>2, JobIsPair, PairIsJob DEF Pending
  <2>2. QED
    BY <1>2, <2>1
<1>3. QED
  BY <1>1, <1>2

LEMMA PendingSame ==
  ASSUME NEW st, NEW su, \A i \in Jobs : UnderWay(su[i]) <=> UnderWay(st[i]), NEW p \in Parts
  PROVE  Pending(su, p) = Pending(st, p)
  BY PairIsJob DEF Pending

\* A file whose WaitGroup is at zero has no job under way.
LEMMA NoneIsPending ==
  ASSUME Counted, NEW p \in Parts, wg[p] = 0, NEW j \in Jobs, j[1] = p
  PROVE  ~UnderWay(status[j])
<1>1. Pending(status, p) = {}
  BY PendingIsFinite, FS_EmptySet DEF Counted
<1>2. QED
  BY <1>1, JobIsPair DEF Pending

-----------------------------------------------------------------------------
(* The invariant holds at the start.                                        *)

LEMMA InitIInv == Init => IInv
<1> SUFFICES ASSUME Init PROVE IInv
  OBVIOUS
<1>1. Flags
  BY DEF Init, Flags
<1>2. Values
  BY UploadAssumption DEF Init, Pool!Init, Values
<1>3. Counted
  <2>1. \A p \in Parts : Pending(status, p) = {}
    BY PairIsJob DEF Init, Pool!Init, Pending, UnderWay
  <2>2. \A p \in Parts : wg[p] = 0
    BY DEF Init
  <2>3. wg \in [Parts -> Nat]
    BY DEF Init
  <2>4. QED
    BY <2>1, <2>2, <2>3, FS_EmptySet DEF Counted
<1>4. PartsInOrder /\ Stages
  BY DEF Init, PartsInOrder, Stages
<1>5. JobsHaveOpenFile
  BY DEF Init, Pool!Init, JobsHaveOpenFile
<1>6. AddedSoFar
  <2>1. part = 0 /\ f = "idle" /\ result = "none"
    BY DEF Init
  <2>2. \A j \in Jobs : j[1] \in Parts
    BY JobIsPair
  <2>3. QED
    BY <2>1, <2>2 DEF AddedSoFar, NoneLeftOut, Behind, Parts
<1>7. WrittenIsThere
  BY JobIsPair DEF Init, Pool!Init, WrittenIsThere
<1>8. QED
  BY <1>1, <1>2, <1>3, <1>4, <1>5, <1>6, <1>7 DEF IInv

-----------------------------------------------------------------------------
(* Each step keeps it.                                                      *)

LEMMA FlagsStep == Flags /\ [Next]_vars => Flags'
<1> SUFFICES ASSUME Flags, [Next]_vars PROVE Flags'
  OBVIOUS
<1> USE DEF Flags, requestVars
<1>1. CASE Cancel \/ Cut \/ CheckContext \/ Return
  BY <1>1 DEF Cancel, Cut, CheckContext, Return
<1>2. CASE NextPart \/ GetValues \/ Open \/ AddChunk \/ AddChunkToNil \/ CopyFails
  BY <1>2 DEF NextPart, GetValues, Open, AddChunk, AddChunkToNil, CopyFails
<1>3. CASE CloseFile \/ SendResult
  BY <1>3 DEF CloseFile, SendResult
<1>4. ASSUME NEW j \in Jobs, StartJob(j) \/ WriteAt(j) \/ FinishJob(j) PROVE Flags'
  BY <1>4 DEF StartJob, WriteAt, FinishJob
<1>5. CASE UNCHANGED vars
  BY <1>5 DEF vars
<1>6. QED
  BY <1>1, <1>2, <1>3, <1>4, <1>5 DEF Next

\* The job that AddChunk gives to the Dispatcher, one that it did not have.
LEMMA AddedJob ==
  ASSUME IInv, AddChunk
  PROVE  /\ part \in Parts
         /\ <<part, chunk + 1>> \in Jobs
         /\ status[<<part, chunk + 1>>] = "new"
         /\ status' = [status EXCEPT ![<<part, chunk + 1>>] = "accepted"]
<1>1. part \in Parts /\ chunk < NumChunks[part] /\ chunk \in Nat
  BY DEF IInv, PartsInOrder, Values, AddChunk
<1>2. chunk + 1 \in 1..NumChunks[part]
  BY <1>1, UploadAssumption
<1>3. QED
  BY <1>1, <1>2, PairIsJob DEF AddChunk, Pool!Accept

LEMMA ValuesStep == IInv /\ [Next]_vars => Values'
<1> SUFFICES ASSUME IInv, [Next]_vars PROVE Values'
  OBVIOUS
<1> USE UploadAssumption DEF Values, requestVars, handleVars
<1>0. Values /\ PartsInOrder
  BY DEF IInv
<1>1. CASE Cancel \/ Cut \/ CheckContext \/ Return
  BY <1>0, <1>1 DEF Cancel, Cut, CheckContext, Return
<1>2. CASE NextPart \/ GetValues
  BY <1>0, <1>2 DEF NextPart, GetValues, Parts
<1>3. CASE Open
  BY <1>0, <1>3 DEF Open
<1>4. CASE AddChunk
  <2>1. status' \in [Jobs -> {"new", "accepted", "running", "done"}]
    BY <1>0, <1>4, AddedJob
  <2>2. UNCHANGED <<slot, serve, part, result, file, written, content>>
    BY <1>4 DEF AddChunk, Pool!Accept
  <2>3. f' \in {"parts", "copying"} /\ chunk' = chunk + 1
    BY <1>4 DEF AddChunk
  <2>4. QED
    BY <1>0, <2>1, <2>2, <2>3
<1>5. CASE AddChunkToNil \/ CopyFails \/ CloseFile \/ SendResult
  BY <1>0, <1>5 DEF AddChunkToNil, CopyFails, CloseFile, SendResult
<1>6. ASSUME NEW j \in Jobs, StartJob(j) PROVE Values'
  BY <1>0, <1>6 DEF StartJob, Pool!Start
<1>7. ASSUME NEW j \in Jobs, WriteAt(j) PROVE Values'
  BY <1>0, <1>7, JobIsPair DEF WriteAt
<1>8. ASSUME NEW j \in Jobs, FinishJob(j) PROVE Values'
  BY <1>0, <1>8 DEF FinishJob, Pool!Finish
<1>9. CASE UNCHANGED vars
  BY <1>0, <1>9 DEF vars
<1>10. QED
  BY <1>1, <1>2, <1>3, <1>4, <1>5, <1>6, <1>7, <1>8, <1>9 DEF Next

LEMMA CountStep == IInv /\ [Next]_vars => Counted'
<1> SUFFICES ASSUME IInv, [Next]_vars PROVE Counted'
  OBVIOUS
<1>0. Values /\ Counted
  BY DEF IInv
<1>1. ASSUME UNCHANGED <<status, wg>> PROVE Counted'
  BY <1>0, <1>1 DEF Counted
<1>2. CASE Cancel \/ Cut \/ CheckContext \/ Return \/ NextPart \/ GetValues \/ Open
  BY <1>1, <1>2 DEF Cancel, Cut, CheckContext, Return, NextPart, GetValues, Open
<1>3. CASE AddChunk
  <2>1. /\ part \in Parts /\ <<part, chunk + 1>> \in Jobs
        /\ ~UnderWay(status[<<part, chunk + 1>>]) /\ UnderWay(status'[<<part, chunk + 1>>])
        /\ \A i \in Jobs \ {<<part, chunk + 1>>} : status'[i] = status[i]
    BY <1>0, <1>3, AddedJob DEF Values, UnderWay
  <2>2. \A p \in Parts :
          Cardinality(Pending(status', p)) =
            IF p = part THEN Cardinality(Pending(status, p)) + 1
            ELSE Cardinality(Pending(status, p))
    BY <2>1, PendingGrows
  <2>3. wg' = [wg EXCEPT ![part] = @ + 1]
    BY <1>3 DEF AddChunk
  <2>4. QED
    BY <1>0, <2>1, <2>2, <2>3 DEF Counted
<1>4. CASE AddChunkToNil \/ CopyFails \/ CloseFile \/ SendResult
  BY <1>1, <1>4 DEF AddChunkToNil, CopyFails, CloseFile, SendResult
<1>5. ASSUME NEW j \in Jobs, StartJob(j) PROVE Counted'
  <2>1. \A i \in Jobs : UnderWay(status'[i]) <=> UnderWay(status[i])
    BY <1>0, <1>5 DEF Values, StartJob, Pool!Start, UnderWay
  <2>2. \A p \in Parts : Pending(status', p) = Pending(status, p)
    BY <2>1, PendingSame
  <2>3. wg' = wg
    BY <1>5 DEF StartJob
  <2>4. QED
    BY <1>0, <2>2, <2>3 DEF Counted
<1>6. ASSUME NEW j \in Jobs, WriteAt(j) PROVE Counted'
  BY <1>1, <1>6 DEF WriteAt
<1>7. ASSUME NEW j \in Jobs, FinishJob(j) PROVE Counted'
  <2>1. /\ UnderWay(status[j]) /\ ~UnderWay(status'[j])
        /\ \A i \in Jobs \ {j} : status'[i] = status[i]
    BY <1>0, <1>7 DEF Values, FinishJob, Pool!Finish, UnderWay
  <2>2. \A p \in Parts :
          Cardinality(Pending(status', p)) =
            IF p = j[1] THEN Cardinality(Pending(status, p)) - 1
            ELSE Cardinality(Pending(status, p))
    BY <2>1, PendingShrinks
  <2>3. wg' = [wg EXCEPT ![j[1]] = @ - 1] /\ j[1] \in Parts
    BY <1>7, JobIsPair DEF FinishJob
  <2>4. \A p \in Parts : Cardinality(Pending(status', p)) \in Nat
    BY PendingIsFinite
  <2>5. \A p \in Parts : wg'[p] = Cardinality(Pending(status', p))
    BY <1>0, <2>2, <2>3 DEF Counted
  <2>6. wg' \in [Parts -> Nat]
    BY <1>0, <2>3, <2>4, <2>5 DEF Counted
  <2>7. QED
    BY <2>5, <2>6 DEF Counted
<1>8. CASE UNCHANGED vars
  BY <1>1, <1>8 DEF vars
<1>9. QED
  BY <1>2, <1>3, <1>4, <1>5, <1>6, <1>7, <1>8 DEF Next

LEMMA OrderStep == IInv /\ [Next]_vars => PartsInOrder' /\ Stages'
<1> SUFFICES ASSUME IInv, [Next]_vars PROVE PartsInOrder' /\ Stages'
  OBVIOUS
<1> USE UploadAssumption DEF PartsInOrder, Stages, Unclosed, handleVars, requestVars
<1>0. Values /\ PartsInOrder /\ Stages
  BY DEF IInv
<1>1. CASE Cancel \/ Cut
  BY <1>0, <1>1 DEF Cancel, Cut
<1>2. CASE CheckContext \/ Return
  BY <1>0, <1>2 DEF CheckContext, Return
<1>3. CASE NextPart
  BY <1>0, <1>3 DEF NextPart, Values, Parts
<1>4. CASE GetValues
  BY <1>0, <1>4 DEF GetValues
<1>5. CASE Open
  BY <1>0, <1>5 DEF Open, Values, Parts
<1>6. CASE AddChunk
  BY <1>0, <1>6 DEF AddChunk, Values
<1>7. CASE AddChunkToNil \/ CopyFails
  BY <1>0, <1>7 DEF AddChunkToNil, CopyFails
<1>8. CASE CloseFile
  BY <1>0, <1>8 DEF CloseFile, Values
<1>9. CASE SendResult
  BY <1>0, <1>9 DEF SendResult
<1>10. ASSUME NEW j \in Jobs, StartJob(j) \/ WriteAt(j) \/ FinishJob(j)
       PROVE  PartsInOrder' /\ Stages'
  <2>1. UNCHANGED <<requestVars, handleVars, file>>
    BY <1>10 DEF StartJob, WriteAt, FinishJob
  <2>2. QED
    BY <1>0, <2>1
<1>11. CASE UNCHANGED vars
  BY <1>0, <1>11 DEF vars
<1>12. QED
  BY <1>1, <1>2, <1>3, <1>4, <1>5, <1>6, <1>7, <1>8, <1>9, <1>10, <1>11 DEF Next

\* Only Open and CloseFile touch files: the one opens a file that was not opened
\* before, the other one closes a file when it has no job under way.
LEMMA OpenFileStep == IInv /\ [Next]_vars => JobsHaveOpenFile'
<1> SUFFICES ASSUME IInv, [Next]_vars PROVE JobsHaveOpenFile'
  OBVIOUS
<1> USE DEF JobsHaveOpenFile
<1>0. Values /\ JobsHaveOpenFile
  BY DEF IInv
<1>1. ASSUME UNCHANGED <<status, file>> PROVE JobsHaveOpenFile'
  BY <1>0, <1>1
<1>2. CASE Cancel \/ Cut \/ CheckContext \/ Return \/ NextPart \/ GetValues
  BY <1>1, <1>2 DEF Cancel, Cut, CheckContext, Return, NextPart, GetValues
<1>3. CASE Open
  <2>1. file[part] = "none" /\ part \in Parts
    BY <1>3 DEF IInv, PartsInOrder, Open
  <2>2. \A j \in Jobs : j[1] \in Parts /\ (file[j[1]] = "open" => file'[j[1]] = "open")
    BY <1>0, <1>3, <2>1, JobIsPair DEF Open, Values
  <2>3. status' = status
    BY <1>3 DEF Open
  <2>4. QED
    BY <1>0, <2>2, <2>3
<1>4. CASE AddChunk
  BY <1>0, <1>4, AddedJob DEF AddChunk, Values
<1>5. CASE AddChunkToNil \/ CopyFails \/ SendResult
  BY <1>1, <1>5 DEF AddChunkToNil, CopyFails, SendResult
<1>6. CASE CloseFile
  <2>1. PICK p \in Unclosed : wg[p] = 0 /\ file' = [file EXCEPT ![p] = "closed"]
    BY <1>6 DEF CloseFile
  <2>2. p \in Parts /\ Counted
    BY DEF Unclosed, IInv
  <2>3. \A j \in Jobs : j[1] = p => ~UnderWay(status[j])
    BY <2>1, <2>2, NoneIsPending
  <2>4. status' = status
    BY <1>6 DEF CloseFile
  <2>5. QED
    BY <1>0, <2>1, <2>3, <2>4, JobIsPair DEF Values, UnderWay
<1>7. ASSUME NEW j \in Jobs, StartJob(j) PROVE JobsHaveOpenFile'
  BY <1>0, <1>7 DEF StartJob, Pool!Start, Values
<1>8. ASSUME NEW j \in Jobs, WriteAt(j) PROVE JobsHaveOpenFile'
  BY <1>1, <1>8 DEF WriteAt
<1>9. ASSUME NEW j \in Jobs, FinishJob(j) PROVE JobsHaveOpenFile'
  BY <1>0, <1>9 DEF FinishJob, Pool!Finish, Values
<1>10. CASE UNCHANGED vars
  BY <1>1, <1>10 DEF vars
<1>11. QED
  BY <1>2, <1>3, <1>4, <1>5, <1>6, <1>7, <1>8, <1>9, <1>10 DEF Next

LEMMA AddedStep == IInv /\ [Next]_vars => AddedSoFar'
<1> SUFFICES ASSUME IInv, [Next]_vars, ~cut' PROVE NoneLeftOut'
  BY DEF AddedSoFar
<1>cut. ~cut
  <2>1. ASSUME NEW j \in Jobs, StartJob(j) \/ WriteAt(j) \/ FinishJob(j) PROVE cut' = cut
    BY <2>1 DEF StartJob, WriteAt, FinishJob, requestVars
  <2>2. (\E j \in Jobs : StartJob(j) \/ WriteAt(j) \/ FinishJob(j)) => cut' = cut
    BY <2>1
  <2>3. Cut => cut'
    BY DEF Cut
  <2>4. QED
    BY <2>2, <2>3 DEF Next, vars, requestVars, Cancel, CheckContext, Return, NextPart, GetValues,
       Open, AddChunk, AddChunkToNil, CopyFails, CloseFile, SendResult
<1>0. Values /\ PartsInOrder /\ Stages /\ NoneLeftOut
  BY <1>cut DEF IInv, AddedSoFar
<1> USE DEF NoneLeftOut, Behind
<1>1. CASE Cancel \/ Cut \/ CheckContext \/ Return
  <2>1. f = "idle" => \A j \in Jobs : ~(j[1] < part \/ j[1] = part)
    BY <1>0, JobIsPair DEF Stages, Parts
  <2>2. QED
    BY <1>0, <1>1, <2>1 DEF Cancel, Cut, CheckContext, Return, Stages, handleVars
<1>2. CASE NextPart
  <2>1. \A j \in Jobs : j[1] \in Nat /\ j[1] <= NumParts
    BY JobIsPair, UploadAssumption DEF Parts
  <2>2. part \in Nat /\ NumParts \in Nat /\ part <= NumParts
    BY <1>0, UploadAssumption DEF Values
  <2>3. f = "parts" /\ result = "none" /\ status' = status
    BY <1>0, <1>2 DEF Stages, NextPart
  <2>4. \A j \in Jobs : j[1] <= part => status[j] # "new"
    BY <1>0, <2>1, <2>2, <2>3
  <2>5. \/ part' = part + 1 /\ f' = "values" /\ result' = result
        \/ part = NumParts /\ part' = part
    BY <1>2, <1>cut, <2>2 DEF NextPart
  <2>6. CASE part' = part + 1 /\ f' = "values" /\ result' = result
    BY <2>1, <2>2, <2>3, <2>4, <2>6
  <2>7. CASE part = NumParts /\ part' = part
    BY <2>1, <2>2, <2>3, <2>4, <2>7
  <2>8. QED
    BY <2>5, <2>6, <2>7
<1>3. CASE GetValues \/ Open
  <2>1. \A j \in Jobs : j[2] >= 1 /\ j[2] \in Nat
    BY JobIsPair, UploadAssumption
  <2>2. part' = part /\ status' = status /\ result' # "ok"
    BY <1>0, <1>3 DEF GetValues, Open, Stages
  <2>3. f' # "parts" /\ (f' = "copying" => chunk' = 0)
    BY <1>3 DEF GetValues, Open
  <2>4. QED
    BY <1>0, <2>1, <2>2, <2>3
<1>4. CASE AddChunk
  <2>1. /\ <<part, chunk + 1>> \in Jobs /\ result = "none" /\ result' = result
        /\ part' = part /\ chunk' = chunk + 1
        /\ status' = [status EXCEPT ![<<part, chunk + 1>>] = "accepted"]
        /\ f = "copying" /\ f' = IF chunk + 1 = NumChunks[part] THEN "parts" ELSE "copying"
    BY <1>0, <1>4, AddedJob DEF AddChunk, Values, Stages
  <2>2. \A j \in Jobs : status[j] # "new" => status'[j] # "new"
    BY <1>0, <2>1 DEF Values
  <2>3. chunk \in Nat /\ part \in Nat
    BY <1>0, UploadAssumption DEF Values
  <2>4. ASSUME NEW j \in Jobs, j[1] = part, j[2] <= chunk + 1
        PROVE  status'[j] # "new"
    <3>1. j = <<part, j[2]>> /\ j[2] \in Nat
      BY <2>4, JobIsPair, UploadAssumption
    <3>2. CASE j[2] <= chunk
      BY <1>0, <2>1, <2>2, <2>4, <3>2
    <3>3. CASE j[2] = chunk + 1
      <4>1. j = <<part, chunk + 1>>
        BY <3>1, <3>3
      <4>2. status'[<<part, chunk + 1>>] = "accepted"
        BY <1>0, <2>1 DEF Values
      <4>3. QED
        BY <4>1, <4>2
    <3>4. QED
      BY <2>3, <2>4, <3>1, <3>2, <3>3
  <2>5. \A j \in Jobs : j[1] = part /\ f' = "parts" => j[2] <= chunk + 1
    BY <2>1, JobIsPair, UploadAssumption
  <2>6. QED
    BY <1>0, <2>1, <2>2, <2>4, <2>5
<1>5. CASE AddChunkToNil \/ CloseFile \/ SendResult
  BY <1>0, <1>5 DEF AddChunkToNil, CloseFile, SendResult, handleVars
<1>6. CASE CopyFails
  BY <1>cut, <1>6 DEF CopyFails
<1>7. ASSUME NEW j \in Jobs, StartJob(j) \/ WriteAt(j) \/ FinishJob(j) PROVE NoneLeftOut'
  <2>1. \A i \in Jobs : status[i] # "new" => status'[i] # "new"
    BY <1>0, <1>7 DEF StartJob, WriteAt, FinishJob, Pool!Start, Pool!Finish, Values
  <2>2. UNCHANGED handleVars
    BY <1>7 DEF StartJob, WriteAt, FinishJob
  <2>3. QED
    BY <1>0, <2>1, <2>2 DEF handleVars
<1>8. CASE UNCHANGED vars
  BY <1>0, <1>8 DEF vars, handleVars
<1>9. QED
  BY <1>1, <1>2, <1>3, <1>4, <1>5, <1>6, <1>7, <1>8 DEF Next

LEMMA WrittenStep == IInv /\ [Next]_vars => WrittenIsThere'
<1> SUFFICES ASSUME IInv, [Next]_vars PROVE WrittenIsThere'
  OBVIOUS
<1> USE DEF WrittenIsThere
<1>0. Values /\ WrittenIsThere
  BY DEF IInv
<1>1. ASSUME UNCHANGED <<status, written, content>> PROVE WrittenIsThere'
  BY <1>0, <1>1
<1>2. CASE Cancel \/ Cut \/ CheckContext \/ Return \/ NextPart \/ GetValues \/ Open
  BY <1>1, <1>2 DEF Cancel, Cut, CheckContext, Return, NextPart, GetValues, Open
<1>3. CASE AddChunk
  BY <1>0, <1>3, AddedJob DEF AddChunk, Values
<1>4. CASE AddChunkToNil \/ CopyFails \/ CloseFile \/ SendResult
  BY <1>1, <1>4 DEF AddChunkToNil, CopyFails, CloseFile, SendResult
<1>5. ASSUME NEW j \in Jobs, StartJob(j) PROVE WrittenIsThere'
  BY <1>0, <1>5 DEF StartJob, Pool!Start, Values
<1>6. ASSUME NEW j \in Jobs, WriteAt(j) PROVE WrittenIsThere'
  <2>1. j[1] \in Parts /\ j[2] \in 1..NumChunks[j[1]] /\ j[2] \in Places /\ j[1] # Nothing
    BY JobIsPair, UploadAssumption
  <2>2. \A i \in Jobs : i[2] \in Places
    BY JobIsPair
  <2>3. j[2] <= NumChunks[j[1]]
    BY <2>1, UploadAssumption
  <2>4. status' = status /\ (\A i \in Jobs : written[i] # "no" => written'[i] # "no")
    BY <1>0, <1>6 DEF WriteAt, Values
  <2>5. CASE content' = content /\ written' = [written EXCEPT ![j] = "failed"]
    BY <1>0, <2>4, <2>5 DEF Values
  <2>6. CASE content' = [content EXCEPT ![j[2]] = j[1]] /\ written' = [written EXCEPT ![j] = "yes"]
    BY <1>0, <2>1, <2>2, <2>3, <2>4, <2>6 DEF Values
  <2>7. QED
    BY <1>6, <2>5, <2>6 DEF WriteAt
<1>7. ASSUME NEW j \in Jobs, FinishJob(j) PROVE WrittenIsThere'
  BY <1>0, <1>7 DEF FinishJob, Pool!Finish, Values
<1>8. CASE UNCHANGED vars
  BY <1>1, <1>8 DEF vars
<1>9. QED
  BY <1>2, <1>3, <1>4, <1>5, <1>6, <1>7, <1>8 DEF Next

LEMMA Invariance == Spec => []IInv
<1>1. IInv /\ [Next]_vars => IInv'
  BY FlagsStep, ValuesStep, CountStep, OrderStep, OpenFileStep, AddedStep, WrittenStep DEF IInv
<1>2. QED
  BY InitIInv, <1>1, PTL DEF Spec

-----------------------------------------------------------------------------

\* The variables have their types; in particular no WaitGroup of a file gets below
\* zero, where it would panic.
THEOREM TypeCorrect == Spec => []TypeOK
<1>1. IInv => TypeOK
  BY DEF IInv, Flags, Values, Counted, TypeOK
<1>2. QED
  BY <1>1, Invariance, PTL

\* File.Close comes after the last job of its file, whatever the jobs' order, also
\* when the request was cancelled, its body broke off or handle returned an error.
THEOREM NoWriteAfterClose == Spec => []JobsHaveOpenFile
<1>1. IInv => JobsHaveOpenFile
  BY DEF IInv
<1>2. QED
  BY <1>1, Invariance, PTL

\* The next handler runs when no job of the upload is queued or running and every
\* file of it is closed.
THEOREM NextRunsWhenDone == Spec => []PassedOnWhenDone
<1>1. ASSUME IInv PROVE PassedOnWhenDone
  <2> SUFFICES ASSUME serve = "next"
               PROVE  (\A j \in Jobs : status[j] \in {"new", "done"}) /\ Unclosed = {}
    BY DEF PassedOnWhenDone
  <2>1. Unclosed = {}
    BY <1>1 DEF IInv, Stages
  <2>2. \A j \in Jobs : ~UnderWay(status[j])
    BY <1>1, <2>1, JobIsPair DEF IInv, JobsHaveOpenFile, Unclosed, UnderWay
  <2>3. QED
    BY <1>1, <2>1, <2>2 DEF IInv, Values, UnderWay
<1>2. QED
  BY <1>1, Invariance, PTL

\* A request whose body was whole and whose writes succeeded is passed on with a file
\* that has no hole, each chunk of it from a part that has such a chunk.
THEOREM FileHasNoHole == Spec => []StoredWhole
<1>1. ASSUME IInv PROVE StoredWhole
  <2> SUFFICES ASSUME serve = "next", ~cut, \A j \in Jobs : written[j] # "failed",
                      NEW c \in Places
               PROVE  content[c] \in Parts /\ c <= NumChunks[content[c]]
    BY DEF StoredWhole
  <2>1. PICK p \in Parts : c \in 1..NumChunks[p]
    BY PlaceHasJob
  <2>2. <<p, c>> \in Jobs
    BY <2>1, PairIsJob
  <2>3. status[<<p, c>>] # "new"
    <3>1. NoneLeftOut
      BY <1>1 DEF IInv, AddedSoFar
    <3>2. result = "ok"
      BY <1>1 DEF IInv, Stages
    <3>3. QED
      BY <2>2, <3>1, <3>2 DEF NoneLeftOut, Behind
  <2>4. Unclosed = {}
    BY <1>1 DEF IInv, Stages
  <2>5. ~UnderWay(status[<<p, c>>])
    BY <1>1, <2>2, <2>4, JobIsPair DEF IInv, JobsHaveOpenFile, Unclosed, UnderWay
  <2>6. written[<<p, c>>] = "yes"
    BY <1>1, <2>2, <2>3, <2>5 DEF IInv, Values, WrittenIsThere, UnderWay
  <2>7. content[c] # Nothing
    BY <1>1, <2>2, <2>6 DEF IInv, WrittenIsThere
  <2>8. QED
    BY <1>1, <2>7 DEF IInv, Values, WrittenIsThere
<1>2. QED
  BY <1>1, Invariance, PTL

\* Once the request is passed on nothing writes to the file any more, also no job
\* that was queued before handle ended.
THEOREM FileIsFinal == Spec => [][serve = "next" => UNCHANGED <<file, content>>]_vars
<1>1. ASSUME IInv, PassedOnWhenDone, [Next]_vars, serve = "next"
      PROVE  UNCHANGED <<file, content>>
  <2>1. f = "sent"
    BY <1>1 DEF IInv, Stages
  <2>2. ASSUME NEW j \in Jobs PROVE ~WriteAt(j)
    BY <1>1 DEF PassedOnWhenDone, WriteAt
  <2>3. CASE UNCHANGED vars
    BY <2>3 DEF vars, handleVars, requestVars
  <2>4. CASE Cancel \/ Cut \/ CheckContext \/ Return \/ CloseFile \/ SendResult
    BY <2>1, <2>4 DEF Cancel, Cut, CheckContext, Return, CloseFile, SendResult
  <2>5. CASE NextPart \/ GetValues \/ Open \/ AddChunk \/ AddChunkToNil \/ CopyFails
    BY <2>1, <2>5 DEF NextPart, GetValues, Open, AddChunk, AddChunkToNil, CopyFails
  <2>6. ASSUME NEW j \in Jobs, StartJob(j) \/ FinishJob(j)
        PROVE  UNCHANGED <<file, content>>
    BY <2>6 DEF StartJob, FinishJob
  <2>7. QED
    BY <1>1, <2>2, <2>3, <2>4, <2>5, <2>6 DEF Next
<1>2. QED
  BY <1>1, Invariance, NextRunsWhenDone, PTL DEF Spec

-----------------------------------------------------------------------------
(* The use of the workers.                                                  *)

LEMMA ServiceStep == IInv /\ [Next]_vars => [Pool!Next]_(Pool!vars)
<1> SUFFICES ASSUME IInv, [Next]_vars PROVE Pool!Next \/ UNCHANGED <<status, slot>>
  BY DEF Pool!vars
<1>1. CASE UNCHANGED vars
  BY <1>1 DEF vars
<1>2. CASE Cancel \/ Cut \/ CheckContext \/ Return \/ NextPart \/ GetValues
  BY <1>2 DEF Cancel, Cut, CheckContext, Return, NextPart, GetValues
<1>3. CASE Open \/ AddChunkToNil \/ CopyFails \/ CloseFile \/ SendResult
  BY <1>3 DEF Open, AddChunkToNil, CopyFails, CloseFile, SendResult
<1>4. CASE AddChunk
  <2>1. <<part, chunk + 1>> \in Jobs
    BY <1>4, AddedJob
  <2>2. Pool!Accept(<<part, chunk + 1>>)
    BY <1>4 DEF AddChunk
  <2>3. QED
    BY <2>1, <2>2 DEF Pool!Next
<1>5. ASSUME NEW j \in Jobs, StartJob(j) \/ FinishJob(j)
      PROVE  \E w \in Workers : Pool!Start(j, w) \/ Pool!Finish(j, w)
  BY <1>5 DEF StartJob, FinishJob
<1>6. ASSUME NEW j \in Jobs, WriteAt(j) PROVE UNCHANGED <<status, slot>>
  BY <1>6 DEF WriteAt
<1>7. QED
  BY <1>1, <1>2, <1>3, <1>4, <1>5, <1>6 DEF Next, Pool!Next

LEMMA ServiceSpec == Spec => Pool!Spec
<1>1. Init => Pool!Init
  BY DEF Init
<1>2. QED
  BY <1>1, Invariance, ServiceStep, PTL DEF Spec, Pool!Spec

\* The chunks that the handler has not come to.
Ahead(j) ==
  \/ j[1] > part
  \/ j[1] = part /\ f \in {"values", "opening"}
  \/ j[1] = part /\ f = "copying" /\ j[2] > chunk

NotAddedYet == \A j \in Jobs : Ahead(j) => status[j] = "new"

\* The guard of Pool!Accept, a condition that Dispatcher.Add does not test.
AddsNewJob == f = "copying" /\ ~cut /\ file[part] = "open" => status[<<part, chunk + 1>>] = "new"

LEMMA NotAddedStep == IInv /\ NotAddedYet /\ [Next]_vars => NotAddedYet'
<1> SUFFICES ASSUME IInv, NotAddedYet, [Next]_vars PROVE NotAddedYet'
  OBVIOUS
<1>1. /\ status \in [Jobs -> {"new", "accepted", "running", "done"}]
      /\ part \in Nat /\ chunk \in Nat
  BY UploadAssumption DEF IInv, Values
<1>2. \A j \in Jobs : j[1] \in Nat /\ j[2] \in Nat
  BY JobIsPair DEF Parts
<1>3. ASSUME UNCHANGED status, \A j \in Jobs : Ahead(j)' => Ahead(j)
      PROVE  NotAddedYet'
  BY <1>3 DEF NotAddedYet
<1>4. CASE UNCHANGED <<status, part, chunk>> /\ (f' = f \/ f' \in {"parts", "closing", "sent", "crashed"})
  BY <1>3, <1>4 DEF Ahead
<1>5. CASE NextPart
  <2>1. UNCHANGED status
        /\ (part' = part + 1 \/ (part' = part /\ f' = "closing"))
        /\ f' \in {"values", "closing"}
    BY <1>5 DEF NextPart
  <2>2. QED
    BY <1>1, <1>2, <1>3, <2>1 DEF Ahead
<1>6. CASE GetValues
  <2>1. UNCHANGED <<status, part, chunk>> /\ f = "values" /\ f' \in {"opening", "closing"}
    BY <1>6 DEF GetValues
  <2>2. QED
    BY <1>3, <2>1 DEF Ahead
<1>7. CASE Open
  <2>1. UNCHANGED <<status, part>> /\ f = "opening" /\ f' \in {"copying", "closing"}
    BY <1>7 DEF Open
  <2>2. QED
    BY <1>3, <2>1 DEF Ahead
<1>8. CASE AddChunk
  <2>1. /\ part' = part /\ chunk' = chunk + 1 /\ f = "copying" /\ f' \in {"parts", "copying"}
        /\ status' = [status EXCEPT ![<<part, chunk + 1>>] = "accepted"]
    BY <1>8 DEF AddChunk, Pool!Accept
  <2>2. ASSUME NEW j \in Jobs, Ahead(j)' PROVE Ahead(j) /\ j # <<part, chunk + 1>>
    BY <1>1, <1>2, <2>1, <2>2 DEF Ahead
  <2>3. QED
    BY <1>1, <2>1, <2>2 DEF NotAddedYet
<1>9. ASSUME NEW j \in Jobs, StartJob(j) \/ FinishJob(j) PROVE NotAddedYet'
  <2>1. /\ UNCHANGED <<part, chunk, f>> /\ status[j] # "new"
        /\ \A k \in Jobs : k # j => status'[k] = status[k]
    BY <1>1, <1>9 DEF StartJob, FinishJob, Pool!Start, Pool!Finish, handleVars
  <2>2. QED
    BY <2>1 DEF NotAddedYet, Ahead
<1>10. CASE UNCHANGED vars
  BY <1>4, <1>10 DEF vars, handleVars
<1>11. CASE Cancel \/ Cut \/ Return \/ \E j \in Jobs : WriteAt(j)
  BY <1>4, <1>11 DEF Cancel, Cut, Return, WriteAt, handleVars
<1>12. CASE CheckContext
  BY <1>4, <1>12 DEF CheckContext
<1>13. CASE AddChunkToNil \/ CopyFails \/ CloseFile \/ SendResult
  BY <1>4, <1>13 DEF AddChunkToNil, CopyFails, CloseFile, SendResult, handleVars
<1>14. QED
  BY <1>5, <1>6, <1>7, <1>8, <1>9, <1>10, <1>11, <1>12, <1>13 DEF Next

\* The chunk that handle is about to add is one of the part, and it is new.
LEMMA NextIsNew ==
  ASSUME IInv, NotAddedYet
  PROVE  AddsNewJob
<1>1. ASSUME f = "copying" PROVE <<part, chunk + 1>> \in Jobs /\ chunk + 1 > chunk
  <2>1. part \in Parts /\ chunk < NumChunks[part] /\ chunk \in Nat
    BY <1>1 DEF IInv, Values, PartsInOrder
  <2>2. NumChunks[part] \in Nat
    BY <2>1, UploadAssumption
  <2>3. chunk + 1 \in 1..NumChunks[part]
    BY <2>1, <2>2
  <2>4. QED
    BY <2>1, <2>3, PairIsJob
<1>2. QED
  BY <1>1 DEF NotAddedYet, Ahead, AddsNewJob

\* The upload uses the workers as JobService allows, in no other way, and never
\* gives the Dispatcher a chunk twice: what JobService asks of its users holds by
\* the handler's own order and not by a test.
THEOREM UsesTheService == Spec => Pool!Spec /\ []AddsNewJob
<1>1. Init => NotAddedYet
  BY DEF Init, Pool!Init, NotAddedYet
<1>2. IInv /\ NotAddedYet => AddsNewJob
  BY NextIsNew
<1>3. QED
  BY <1>1, <1>2, Invariance, ServiceSpec, NotAddedStep, PTL DEF Spec

-----------------------------------------------------------------------------
(* The upload gets to its end: there is no state in which the goroutines    *)
(* and the jobs wait for each other. Each disjunct is the guard of actions; *)
(* what only the client can do is not among them.                           *)

RequestCanMove ==
  \/ serve = "checking"
  \/ serve = "waiting" /\ (f = "sent" \/ cancelled)

HandleCanMove ==
  \/ f \in {"parts", "values", "opening"}
  \/ f = "copying" /\ (cut \/ file[part] = "nil")
  \/ f = "copying" /\ file[part] = "open" /\ status[<<part, chunk + 1>>] = "new"
  \/ f = "closing" /\ Unclosed = {}
  \/ f = "closing" /\ \E p \in Unclosed : wg[p] = 0 /\ \A q \in Unclosed : q <= p

JobCanMove(j) ==
  \/ status[j] = "accepted" /\ \E w \in Workers : slot[w] = NoJob
  \/ status[j] = "running" /\ written[j] = "no"
  \/ status[j] = "running" /\ written[j] # "no" /\ \E w \in Workers : slot[w] = j

SomeoneCanMove == RequestCanMove \/ HandleCanMove \/ \E j \in Jobs : JobCanMove(j)

RestsAtTheEnd ==
  f # "crashed" /\ ~SomeoneCanMove =>
    /\ serve \in {"next", "failed"} /\ f \in {"idle", "sent"}
    /\ Unclosed = {}
    /\ \A j \in Jobs : status[j] \in {"new", "done"}

\* What the Dispatcher promises: a running job has a worker, and a worker that is
\* not free has a running job, which no other worker has.
OnWorkers ==
  /\ status \in [Jobs -> {"new", "accepted", "running", "done"}]
  /\ slot \in [Workers -> Jobs \union {NoJob}]
  /\ \A j \in Jobs : status[j] = "running" => \E w \in Workers : slot[w] = j
  /\ \A w \in Workers : slot[w] # NoJob => status[slot[w]] = "running"
  /\ \A v, w \in Workers : slot[v] = slot[w] /\ slot[v] # NoJob => v = w

\* handle copies to a file that it has opened, or to none for a type of file system
\* that it does not know; it reads values only for a request it waits for.
CopiesToOpened ==
  /\ f = "copying" => file[part] \in {"open", "nil"}
  /\ f = "idle" => serve \in {"checking", "failed"}

LEMMA LeastNatural ==
  ASSUME NEW T \in SUBSET Nat, T # {}
  PROVE  \E m \in T : \A k \in T : m <= k
<1> DEFINE Below == {p \in Nat \X Nat : p[1] < p[2]}
<1>1. IsWellFoundedOn(Below, Nat)
  BY NatLessThanWellFounded DEF OpToRel
<1>2. PICK m \in T : \A k \in T : <<k, m>> \notin Below
  BY <1>1, WFMin
<1>3. \A k \in T : ~(k < m)
  BY <1>2
<1>4. QED
  BY <1>3

\* The last of the files that are still open, the one handle closes next.
LEMMA LastUnclosed ==
  ASSUME Unclosed # {}
  PROVE  \E p \in Unclosed : \A q \in Unclosed : q <= p
<1> DEFINE Gap == {NumParts - p : p \in Unclosed}
<1>1. NumParts \in Nat /\ \A p \in Unclosed : p \in Nat /\ p <= NumParts
  BY UploadAssumption DEF Unclosed, Parts
<1>2. Gap \in SUBSET Nat /\ Gap # {}
  BY <1>1
<1>3. PICK m \in Gap : \A k \in Gap : m <= k
  BY <1>2, LeastNatural
<1>4. PICK p \in Unclosed : m = NumParts - p
  BY <1>3
<1>5. \A q \in Unclosed : NumParts - p <= NumParts - q
  BY <1>3, <1>4
<1>6. QED
  BY <1>1, <1>5

LEMMA WorkersInvariance == Pool!Spec => []OnWorkers
<1> USE DEF OnWorkers
<1>1. Pool!Init => OnWorkers
  BY UploadAssumption DEF Pool!Init
<1>2. ASSUME OnWorkers, [Pool!Next]_(Pool!vars) PROVE OnWorkers'
  <2>1. NoJob \notin Jobs
    BY UploadAssumption
  <2>2. ASSUME NEW j \in Jobs, Pool!Accept(j) PROVE OnWorkers'
    BY <1>2, <2>2 DEF Pool!Accept
  <2>3. ASSUME NEW j \in Jobs, NEW w \in Workers, Pool!Start(j, w) PROVE OnWorkers'
    <3>1. /\ status[j] = "accepted" /\ slot[w] = NoJob
          /\ status' = [status EXCEPT ![j] = "running"] /\ slot' = [slot EXCEPT ![w] = j]
      BY <2>3 DEF Pool!Start
    <3>2. \A v \in Workers : slot[v] # j
      BY <1>2, <2>1, <3>1
    <3>3. ASSUME NEW i \in Jobs, status'[i] = "running" PROVE \E v \in Workers : slot'[v] = i
      <4>1. CASE i = j
        BY <1>2, <3>1, <4>1
      <4>2. CASE i # j
        <5>1. PICK v \in Workers : slot[v] = i
          BY <1>2, <3>1, <3>3, <4>2
        <5>2. v # w /\ slot'[v] = i
          BY <1>2, <2>1, <3>1, <5>1
        <5>3. QED
          BY <5>2
      <4>3. QED
        BY <4>1, <4>2
    <3>4. QED
      BY <1>2, <2>1, <3>1, <3>2, <3>3
  <2>4. ASSUME NEW j \in Jobs, NEW w \in Workers, Pool!Finish(j, w) PROVE OnWorkers'
    BY <1>2, <2>1, <2>4 DEF Pool!Finish
  <2>5. CASE UNCHANGED Pool!vars
    BY <1>2, <2>5 DEF Pool!vars
  <2>6. QED
    BY <1>2, <2>2, <2>3, <2>4, <2>5 DEF Pool!Next
<1>3. QED
  BY <1>1, <1>2, PTL DEF Pool!Spec

LEMMA CopiesStep == IInv /\ CopiesToOpened /\ [Next]_vars => CopiesToOpened'
<1> SUFFICES ASSUME IInv, CopiesToOpened, [Next]_vars PROVE CopiesToOpened'
  OBVIOUS
<1> USE DEF CopiesToOpened
<1>0. /\ part \in 0..NumParts /\ file \in [Parts -> {"none", "open", "nil", "closed"}]
      /\ f \in {"values", "opening", "copying"} => part \in Parts
  BY DEF IInv, Values, PartsInOrder
<1>1. CASE Cancel \/ Cut \/ \E j \in Jobs : StartJob(j) \/ WriteAt(j) \/ FinishJob(j)
  BY <1>1 DEF Cancel, Cut, StartJob, WriteAt, FinishJob, handleVars, requestVars
<1>2. CASE CheckContext \/ Return
  BY <1>2 DEF CheckContext, Return, handleVars
<1>3. CASE NextPart \/ GetValues
  BY <1>3 DEF NextPart, GetValues, requestVars
<1>4. CASE Open
  BY <1>0, <1>4 DEF Open, requestVars
<1>5. CASE AddChunk \/ AddChunkToNil \/ CopyFails
  BY <1>5 DEF AddChunk, AddChunkToNil, CopyFails, requestVars
<1>6. CASE CloseFile \/ SendResult
  BY <1>6 DEF CloseFile, SendResult, requestVars, handleVars
<1>7. CASE UNCHANGED vars
  BY <1>7 DEF vars, handleVars, requestVars
<1>8. QED
  BY <1>1, <1>2, <1>3, <1>4, <1>5, <1>6, <1>7 DEF Next

\* On at least one worker an upload whose process has not ended comes to rest only
\* when it is over: the request is answered, the goroutine of handle has sent its
\* result, whether anyone waits for it or not, every file is closed and no job of
\* the upload is queued or running. The deferred File.Close calls, the jobs they
\* wait for, the workers and errHandle never wait for each other in a circle.
THEOREM RestsOnlyAtTheEnd ==
  ASSUME Workers # {}
  PROVE  Spec => []RestsAtTheEnd
<1>1. ASSUME IInv, OnWorkers, CopiesToOpened, NotAddedYet, f # "crashed", ~SomeoneCanMove
      PROVE  /\ serve \in {"next", "failed"} /\ f \in {"idle", "sent"}
             /\ Unclosed = {}
             /\ \A j \in Jobs : status[j] \in {"new", "done"}
  <2>1. ~RequestCanMove /\ ~HandleCanMove /\ \A j \in Jobs : ~JobCanMove(j)
    BY <1>1 DEF SomeoneCanMove
  <2>2. \A j \in Jobs : status[j] # "running"
    BY <1>1, <2>1 DEF JobCanMove, OnWorkers
  <2>3. \A j \in Jobs : status[j] # "accepted"
    <3>1. \A w \in Workers : slot[w] = NoJob
      BY <1>1, <2>2 DEF OnWorkers
    <3>2. QED
      BY <2>1, <3>1 DEF JobCanMove
  <2>4. \A j \in Jobs : status[j] \in {"new", "done"}
    BY <1>1, <2>2, <2>3 DEF OnWorkers
  <2>5. \A p \in Parts : wg[p] = 0
    <3>1. ASSUME NEW p \in Parts PROVE Pending(status, p) = {}
      BY <2>4, PairIsJob DEF Pending, UnderWay
    <3>2. QED
      BY <1>1, <3>1, FS_EmptySet DEF IInv, Counted
  <2>6. f # "closing"
    <3>1. ASSUME f = "closing" PROVE FALSE
      <4>1. Unclosed # {}
        BY <2>1, <3>1 DEF HandleCanMove
      <4>2. PICK p \in Unclosed : \A q \in Unclosed : q <= p
        BY <4>1, LastUnclosed
      <4>3. wg[p] = 0
        BY <2>5 DEF Unclosed
      <4>4. QED
        BY <2>1, <3>1, <4>2, <4>3 DEF HandleCanMove
    <3>2. QED
      BY <3>1
  <2>7. f # "copying"
    <3>1. ASSUME f = "copying" PROVE FALSE
      <4>1. ~cut /\ file[part] = "open"
        BY <1>1, <2>1, <3>1 DEF HandleCanMove, CopiesToOpened
      <4>2. status[<<part, chunk + 1>>] = "new"
        BY <1>1, <3>1, <4>1, NextIsNew DEF AddsNewJob
      <4>3. QED
        BY <2>1, <3>1, <4>1, <4>2 DEF HandleCanMove
    <3>2. QED
      BY <3>1
  <2>8. f \in {"idle", "sent"}
    BY <1>1, <2>1, <2>6, <2>7 DEF HandleCanMove, IInv, Values
  <2>9. serve \in {"next", "failed"}
    BY <1>1, <2>1, <2>8 DEF RequestCanMove, CopiesToOpened, IInv, Values
  <2>10. Unclosed = {}
    <3>1. CASE f = "sent"
      BY <1>1, <3>1 DEF IInv, Stages
    <3>2. CASE f = "idle"
      <4>1. part = 0
        BY <1>1, <3>2 DEF IInv, Stages
      <4>2. \A p \in Parts : file[p] = "none"
        BY <1>1, <4>1 DEF IInv, PartsInOrder, Parts
      <4>3. QED
        BY <4>2 DEF Unclosed
    <3>3. QED
      BY <2>8, <3>1, <3>2
  <2>11. QED
    BY <2>4, <2>8, <2>9, <2>10
<1>2. IInv /\ OnWorkers /\ CopiesToOpened /\ NotAddedYet => RestsAtTheEnd
  BY <1>1 DEF RestsAtTheEnd
<1>3. Init => CopiesToOpened /\ NotAddedYet
  BY DEF Init, Pool!Init, CopiesToOpened, NotAddedYet
<1>4. QED
  BY <1>2, <1>3, Invariance, ServiceSpec, WorkersInvariance, CopiesStep, NotAddedStep, PTL
     DEF Spec

-----------------------------------------------------------------------------
(* A measure: the upload comes to rest after finitely many steps, in        *)
(* whatever order they are taken.                                           *)

\* How many stages the things of S have before them, r[x] <= K for each x: the number of
\* pairs of a thing and a stage. A sum over a set that may be counted without recursion.
StageCount(S, K, r) == Cardinality({p \in S \X (1..K) : p[2] <= r[p[1]]})

LEMMA StagesFall ==
  ASSUME NEW S, IsFiniteSet(S), NEW K \in Nat,
         NEW r \in [S -> 0..K], NEW q \in [S -> 0..K], \A x \in S : q[x] <= r[x]
  PROVE  /\ StageCount(S, K, r) \in Nat /\ StageCount(S, K, q) \in Nat
         /\ StageCount(S, K, q) <= StageCount(S, K, r)
         /\ (\E x \in S : q[x] < r[x]) => StageCount(S, K, q) <= StageCount(S, K, r) - 1
<1> DEFINE R == {p \in S \X (1..K) : p[2] <= r[p[1]]}
           Q == {p \in S \X (1..K) : p[2] <= q[p[1]]}
<1>1. IsFiniteSet(1..K)
  BY FS_Interval
<1>2. IsFiniteSet(S \X (1..K))
  BY <1>1, FS_Product
<1>3. IsFiniteSet(R)
  BY <1>2, FS_Subset
<1>4. Q \subseteq R
  <2>1. ASSUME NEW p \in Q PROVE p \in R
    <3>1. p \in S \X (1..K) /\ p[1] \in S /\ p[2] \in 1..K /\ p[2] <= q[p[1]]
      OBVIOUS
    <3>2. q[p[1]] <= r[p[1]] /\ q[p[1]] \in 0..K /\ r[p[1]] \in 0..K
      BY <3>1
    <3>3. QED
      BY <3>1, <3>2
  <2>2. QED
    BY <2>1
<1>5. IsFiniteSet(Q) /\ Cardinality(Q) <= Cardinality(R) /\ (Cardinality(R) = Cardinality(Q) => R = Q)
  BY <1>3, <1>4, FS_Subset
<1>6. Cardinality(R) \in Nat /\ Cardinality(Q) \in Nat
  BY <1>3, <1>5, FS_CardinalityType
<1>7. ASSUME NEW x \in S, q[x] < r[x] PROVE R # Q
  <2>1. q[x] \in 0..K /\ r[x] \in 0..K
    OBVIOUS
  <2>2. r[x] \in 1..K /\ <<x, r[x]>> \in S \X (1..K)
    BY <1>7, <2>1
  <2>3. <<x, r[x]>>[1] = x /\ <<x, r[x]>>[2] = r[x] /\ ~(r[x] <= q[x]) /\ r[x] <= r[x]
    BY <1>7, <2>1
  <2>4. <<x, r[x]>> \in R /\ <<x, r[x]>> \notin Q
    BY <2>2, <2>3
  <2>5. QED
    BY <2>4
<1>8. StageCount(S, K, r) = Cardinality(R) /\ StageCount(S, K, q) = Cardinality(Q)
  BY DEF StageCount
<1> HIDE DEF R, Q
<1>9. QED
  BY <1>5, <1>6, <1>7, <1>8

LEMMA JobsAreFinite == IsFiniteSet(Jobs)
<1> DEFINE Of == [p \in Parts |-> {p} \X (1..NumChunks[p])]
           All == {{p} \X (1..NumChunks[p]) : p \in Parts}
<1>1. IsFiniteSet(Parts)
  BY UploadAssumption, FS_Interval DEF Parts
<1>2. ASSUME NEW p \in Parts PROVE IsFiniteSet({p} \X (1..NumChunks[p]))
  <2>1. 1 \in Int /\ NumChunks[p] \in Int
    BY UploadAssumption
  <2>2. IsFiniteSet(1..NumChunks[p])
    BY <2>1, FS_Interval
  <2>3. IsFiniteSet({p})
    BY FS_Singleton
  <2>4. QED
    BY <2>2, <2>3, FS_Product
<1>3. Of \in Surjection(Parts, All)
  BY DEF Surjection
<1>4. IsFiniteSet(All)
  BY <1>1, <1>3, FS_Surjection
<1>5. \A T \in All : IsFiniteSet(T)
  BY <1>2
<1>6. IsFiniteSet(UNION All)
  BY <1>4, <1>5, FS_UNION
<1>7. QED
  BY <1>6 DEF Jobs

JobRank(s, w) ==
  CASE s = "new" -> 4 [] s = "accepted" -> 3 [] s = "running" /\ w = "no" -> 2
    [] s = "running" /\ w # "no" -> 1 [] OTHER -> 0

FileRank(s) == CASE s = "none" -> 2 [] s = "open" -> 1 [] OTHER -> 0

HandleRank(s) ==
  CASE s = "values" -> 5 [] s = "opening" -> 4 [] s \in {"copying", "idle"} -> 3
    [] s = "parts" -> 2 [] s = "closing" -> 1 [] OTHER -> 0

ServeRank(s) == CASE s = "checking" -> 2 [] s = "waiting" -> 1 [] OTHER -> 0

OneIf(p) == IF p THEN 1 ELSE 0

JobRanks == [j \in Jobs |-> JobRank(status[j], written[j])]
FileRanks == [p \in Parts |-> FileRank(file[p])]

JobSteps == StageCount(Jobs, 4, JobRanks)
FileSteps == StageCount(Parts, 2, FileRanks)
HandleSteps == 4 * (NumParts - part) + HandleRank(f)
RequestSteps == ServeRank(serve) + OneIf(~cancelled) + OneIf(~cut)

StepsLeft == JobSteps + FileSteps + HandleSteps + RequestSteps

LEMMA RanksAreRanks ==
  IInv => JobRanks \in [Jobs -> 0..4] /\ FileRanks \in [Parts -> 0..2]
  BY DEF JobRanks, JobRank, FileRanks, FileRank

LEMMA StepsAreNat ==
  IInv => /\ JobSteps \in Nat /\ FileSteps \in Nat /\ HandleSteps \in Nat
          /\ RequestSteps \in Nat /\ StepsLeft \in Nat
<1> SUFFICES ASSUME IInv
             PROVE  /\ JobSteps \in Nat /\ FileSteps \in Nat /\ HandleSteps \in Nat
                    /\ RequestSteps \in Nat /\ StepsLeft \in Nat
  OBVIOUS
<1>1. JobRanks \in [Jobs -> 0..4] /\ FileRanks \in [Parts -> 0..2]
  BY RanksAreRanks
<1>2. (\A j \in Jobs : JobRanks[j] <= JobRanks[j]) /\ (\A p \in Parts : FileRanks[p] <= FileRanks[p])
  BY <1>1
<1>3. IsFiniteSet(Parts)
  BY UploadAssumption, FS_Interval DEF Parts
<1>4. JobSteps \in Nat /\ FileSteps \in Nat
  BY <1>1, <1>2, <1>3, JobsAreFinite, StagesFall DEF JobSteps, FileSteps
<1>5. HandleSteps \in Nat
  <2>1. NumParts - part \in Nat
    BY UploadAssumption DEF IInv, Values
  <2>2. HandleRank(f) \in Nat
    BY DEF HandleRank
  <2>3. QED
    BY <2>1, <2>2 DEF HandleSteps
<1>6. RequestSteps \in Nat
  BY DEF RequestSteps, ServeRank, OneIf
<1>7. QED
  BY <1>4, <1>5, <1>6 DEF StepsLeft

\* A step that brings a job to a later stage, or leaves the jobs alone; and the same
\* for the files.
LEMMA JobsGoOn ==
  ASSUME IInv, IInv',
         \A j \in Jobs : JobRank(status'[j], written'[j]) <= JobRank(status[j], written[j])
  PROVE  /\ JobSteps' <= JobSteps
         /\ (\E j \in Jobs : JobRank(status'[j], written'[j]) < JobRank(status[j], written[j]))
              => JobSteps' <= JobSteps - 1
<1>1. JobRanks \in [Jobs -> 0..4] /\ JobRanks' \in [Jobs -> 0..4]
  <2>1. IInv' => (JobRanks \in [Jobs -> 0..4] /\ FileRanks \in [Parts -> 0..2])'
    BY RanksAreRanks, PTL
  <2>2. QED
    BY <2>1, RanksAreRanks
<1>2. \A j \in Jobs : /\ JobRanks[j] = JobRank(status[j], written[j])
                      /\ JobRanks'[j] = JobRank(status'[j], written'[j])
  BY DEF JobRanks, JobRank
<1>3. QED
  BY <1>1, <1>2, JobsAreFinite, StagesFall DEF JobSteps

LEMMA FilesGoOn ==
  ASSUME IInv, IInv', \A p \in Parts : FileRank(file'[p]) <= FileRank(file[p])
  PROVE  /\ FileSteps' <= FileSteps
         /\ (\E p \in Parts : FileRank(file'[p]) < FileRank(file[p]))
              => FileSteps' <= FileSteps - 1
<1>1. FileRanks \in [Parts -> 0..2] /\ FileRanks' \in [Parts -> 0..2]
  <2>1. IInv' => (JobRanks \in [Jobs -> 0..4] /\ FileRanks \in [Parts -> 0..2])'
    BY RanksAreRanks, PTL
  <2>2. QED
    BY <2>1, RanksAreRanks
<1>2. \A p \in Parts : FileRanks[p] = FileRank(file[p]) /\ FileRanks'[p] = FileRank(file'[p])
  BY DEF FileRanks, FileRank
<1>3. IsFiniteSet(Parts)
  BY UploadAssumption, FS_Interval DEF Parts
<1>4. QED
  BY <1>1, <1>2, <1>3, StagesFall DEF FileSteps

\* Every step of an upload, those of its client included, brings it nearer to the rest
\* of which RestsOnlyAtTheEnd speaks: no run goes on for ever. The two together are
\* what UploadEnds says, for every upload and without an assumption on the order in
\* which goroutines and jobs run, but that some step is taken where one can be.
THEOREM UploadGetsNearer == Spec => [](StepsLeft \in Nat) /\ [][StepsLeft' < StepsLeft]_vars
<1>1. ASSUME IInv, IInv', Next PROVE StepsLeft' < StepsLeft
  <2> DEFINE a == JobSteps      a1 == JobSteps'
             b == FileSteps     b1 == FileSteps'
             h == HandleSteps   h1 == HandleSteps'
             r == RequestSteps  r1 == RequestSteps'
  <2>1. /\ a \in Nat /\ b \in Nat /\ h \in Nat /\ r \in Nat
        /\ a1 \in Nat /\ b1 \in Nat /\ h1 \in Nat /\ r1 \in Nat
        /\ StepsLeft = a + b + h + r /\ StepsLeft' = a1 + b1 + h1 + r1
    <3>1. IInv' => (/\ JobSteps \in Nat /\ FileSteps \in Nat /\ HandleSteps \in Nat
                    /\ RequestSteps \in Nat /\ StepsLeft \in Nat)'
      BY StepsAreNat, PTL
    <3>2. QED
      BY <1>1, <3>1, StepsAreNat DEF StepsLeft
  <2>2. /\ status \in [Jobs -> {"new", "accepted", "running", "done"}]
        /\ written \in [Jobs -> {"no", "yes", "failed"}]
        /\ file \in [Parts -> {"none", "open", "nil", "closed"}]
        /\ part \in 0..NumParts /\ NumParts \in Nat
    BY <1>1, UploadAssumption DEF IInv, Values
  <2>3. UNCHANGED <<status, written>> => a1 <= a
    BY <1>1, <2>2, JobsGoOn DEF JobRank
  <2>4. UNCHANGED file => b1 <= b
    BY <1>1, <2>2, FilesGoOn DEF FileRank
  <2>5. UNCHANGED <<part, f>> => h1 <= h
    BY <2>1 DEF HandleSteps
  <2>6. UNCHANGED <<serve, cancelled, cut>> => r1 <= r
    BY <2>1 DEF RequestSteps
  <2>7. CASE Cancel \/ Cut
    <3>1. UNCHANGED <<status, written, file, part, f, serve>>
      BY <2>7 DEF Cancel, Cut, handleVars
    <3>2. r1 <= r - 1
      BY <1>1, <2>7 DEF Cancel, Cut, RequestSteps, OneIf, ServeRank
    <3>3. a1 <= a /\ b1 <= b /\ h1 <= h
      BY <2>3, <2>4, <2>5, <3>1
    <3> HIDE DEF a, a1, b, b1, h, h1, r, r1
    <3>4. QED
      BY <2>1, <3>2, <3>3
  <2>8. CASE CheckContext \/ Return
    <3>1. UNCHANGED <<status, written, file, part>>
      BY <2>8 DEF CheckContext, Return, handleVars
    <3>2. r1 <= r - 1
      BY <1>1, <2>8 DEF CheckContext, Return, RequestSteps, OneIf, ServeRank
    <3>3. f' = f \/ (f = "idle" /\ f' = "parts")
      BY <1>1, <2>8 DEF CheckContext, Return, handleVars, IInv, Stages
    <3>4. h1 <= h
      BY <2>2, <3>1, <3>3 DEF HandleSteps, HandleRank
    <3>5. a1 <= a /\ b1 <= b
      BY <2>3, <2>4, <3>1
    <3> HIDE DEF a, a1, b, b1, h, h1, r, r1
    <3>6. QED
      BY <2>1, <3>2, <3>4, <3>5
  <2>9. CASE NextPart \/ GetValues \/ AddChunkToNil \/ CopyFails \/ SendResult
    <3>1. UNCHANGED <<status, written, file, serve, cancelled, cut>>
      BY <2>9 DEF NextPart, GetValues, AddChunkToNil, CopyFails, SendResult, requestVars
    <3>2. h1 <= h - 1
      <4>1. CASE NextPart
        <5>1. f = "parts"
          BY <4>1 DEF NextPart
        <5>2. (part' = part + 1 /\ f' = "values") \/ (part' = part /\ f' = "closing")
          BY <4>1 DEF NextPart
        <5>3. QED
          BY <2>2, <5>1, <5>2 DEF HandleSteps, HandleRank
      <4>2. CASE GetValues \/ AddChunkToNil \/ CopyFails \/ SendResult
        <5>1. /\ part' = part
              /\ \/ f = "values" /\ f' \in {"opening", "closing"}
                 \/ f = "copying" /\ f' \in {"crashed", "parts"}
                 \/ f = "closing" /\ f' = "sent"
          BY <4>2 DEF GetValues, AddChunkToNil, CopyFails, SendResult
        <5>2. QED
          BY <2>2, <5>1 DEF HandleSteps, HandleRank
      <4>3. QED
        BY <2>9, <4>1, <4>2
    <3>3. a1 <= a /\ b1 <= b /\ r1 <= r
      BY <2>3, <2>4, <2>6, <3>1
    <3> HIDE DEF a, a1, b, b1, h, h1, r, r1
    <3>4. QED
      BY <2>1, <3>2, <3>3
  <2>10. CASE Open
    <3>1. /\ UNCHANGED <<status, written, part, serve, cancelled, cut>>
          /\ f = "opening" /\ f' \in {"copying", "closing"}
          /\ \/ file' = file
             \/ \E s \in {"open", "nil"} : file' = [file EXCEPT ![part] = s]
      BY <2>10 DEF Open, requestVars
    <3>2. part \in Parts /\ file[part] = "none"
      BY <1>1, <3>1 DEF IInv, PartsInOrder
    <3>3. h1 <= h - 1
      BY <2>2, <3>1 DEF HandleSteps, HandleRank
    <3>4. b1 <= b
      <4>1. \A p \in Parts : FileRank(file'[p]) <= FileRank(file[p])
        BY <2>2, <3>1, <3>2 DEF FileRank
      <4>2. QED
        BY <1>1, <4>1, FilesGoOn
    <3>5. a1 <= a /\ r1 <= r
      BY <2>3, <2>6, <3>1
    <3> HIDE DEF a, a1, b, b1, h, h1, r, r1
    <3>6. QED
      BY <2>1, <3>3, <3>4, <3>5
  <2>11. CASE CloseFile
    <3>1. UNCHANGED <<status, written, part, f, serve, cancelled, cut>>
      BY <2>11 DEF CloseFile, requestVars, handleVars
    <3>2. PICK p \in Unclosed : file' = [file EXCEPT ![p] = "closed"]
      BY <2>11 DEF CloseFile
    <3>3. b1 <= b - 1
      <4>1. p \in Parts /\ file[p] = "open"
        BY DEF Unclosed
      <4>2. /\ FileRank(file'[p]) < FileRank(file[p])
            /\ \A q \in Parts : FileRank(file'[q]) <= FileRank(file[q])
        BY <2>2, <3>2, <4>1 DEF FileRank
      <4>3. QED
        BY <1>1, <4>1, <4>2, FilesGoOn
    <3>4. a1 <= a /\ h1 <= h /\ r1 <= r
      BY <2>3, <2>5, <2>6, <3>1
    <3> HIDE DEF a, a1, b, b1, h, h1, r, r1
    <3>5. QED
      BY <2>1, <3>3, <3>4
  <2>12. CASE AddChunk
    <3> DEFINE j == <<part, chunk + 1>>
    <3>1. /\ UNCHANGED <<written, file, part, serve, cancelled, cut>>
          /\ f = "copying" /\ f' \in {"copying", "parts"}
          /\ status[j] = "new" /\ status' = [status EXCEPT ![j] = "accepted"]
      BY <2>12 DEF AddChunk, Pool!Accept, requestVars
    <3>2. j \in Jobs
      <4>1. part \in Parts /\ chunk \in Nat /\ chunk < NumChunks[part] /\ NumChunks[part] \in Nat
        BY <1>1, <3>1, UploadAssumption DEF IInv, Values, PartsInOrder
      <4>2. chunk + 1 \in 1..NumChunks[part]
        BY <4>1
      <4>3. QED
        BY <4>1, <4>2, PairIsJob
    <3> HIDE DEF j
    <3>3. a1 <= a - 1
      <4>1. /\ JobRank(status'[j], written'[j]) < JobRank(status[j], written[j])
            /\ \A i \in Jobs : JobRank(status'[i], written'[i]) <= JobRank(status[i], written[i])
        BY <2>2, <3>1, <3>2 DEF JobRank
      <4>2. QED
        BY <1>1, <3>2, <4>1, JobsGoOn
    <3>4. h1 <= h
      BY <2>2, <3>1 DEF HandleSteps, HandleRank
    <3>5. b1 <= b /\ r1 <= r
      BY <2>4, <2>6, <3>1
    <3> HIDE DEF a, a1, b, b1, h, h1, r, r1
    <3>6. QED
      BY <2>1, <3>3, <3>4, <3>5
  <2>13. ASSUME NEW j \in Jobs, StartJob(j) \/ WriteAt(j) \/ FinishJob(j)
         PROVE  StepsLeft' < StepsLeft
    <3>1. UNCHANGED <<file, part, f, serve, cancelled, cut>>
      BY <2>13 DEF StartJob, WriteAt, FinishJob, requestVars, handleVars
    <3>2. \/ /\ written' = written /\ status[j] = "accepted"
             /\ status' = [status EXCEPT ![j] = "running"]
          \/ /\ status' = status /\ status[j] = "running" /\ written[j] = "no"
             /\ \E s \in {"yes", "failed"} : written' = [written EXCEPT ![j] = s]
          \/ /\ written' = written /\ status[j] = "running" /\ written[j] # "no"
             /\ status' = [status EXCEPT ![j] = "done"]
      BY <2>13 DEF StartJob, WriteAt, FinishJob, Pool!Start, Pool!Finish
    <3>3. a1 <= a - 1
      <4>1. /\ JobRank(status'[j], written'[j]) < JobRank(status[j], written[j])
            /\ \A i \in Jobs : JobRank(status'[i], written'[i]) <= JobRank(status[i], written[i])
        BY <2>2, <3>2 DEF JobRank
      <4>2. QED
        BY <1>1, <4>1, JobsGoOn
    <3>4. b1 <= b /\ h1 <= h /\ r1 <= r
      BY <2>4, <2>5, <2>6, <3>1
    <3> HIDE DEF a, a1, b, b1, h, h1, r, r1
    <3>5. QED
      BY <2>1, <3>3, <3>4
  <2>14. QED
    BY <1>1, <2>7, <2>8, <2>9, <2>10, <2>11, <2>12, <2>13 DEF Next
<1>2. IInv /\ IInv' /\ [Next]_vars => [StepsLeft' < StepsLeft]_vars
  BY <1>1
<1>3. QED
  BY <1>2, StepsAreNat, Invariance, PTL DEF Spec
=============================================================================
