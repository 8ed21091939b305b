------------------------------ MODULE S3Writer ------------------------------
(***************************************************************************)
(* A file of io/file.go written through io/s3io/s3io.go. The chunks of an  *)
(* upload are written by jobs on the shared workers, in any order; WriteAt *)
(* makes them wait for their turn, since S3 reads one stream from a pipe.  *)
(* Four parties meet here: the request's goroutine that adds the jobs and  *)
(* closes the file, the jobs in WriteAt, the pipe, and the goroutine that  *)
(* reads the pipe and talks to S3.                                         *)
(*                                                                         *)
(* A byte is named by its position in the file. io.Pipe is external code:  *)
(* a Write blocks until the reader took every byte or an end is closed.    *)
(***************************************************************************)
EXTENDS Naturals, Sequences, FiniteSets

CONSTANTS
  N,         \* the chunks of the upload are 1..N
  Offset,    \* Offset[c]: where chunk c starts in the file
  Length,    \* Length[c]: its number of bytes; the last one may be empty
  Workers,   \* the workers of the Dispatcher
  NoChunk, NoObject

Chunks == 1..N

\* The handler advances the offset by the bytes it has copied (offset += n).
ASSUME ChunksAssumption ==
  /\ N \in Nat
  /\ Offset \in [Chunks -> Nat]
  /\ Length \in [Chunks -> Nat]
  /\ NoChunk \notin Chunks
  /\ NoObject \notin Seq(Nat)
  /\ 1 \in Chunks => Offset[1] = 0
  /\ \A c \in Chunks : c + 1 \in Chunks => Offset[c + 1] = Offset[c] + Length[c]

VARIABLES
  status, slot,  \* the jobs of the chunks, as JobService describes them
  handler,       \* where the request's goroutine stands
  added,         \* the jobs of chunks 1..added were given to the Dispatcher
  wg,            \* File.WaitGroup
  pc,            \* pc[c]: where the WriteAt of chunk c stands
  l,             \* the chunk whose WriteAt holds the mutex, or NoChunk
  totalBytes,
  n,             \* how many bytes of the Write under way the reader has taken
  pipe,          \* the state of the io.Pipe
  uploader,      \* where the goroutine of writeHandler or appendHandler stands
  append,        \* whether the file was opened with O_APPEND
  sink,          \* the bytes read from the pipe, in the order of reading
  object         \* the bytes of the object, once S3 has stored it

fileVars == <<handler, added, wg>>
writeVars == <<pc, l, totalBytes, n>>
s3Vars == <<uploader, append, object>>
vars == <<status, slot, fileVars, writeVars, pipe, s3Vars, sink>>

Pool == INSTANCE JobService WITH Jobs <- Chunks, Slots <- Workers, NoJob <- NoChunk

TypeOK ==
  /\ status \in [Chunks -> {"new", "accepted", "running", "done"}]
  /\ slot \in [Workers -> Chunks \union {NoChunk}]
  /\ handler \in {"copying", "waiting", "locked", "closed"}
  /\ added \in 0..N
  /\ wg \in 0..N
  /\ pc \in [Chunks -> {"none", "locking", "waiting", "writing", "broadcasting", "returned"}]
  /\ l \in Chunks \union {NoChunk}
  /\ totalBytes \in Nat
  /\ n \in Nat
  /\ pipe \in {"open", "eof", "broken"}
  /\ uploader \in {"creating", "copying", "reading", "uploading", "completing",
                   "releasing", "gone"}
  /\ append \in BOOLEAN
  /\ sink \in Seq(Nat)
  /\ object \in {NoObject} \union Seq(Nat)

Init ==
  /\ Pool!Init
  /\ handler = "copying"
  /\ added = 0
  /\ wg = 0
  /\ pc = [c \in Chunks |-> "none"]
  /\ l = NoChunk
  /\ totalBytes = 0
  /\ n = 0
  /\ pipe = "open"
  /\ append \in BOOLEAN
  /\ uploader = IF append THEN "creating" ELSE "reading"
  /\ sink = <<>>
  /\ object = NoObject

-----------------------------------------------------------------------------
(* The request's goroutine.                                                 *)

\* The mutant counts the job when it starts and not when it is added.
AddChunkUncounted ==
  /\ handler = "copying"
  /\ added < N
  /\ Pool!Accept(added + 1)
  /\ added' = added + 1
  /\ UNCHANGED <<handler, wg, writeVars, pipe, s3Vars, sink>>

\* file.Add(1); d.Add(job).
AddChunk ==
  /\ handler = "copying"
  /\ added < N
  /\ Pool!Accept(added + 1)
  /\ added' = added + 1
  /\ wg' = wg + 1
  /\ UNCHANGED <<handler, writeVars, pipe, s3Vars, sink>>

\* The copy loop ends, at the end of the part or at a read error before it, and
\* the deferred File.Close enters Wait.
Close ==
  /\ handler = "copying"
  /\ handler' = "waiting"
  /\ UNCHANGED <<status, slot, added, wg, writeVars, pipe, s3Vars, sink>>

\* Wait returns and Writer.Close ends the stream, if it did not fail before. The
\* mutant does not wait.
CloseWriterAtOnce ==
  /\ handler = "waiting"
  /\ handler' = "locked"
  /\ pipe' = IF pipe = "open" THEN "eof" ELSE pipe
  /\ UNCHANGED <<status, slot, added, wg, writeVars, s3Vars, sink>>

CloseWriter ==
  /\ handler = "waiting"
  /\ wg = 0
  /\ handler' = "locked"
  /\ pipe' = IF pipe = "open" THEN "eof" ELSE pipe
  /\ UNCHANGED <<status, slot, added, wg, writeVars, s3Vars, sink>>

\* <-f.lock meets lock <- 1.
Unlock ==
  /\ handler = "locked"
  /\ uploader = "releasing"
  /\ handler' = "closed"
  /\ uploader' = "gone"
  /\ UNCHANGED <<status, slot, added, wg, writeVars, pipe, append, object, sink>>

-----------------------------------------------------------------------------
(* Job.Do and s3writer.WriteAt.                                             *)

\* A worker starts the job, whose WriteAt goes for the mutex.
StartJob(c) ==
  /\ \E w \in Workers : Pool!Start(c, w)
  /\ pc' = [pc EXCEPT ![c] = "locking"]
  /\ UNCHANGED <<fileVars, l, totalBytes, n, pipe, s3Vars, sink>>

\* What WriteAt does with the mutex: write if its turn has come (the condition
\* tests >=, not =), wait for it otherwise. Wait joins the waiters before it
\* gives the mutex back. The mutant tests once, an if in place of the for.
MyTurnAfterOneWait(c) == totalBytes >= Offset[c] \/ \E d \in Chunks : pc[d] = "returned"
MyTurn(c) == totalBytes >= Offset[c]

Lock(c) ==
  /\ pc[c] = "locking"
  /\ l = NoChunk
  /\ IF MyTurn(c)
     THEN /\ pc' = [pc EXCEPT ![c] = "writing"]
          /\ l' = c
     ELSE /\ pc' = [pc EXCEPT ![c] = "waiting"]
          /\ UNCHANGED l
  /\ UNCHANGED <<status, slot, fileVars, totalBytes, n, pipe, s3Vars, sink>>

\* PipeWriter.Write returns, with all bytes taken or the pipe broken.
WriteReturns(c) ==
  /\ pc[c] = "writing"
  /\ n = Length[c] \/ pipe = "broken"
  /\ totalBytes' = totalBytes + n
  /\ n' = 0
  /\ l' = NoChunk
  /\ pc' = [pc EXCEPT ![c] = "broadcasting"]
  /\ UNCHANGED <<status, slot, fileVars, pipe, s3Vars, sink>>

\* wwait.Broadcast, after the mutex was released. The mutant is Signal.
Signal(c) ==
  /\ pc[c] = "broadcasting"
  /\ LET waiting == {d \in Chunks : pc[d] = "waiting"} IN
     \E woken \in SUBSET waiting :
       /\ Cardinality(woken) = IF waiting = {} THEN 0 ELSE 1
       /\ pc' = [d \in Chunks |-> IF d = c THEN "returned"
                                  ELSE IF d \in woken THEN "locking" ELSE pc[d]]
  /\ UNCHANGED <<status, slot, fileVars, l, totalBytes, n, pipe, s3Vars, sink>>

Broadcast(c) ==
  /\ pc[c] = "broadcasting"
  /\ pc' = [d \in Chunks |-> IF d = c THEN "returned"
                             ELSE IF pc[d] = "waiting" THEN "locking" ELSE pc[d]]
  /\ UNCHANGED <<status, slot, fileVars, l, totalBytes, n, pipe, s3Vars, sink>>

\* Do logs the error of WriteAt, if any; its deferred File.Done counts down and
\* the worker is free.
FinishJob(c) ==
  /\ pc[c] = "returned"
  /\ \E w \in Workers : Pool!Finish(c, w)
  /\ wg' = wg - 1
  /\ UNCHANGED <<handler, added, writeVars, pipe, s3Vars, sink>>

-----------------------------------------------------------------------------
(* The goroutine of writeHandler or appendHandler.                          *)

\* The reader takes a byte of the Write under way. The mutant reads the bytes
\* of a Write twice, as a retry of Upload on the same pipe would.
ReadByteAgain ==
  /\ uploader = "reading"
  /\ pipe # "broken"
  /\ \E c \in Chunks :
       /\ pc[c] = "writing"
       /\ n < Length[c]
       /\ sink' = sink \o <<Offset[c] + n, Offset[c] + n>>
  /\ n' = n + 1
  /\ UNCHANGED <<status, slot, fileVars, pc, l, totalBytes, pipe, s3Vars>>

ReadByte ==
  /\ uploader = "reading"
  /\ pipe # "broken"
  /\ \E c \in Chunks :
       /\ pc[c] = "writing"
       /\ n < Length[c]
       /\ sink' = Append(sink, Offset[c] + n)
  /\ n' = n + 1
  /\ UNCHANGED <<status, slot, fileVars, pc, l, totalBytes, pipe, s3Vars>>

\* appendHandler: CreateMultipartUpload, then UploadPartCopy, then ReadAll.
NextStage ==
  /\ \/ uploader = "creating" /\ uploader' = "copying"
     \/ uploader = "copying" /\ uploader' = "reading"
     \/ uploader = "uploading" /\ uploader' = "completing"
  /\ UNCHANGED <<status, slot, fileVars, writeVars, pipe, append, object, sink>>

\* The end of the stream. Upload stores the object; appendHandler has all the
\* data and goes on to UploadPart.
ReadEOF ==
  /\ uploader = "reading"
  /\ pipe = "eof"
  /\ IF append
     THEN uploader' = "uploading" /\ UNCHANGED object
     ELSE uploader' = "releasing" /\ object' = sink
  /\ UNCHANGED <<status, slot, fileVars, writeVars, pipe, append, sink>>

\* CompleteMultipartUpload makes the appended object visible.
Complete ==
  /\ uploader = "completing"
  /\ uploader' = "releasing"
  /\ object' = sink
  /\ UNCHANGED <<status, slot, fileVars, writeVars, pipe, append, sink>>

\* A call to S3 fails. The error is logged and closes the writer, the deferred
\* function closes the reader and blocks on the lock. ReadAll itself cannot
\* fail, so an append fails between its calls only.
\* The mutant returns without the deferred release.
FailWithoutRelease ==
  /\ \/ uploader \in {"creating", "copying", "uploading", "completing"}
     \/ uploader = "reading" /\ ~append
  /\ uploader' = "gone"
  /\ pipe' = "broken"
  /\ UNCHANGED <<status, slot, fileVars, writeVars, append, object, sink>>

Fail ==
  /\ \/ uploader \in {"creating", "copying", "uploading", "completing"}
     \/ uploader = "reading" /\ ~append
  /\ uploader' = "releasing"
  /\ pipe' = "broken"
  /\ UNCHANGED <<status, slot, fileVars, writeVars, append, object, sink>>

Next ==
  \/ AddChunk \/ Close \/ CloseWriter \/ Unlock
  \/ \E c \in Chunks :
       StartJob(c) \/ Lock(c) \/ WriteReturns(c) \/ Broadcast(c) \/ FinishJob(c)
  \/ ReadByte \/ NextStage \/ ReadEOF \/ Complete \/ Fail

-----------------------------------------------------------------------------
(* Every goroutine that can run does; a call to S3 returns. A job gets a    *)
(* worker as long as one is free. Nothing makes a call to S3 fail.          *)

Fairness ==
  /\ WF_vars(Close) /\ WF_vars(CloseWriter) /\ WF_vars(Unlock)
  /\ \A c \in Chunks :
       /\ WF_vars(StartJob(c))
       /\ WF_vars(Lock(c))
       /\ WF_vars(WriteReturns(c) \/ Broadcast(c) \/ FinishJob(c))
  /\ WF_vars(ReadByte) /\ WF_vars(NextStage) /\ WF_vars(ReadEOF \/ Complete)

Spec == Init /\ [][Next]_vars

FairSpec == Spec /\ Fairness

-----------------------------------------------------------------------------
(* Properties.                                                              *)

\* The stream S3 reads is the file from its first byte, without a gap, a
\* repetition or a swap, though the jobs run in any order.
InOrder == \A i \in 1..Len(sink) : sink[i] = i - 1

\* A WriteAt sleeps on the condition with its turn come only while another one
\* is on its way to Broadcast: no wakeup is lost between Unlock and Broadcast.
NoLostWakeup ==
  \A c \in Chunks :
    pc[c] = "waiting" /\ totalBytes >= Offset[c]
      => \E d \in Chunks : pc[d] = "broadcasting"

\* The bytes of the chunks that were given to the Dispatcher.
Given == IF added = 0 THEN 0 ELSE Offset[added] + Length[added]

\* The object, once visible, has as many bytes as were given to the
\* Dispatcher: File.Close ends the stream only after the last job is done.
ObjectIsWhole ==
  object # NoObject =>
    /\ handler \in {"locked", "closed"}
    /\ Len(object) = Given

\* The file implements the sequential object: what was handed over is in the
\* store byte for byte and in the order of the file, and the object is just that.
Sequential == INSTANCE SequentialObject WITH given <- Given, received <- sink

ImplementsSequential == Sequential!Spec

\* Why a File.Close may never return. The jobs of later chunks have all the
\* workers and wait for a chunk whose job has none; or a failed call to S3 broke
\* the pipe, so that a chunk is missing for ever and the later ones wait for it.
NoWorkerForTheNext ==
  /\ \A w \in Workers : slot[w] # NoChunk /\ pc[slot[w]] = "waiting"
  /\ \E c \in Chunks : status[c] = "accepted" /\ Offset[c] <= totalBytes

StuckBehindFailure ==
  /\ pipe = "broken"
  /\ \E c \in Chunks : pc[c] = "waiting" /\ totalBytes < Offset[c]

\* Closing the file returns, with the goroutine of the uploader released, but
\* for these two cases.
CloseReturns ==
  handler = "waiting" ~>
    (handler = "closed" \/ []NoWorkerForTheNext \/ []StuckBehindFailure)
=============================================================================
