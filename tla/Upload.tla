------------------------------- MODULE Upload -------------------------------
(***************************************************************************)
(* A POST to server/middleware/pydioupload whose files go to the local     *)
(* file system. ServeHTTP waits in errHandle for the goroutine that runs   *)
(* handle, or for the end of the request's context; handle cuts each file  *)
(* of the body in chunks, adds one job per chunk to the Dispatcher and     *)
(* closes the files by deferred calls when it returns; the jobs write the  *)
(* chunks in any order.                                                    *)
(*                                                                         *)
(* Every file part of a request is written to the one path of its options. *)
(* The file may have been there: it is not truncated (handler.go:210), and *)
(* Nothing also stands for what it held. Places are those of the request:  *)
(* an old file that is longer keeps its end, whatever is uploaded.         *)
(*                                                                         *)
(* The read of the request's values is a choice between a value and an     *)
(* error here; ContextValue has its details.                               *)
(***************************************************************************)
EXTENDS Naturals, Sequences, FiniteSets

CONSTANTS
  NumParts,   \* the file parts of the body are 1..NumParts
  NumChunks,  \* NumChunks[p]: how many chunks part p has
  Workers,    \* the workers of the Dispatcher
  NoJob,
  Nothing     \* what a place holds that the request has not written

Parts == 1..NumParts
Jobs == UNION {{p} \X (1..NumChunks[p]) : p \in Parts}
Places == UNION {1..NumChunks[p] : p \in Parts}

ASSUME UploadAssumption ==
  /\ NumParts \in Nat
  /\ NumChunks \in [Parts -> Nat \ {0}]
  /\ NoJob \notin Jobs
  /\ Nothing \notin Parts

VARIABLES
  status, slot,  \* the jobs, as JobService describes them
  serve,         \* where ServeHTTP stands
  cancelled,     \* the request's context is done
  cut,           \* reading the body fails from now on
  f,             \* where the goroutine that runs handle stands
  part, chunk,   \* the part it is at, the chunks of it that it has added
  result,        \* what handle returns
  file,          \* file[p]: the File opened for part p
  wg,            \* wg[p]: the WaitGroup of that File
  written,       \* written[j]: what the WriteAt of job j did
  content        \* content[c]: the part whose chunk c is in the file

requestVars == <<serve, cancelled, cut>>
handleVars == <<f, part, chunk, result>>
vars == <<status, slot, requestVars, handleVars, file, wg, written, content>>

Pool == INSTANCE JobService WITH Slots <- Workers

TypeOK ==
  /\ status \in [Jobs -> {"new", "accepted", "running", "done"}]
  /\ slot \in [Workers -> Jobs \union {NoJob}]
  /\ serve \in {"checking", "waiting", "next", "failed"}
  /\ cancelled \in BOOLEAN
  /\ cut \in BOOLEAN
  /\ f \in {"idle", "parts", "values", "opening", "copying", "closing", "sent", "crashed"}
  /\ part \in 0..NumParts
  /\ chunk \in Nat
  /\ result \in {"none", "ok", "error"}
  /\ file \in [Parts -> {"none", "open", "nil", "closed"}]
  /\ wg \in [Parts -> Nat]
  /\ written \in [Jobs -> {"no", "yes", "failed"}]
  /\ content \in [Places -> Parts \union {Nothing}]

Init ==
  /\ Pool!Init
  /\ serve = "checking"
  /\ cancelled = FALSE
  /\ cut = FALSE
  /\ f = "idle"
  /\ part = 0
  /\ chunk = 0
  /\ result = "none"
  /\ file = [p \in Parts |-> "none"]
  /\ wg = [p \in Parts |-> 0]
  /\ written = [j \in Jobs |-> "no"]
  /\ content = [c \in Places |-> Nothing]

-----------------------------------------------------------------------------
(* The client and the other middlewares.                                    *)

\* The client goes away, or a job of the rules calls the request's cancel.
Cancel ==
  /\ ~cancelled
  /\ cancelled' = TRUE
  /\ UNCHANGED <<status, slot, serve, cut, handleVars, file, wg, written, content>>

\* The connection breaks in the middle of the body.
Cut ==
  /\ ~cut
  /\ cut' = TRUE
  /\ UNCHANGED <<status, slot, serve, cancelled, handleVars, file, wg, written, content>>

-----------------------------------------------------------------------------
(* ServeHTTP and errHandle.                                                 *)

CheckContext ==
  /\ serve = "checking"
  /\ IF cancelled
     THEN serve' = "failed" /\ UNCHANGED f
     ELSE serve' = "waiting" /\ f' = "parts"
  /\ UNCHANGED <<status, slot, cancelled, cut, part, chunk, result, file, wg, written, content>>

\* The select takes the result or the end of the context, whichever it likes
\* when both are there. handle goes on without a listener in the second case.
Return ==
  /\ serve = "waiting"
  /\ \/ f = "sent" /\ serve' = IF result = "ok" THEN "next" ELSE "failed"
     \/ cancelled /\ serve' = "failed"
  /\ UNCHANGED <<status, slot, cancelled, cut, handleVars, file, wg, written, content>>

-----------------------------------------------------------------------------
(* handle.                                                                  *)

\* mr.NextPart. The loop leaves with StatusOK at the end of the body, and at an
\* error too, when the part is nil.
NextPart ==
  /\ f = "parts"
  /\ IF part < NumParts /\ ~cut
     THEN /\ part' = part + 1
          /\ f' = "values"
          /\ UNCHANGED result
     ELSE /\ f' = "closing"
          /\ result' = "ok"
          /\ UNCHANGED part
  /\ UNCHANGED <<status, slot, requestVars, chunk, file, wg, written, content>>

\* The node and the options come from the context, or the handler returns.
GetValues ==
  /\ f = "values"
  /\ \/ f' = "opening" /\ UNCHANGED result
     \/ f' = "closing" /\ result' = "error"
  /\ UNCHANGED <<status, slot, requestVars, part, chunk, file, wg, written, content>>

\* localio.Open, or nothing at all for a type that is neither fs nor s3: file
\* stays nil and so does err.
Open ==
  /\ f = "opening"
  /\ \/ f' = "copying" /\ file' = [file EXCEPT ![part] = "open"] /\ UNCHANGED result
     \/ f' = "copying" /\ file' = [file EXCEPT ![part] = "nil"] /\ UNCHANGED result
     \/ f' = "closing" /\ result' = "error" /\ UNCHANGED file
  /\ chunk' = 0
  /\ UNCHANGED <<status, slot, requestVars, part, wg, written, content>>

\* CopyN fills a buffer, file.Add(1) counts the job and d.Add passes it on. The
\* mutant passes the job on and never counts it.
AddChunkUncounted ==
  /\ f = "copying"
  /\ ~cut
  /\ file[part] = "open"
  /\ chunk' = chunk + 1
  /\ Pool!Accept(<<part, chunk + 1>>)
  /\ f' = IF chunk + 1 = NumChunks[part] THEN "parts" ELSE "copying"
  /\ UNCHANGED <<requestVars, part, result, file, wg, written, content>>

AddChunk ==
  /\ f = "copying"
  /\ ~cut
  /\ file[part] = "open"
  /\ chunk' = chunk + 1
  /\ wg' = [wg EXCEPT ![part] = @ + 1]
  /\ Pool!Accept(<<part, chunk + 1>>)
  /\ f' = IF chunk + 1 = NumChunks[part] THEN "parts" ELSE "copying"
  /\ UNCHANGED <<requestVars, part, result, file, written, content>>

\* file.Add on the nil File panics in a goroutine nobody recovers.
AddChunkToNil ==
  /\ f = "copying"
  /\ ~cut
  /\ file[part] = "nil"
  /\ f' = "crashed"
  /\ UNCHANGED <<status, slot, requestVars, part, chunk, result, file, wg, written, content>>

\* A read error ends the copy of the part, and nothing more.
CopyFails ==
  /\ f = "copying"
  /\ cut
  /\ f' = "parts"
  /\ UNCHANGED <<status, slot, requestVars, part, chunk, result, file, wg, written, content>>

\* The deferred File.Close calls, the last file first. Each waits for its jobs.
\* The mutant closes the files without the wait.
Unclosed == {p \in Parts : file[p] = "open"}

CloseFileAtOnce ==
  /\ f = "closing"
  /\ \E p \in Unclosed :
       /\ \A q \in Unclosed : q <= p
       /\ file' = [file EXCEPT ![p] = "closed"]
  /\ UNCHANGED <<status, slot, requestVars, handleVars, wg, written, content>>

CloseFile ==
  /\ f = "closing"
  /\ \E p \in Unclosed :
       /\ \A q \in Unclosed : q <= p
       /\ wg[p] = 0
       /\ file' = [file EXCEPT ![p] = "closed"]
  /\ UNCHANGED <<status, slot, requestVars, handleVars, wg, written, content>>

\* c <- f(): the channel has room for the result, so the goroutine ends. The
\* mutant has no room in it.
SendResultUnbuffered ==
  /\ f = "closing"
  /\ Unclosed = {}
  /\ serve = "waiting"
  /\ f' = "sent"
  /\ UNCHANGED <<status, slot, requestVars, part, chunk, result, file, wg, written, content>>

SendResult ==
  /\ f = "closing"
  /\ Unclosed = {}
  /\ f' = "sent"
  /\ UNCHANGED <<status, slot, requestVars, part, chunk, result, file, wg, written, content>>

-----------------------------------------------------------------------------
(* Job.Do.                                                                  *)

StartJob(j) ==
  /\ \E w \in Workers : Pool!Start(j, w)
  /\ UNCHANGED <<requestVars, handleVars, file, wg, written, content>>

\* WriteAt puts the chunk at its place, or fails and is logged. The mutant takes
\* the end of the file for the place of the chunk.
FirstFree == {c \in Places : content[c] = Nothing /\ \A d \in 1..(c - 1) : content[d] # Nothing}

WriteAtEnd(j) ==
  /\ status[j] = "running"
  /\ written[j] = "no"
  /\ written' = [written EXCEPT ![j] = "yes"]
  /\ content' = [c \in Places |-> IF c \in FirstFree THEN j[1] ELSE content[c]]
  /\ UNCHANGED <<status, slot, requestVars, handleVars, file, wg>>

WriteAt(j) ==
  /\ status[j] = "running"
  /\ written[j] = "no"
  /\ \/ /\ file[j[1]] = "open"
        /\ written' = [written EXCEPT ![j] = "yes"]
        /\ content' = [content EXCEPT ![j[2]] = j[1]]
     \/ /\ written' = [written EXCEPT ![j] = "failed"]
        /\ UNCHANGED content
  /\ UNCHANGED <<status, slot, requestVars, handleVars, file, wg>>

\* The deferred File.Done, then the worker is free.
FinishJob(j) ==
  /\ written[j] # "no"
  /\ \E w \in Workers : Pool!Finish(j, w)
  /\ wg' = [wg EXCEPT ![j[1]] = @ - 1]
  /\ UNCHANGED <<requestVars, handleVars, file, written, content>>

\* A panic in any goroutine ends the process.
Next ==
  /\ f # "crashed"
  /\ \/ Cancel \/ Cut
     \/ CheckContext \/ Return
     \/ NextPart \/ GetValues \/ Open \/ AddChunk \/ AddChunkToNil \/ CopyFails
     \/ CloseFile \/ SendResult
     \/ \E j \in Jobs : StartJob(j) \/ WriteAt(j) \/ FinishJob(j)

(* Goroutines run, the body is sent or cut, and the jobs get a worker.      *)
Fairness ==
  /\ WF_vars(CheckContext) /\ WF_vars(Return)
  /\ WF_vars(NextPart \/ GetValues \/ Open \/ AddChunk \/ AddChunkToNil \/ CopyFails
               \/ CloseFile \/ SendResult)
  /\ \A j \in Jobs : WF_vars(StartJob(j) \/ WriteAt(j) \/ FinishJob(j))

Spec == Init /\ [][Next]_vars

FairSpec == Spec /\ Fairness

-----------------------------------------------------------------------------
(* Properties.                                                              *)

\* No job writes to a file that the handler has closed: a job that the Dispatcher
\* has and that is not done keeps its file open.
JobsHaveOpenFile ==
  \A j \in Jobs : status[j] \in {"accepted", "running"} => file[j[1]] = "open"

\* When the middleware passes the request on, nothing of the upload is under
\* way any more: no job is queued or running and no file is open.
PassedOnWhenDone ==
  serve = "next" =>
    /\ \A j \in Jobs : status[j] \in {"new", "done"}
    /\ Unclosed = {}

\* A request that is passed on, whose body was not cut and whose writes did not
\* fail, has written every place there is for its chunks, each by a part that has that
\* chunk: with one part the file begins with the body as it was sent. What an older
\* and longer file has behind it stays there.
StoredWhole ==
  serve = "next" /\ ~cut /\ (\A j \in Jobs : written[j] # "failed") =>
    \A c \in Places : content[c] \in Parts /\ c <= NumChunks[content[c]]

\* The request is answered, and the goroutine of handle ends with every file
\* closed, even when nobody waits for its result any more. The process survives
\* unless the options name a type of file system that does not exist.
UploadEnds ==
  serve = "waiting" ~>
    ((serve \in {"next", "failed"} /\ f = "sent" /\ Unclosed = {}) \/ f = "crashed")
=============================================================================
