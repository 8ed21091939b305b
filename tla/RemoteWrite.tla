---------------------------- MODULE RemoteWrite ----------------------------
(***************************************************************************)
(* remoteio.Write: a reader, here a File of FileReader, is sent to the     *)
(* backend as the file of a multipart request. WriteBody writes the body   *)
(* into a pipe that the transport of the HTTP client reads; a second       *)
(* goroutine waits for its number of bytes and then closes the pipe.       *)
(*                                                                         *)
(* A backend may answer before the body has ended, and the connection may  *)
(* fail at any time; Write then returns and closes its end of the pipe.    *)
(***************************************************************************)
EXTENDS FileReader

VARIABLES
  main,      \* where Write stands
  body,      \* where the goroutine of WriteBody stands
  closer,    \* where the goroutine that closes the pipe stands
  count,     \* numBytes, in chunks
  result,    \* the number Write returns
  sent,      \* how many chunks WriteBody has copied
  got,       \* how many of them the transport has read
  bodyRead,  \* Write has closed the end of the pipe that the transport reads
  bodyEnd,   \* the pipe is closed at the other end: the body is complete
  answer,    \* what client.Do returns
  early      \* it came before the body was complete (history)

remoteVars == <<main, body, closer, count, result, sent, got, bodyRead,
                bodyEnd, answer, early>>

RemoteTypeOK ==
  /\ main \in {"none", "requesting", "ok", "failed"}
  /\ body \in {"none", "fields", "copying", "writing", "trailer", "sending",
               "nil", "done", "crashed"}
  /\ closer \in {"none", "waiting", "closing", "done"}
  /\ {count, result, sent, got} \subseteq 0..NumChunks
  /\ bodyRead \in BOOLEAN
  /\ bodyEnd \in BOOLEAN
  /\ answer \in {"none", "ok", "refused", "error"}
  /\ early \in BOOLEAN
  /\ bodyRead <=> main \in {"ok", "failed"}
  /\ bodyEnd <=> closer = "done"
  /\ got <= sent /\ sent <= read
  /\ bodyEnd => body = "done" /\ got = sent

-----------------------------------------------------------------------------
(* Write and the transport.                                                 *)

\* The transport reads what WriteBody writes, until the request has failed.
TransportReads == ~bodyRead /\ answer # "error"

\* The answer of the backend or an error of the connection.
Answer ==
  /\ main = "requesting" /\ answer = "none"
  /\ answer' \in {"ok", "refused", "error"}
  /\ early' = ~bodyEnd
  /\ UNCHANGED <<main, body, closer, count, result, sent, got, bodyRead,
                 bodyEnd, fileVars>>

\* numBytes is read without a lock; the deferred Close follows.
Return ==
  /\ main = "requesting" /\ answer # "none"
  /\ IF answer = "ok"
     THEN main' = "ok" /\ result' = count
     ELSE main' = "failed" /\ result' = 0
  /\ bodyRead' = TRUE
  /\ UNCHANGED <<body, closer, count, sent, got, bodyEnd, answer, early, fileVars>>

-----------------------------------------------------------------------------
(* WriteBody.                                                               *)

\* The errors of the fields and of CreateFormFile are ignored: on a closed pipe
\* the latter returns a nil writer.
WriteFields ==
  /\ body = "fields"
  /\ \/ TransportReads /\ body' = "copying"
     \/ bodyRead /\ body' = "nil"
  /\ UNCHANGED <<main, closer, count, result, sent, got, bodyRead, bodyEnd,
                 answer, early, fileVars>>

\* io.Copy reads the source.
CopyChunk ==
  /\ body = "copying"
  /\ body' = "writing"
  /\ sent' = sent + 1
  /\ ReadChunk
  /\ UNCHANGED <<main, closer, count, result, got, bodyRead, bodyEnd, answer, early>>

\* On an error WriteBody returns without a word to the other goroutine.
CopyStops ==
  /\ body = "copying"
  /\ \/ AtEOF /\ body' = "trailer"
     \/ ReadFails /\ body' = "done"
  /\ UNCHANGED <<main, closer, count, result, sent, got, bodyRead, bodyEnd,
                 answer, early, fileVars>>

\* Copying to a nil writer: the first chunk is a nil dereference; without one
\* the Close of the multipart writer fails.
CopyToNil ==
  /\ body = "nil"
  /\ \/ ReadChunk /\ body' = "crashed"
     \/ (AtEOF \/ ReadFails) /\ body' = "done" /\ UNCHANGED fileVars
  /\ UNCHANGED <<main, closer, count, result, sent, got, bodyRead, bodyEnd,
                 answer, early>>

WriteChunk ==
  /\ body = "writing"
  /\ \/ TransportReads /\ body' = "copying" /\ got' = got + 1
     \/ bodyRead /\ body' = "done" /\ UNCHANGED got
  /\ UNCHANGED <<main, closer, count, result, sent, bodyRead, bodyEnd, answer,
                 early, fileVars>>

WriteTrailer ==
  /\ body = "trailer"
  /\ \/ TransportReads /\ body' = "sending"
     \/ bodyRead /\ body' = "done"
  /\ UNCHANGED <<main, closer, count, result, sent, got, bodyRead, bodyEnd,
                 answer, early, fileVars>>

\* The mutant lets WriteBody end before its number of bytes is stored.
SendCountLater ==
  /\ body = "sending" /\ closer = "waiting"
  /\ body' = "done" /\ closer' = "closing"
  /\ UNCHANGED <<count, main, result, sent, got, bodyRead, bodyEnd, answer,
                 early, fileVars>>

\* The rendezvous of c <- numBytes and numBytes = <-done.
SendCount ==
  /\ body = "sending" /\ closer = "waiting"
  /\ body' = "done" /\ closer' = "closing"
  /\ count' = sent
  /\ UNCHANGED <<main, result, sent, got, bodyRead, bodyEnd, answer, early, fileVars>>

\* The mutant closes the pipe without waiting for the number.
ClosePipeAtOnce ==
  /\ closer \in {"waiting", "closing"}
  /\ closer' = "done"
  /\ bodyEnd' = TRUE
  /\ UNCHANGED <<main, body, count, result, sent, got, bodyRead, answer, early,
                 fileVars>>

\* The mutant only counts.
PipeLeftOpen ==
  /\ closer = "closing"
  /\ UNCHANGED <<remoteVars, fileVars>>

ClosePipe ==
  /\ closer = "closing"
  /\ closer' = "done"
  /\ bodyEnd' = TRUE
  /\ UNCHANGED <<main, body, count, result, sent, got, bodyRead, answer, early,
                 fileVars>>

BodyNext == WriteFields \/ CopyChunk \/ CopyStops \/ CopyToNil \/ WriteChunk
            \/ WriteTrailer \/ SendCount

=============================================================================
