------------------------------ MODULE Download ------------------------------
(***************************************************************************)
(* A GET to server/middleware/pydiodownload. ServeHTTP waits in errHandle  *)
(* for the goroutine that runs handle, or for the end of the request's     *)
(* context; handle reads the values of the rules, opens the file and       *)
(* copies it to the response.                                              *)
(*                                                                         *)
(* The Close of a File that was opened for reading does nothing: a local   *)
(* one has no Writer, the one of S3 is nil.                                *)
(***************************************************************************)
EXTENDS FileReader

VARIABLES
  cancelled,   \* the request's context is done
  clientGone,  \* writes of the response fail
  serve,       \* where ServeHTTP stands
  handler,     \* where the goroutine that runs handle stands
  received,    \* how many chunks were written to the response
  late         \* a write came after ServeHTTP had returned (history)

downloadVars == <<cancelled, clientGone, serve, handler, received, late>>

DownloadTypeOK ==
  /\ cancelled \in BOOLEAN
  /\ clientGone \in BOOLEAN
  /\ serve \in {"none", "checking", "waiting", "ok", "failed"}
  /\ handler \in {"none", "values", "open", "copying", "writing", "ok", "error", "crashed"}
  /\ received \in 0..NumChunks
  /\ late \in BOOLEAN
  /\ received <= read
  /\ handler \in {"copying", "writing"} => copier # "none"

\* The client goes away; the context may follow, or be cancelled by a job.
Leave ==
  /\ serve # "none" /\ ~clientGone
  /\ clientGone' = TRUE
  /\ UNCHANGED <<cancelled, serve, handler, received, late, fileVars>>

Cancel ==
  /\ serve # "none" /\ ~cancelled
  /\ cancelled' = TRUE
  /\ UNCHANGED <<clientGone, serve, handler, received, late, fileVars>>

-----------------------------------------------------------------------------
(* ServeHTTP and errHandle.                                                 *)

Serve ==
  /\ serve = "checking"
  /\ IF cancelled
     THEN serve' = "failed" /\ UNCHANGED handler
     ELSE serve' = "waiting" /\ handler' = "values"
  /\ UNCHANGED <<cancelled, clientGone, received, late, fileVars>>

\* The channel of the result has room for it: handle does not wait.
TakeResult ==
  /\ serve = "waiting"
  /\ \/ handler = "ok" /\ serve' = "ok"
     \/ handler = "error" /\ serve' = "failed"
  /\ UNCHANGED <<cancelled, clientGone, handler, received, late, fileVars>>

\* The mutant reaches the return of NewStatusOK at the end of errHandle.
GiveUpQuietly ==
  /\ serve = "waiting" /\ cancelled
  /\ serve' = "ok"
  /\ UNCHANGED <<cancelled, clientGone, handler, received, late, fileVars>>

GiveUp ==
  /\ serve = "waiting" /\ cancelled
  /\ serve' = "failed"
  /\ UNCHANGED <<cancelled, clientGone, handler, received, late, fileVars>>

-----------------------------------------------------------------------------
(* handle.                                                                  *)

\* getValue of the node and of the options, whose path may be empty.
Values ==
  /\ handler = "values"
  /\ handler' \in {"open", "error"}
  /\ UNCHANGED <<cancelled, clientGone, serve, received, late, fileVars>>

Open ==
  /\ handler = "open" /\ kind # "other"
  /\ \/ handler' = "copying" /\ copier' = Started
     \/ handler' = "error" /\ UNCHANGED copier
  /\ UNCHANGED <<cancelled, clientGone, serve, received, late,
                 kind, read, readEnd, writeEnd, broken>>

\* No other type opens a file: io.Copy reads from a nil File, in a goroutine
\* without a recover.
OpenNothing ==
  /\ handler = "open" /\ kind = "other"
  /\ handler' = "crashed"
  /\ UNCHANGED <<cancelled, clientGone, serve, received, late, fileVars>>

CopyRead ==
  /\ handler = "copying"
  /\ handler' = "writing"
  /\ ReadChunk
  /\ UNCHANGED <<cancelled, clientGone, serve, received, late>>

\* The error of io.Copy is not looked at.
CopyEnds ==
  /\ handler = "copying" /\ (AtEOF \/ ReadFails)
  /\ handler' = "ok"
  /\ UNCHANGED <<cancelled, clientGone, serve, received, late, fileVars>>

\* A write fails once the client has gone. Behind the end of ServeHTTP net/http has taken
\* the writer of the response back, and promises nothing: the write goes to some buffer,
\* fails, or panics, in a goroutine without a recover.
CopyWrite ==
  /\ handler = "writing"
  /\ \/ /\ ~clientGone
        /\ handler' = "copying"
        /\ received' = received + 1
     \/ /\ clientGone \/ serve # "waiting"
        /\ handler' = "ok"
        /\ UNCHANGED received
     \/ /\ serve # "waiting"
        /\ handler' = "crashed"
        /\ UNCHANGED received
  /\ late' = (late \/ serve # "waiting")
  /\ UNCHANGED <<cancelled, clientGone, serve, fileVars>>

HandlerNext == Values \/ Open \/ OpenNothing \/ CopyRead \/ CopyEnds \/ CopyWrite
ServeNext == Serve \/ TakeResult \/ GiveUp

=============================================================================
