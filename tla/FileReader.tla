----------------------------- MODULE FileReader -----------------------------
(***************************************************************************)
(* A File that is opened for reading (io/localio, io/s3io, io/file.go). A  *)
(* goroutine of its own copies the file or the object into a pipe; Read is *)
(* a read of that pipe. A pipe has no buffer: the write of a chunk ends    *)
(* when it has been read or one end has been closed.                       *)
(*                                                                         *)
(* The module has no specification of its own: Download and RemoteWrite    *)
(* read the file, Transfer puts them together.                             *)
(***************************************************************************)
EXTENDS Naturals

CONSTANT NumChunks  \* the file is the chunks 1..NumChunks

ASSUME FileAssumption == NumChunks \in Nat

VARIABLES
  kind,      \* the type of the file system in the request's options
  copier,    \* where the goroutine of readHandler stands
  read,      \* how many chunks it has read from the file
  readEnd,   \* the pipe was closed at the end that is read
  writeEnd,  \* and at the end that is written
  broken     \* what went wrong at the source (history)

fileVars == <<kind, copier, read, readEnd, writeEnd, broken>>

FileTypeOK ==
  /\ kind \in {"local", "s3", "other"}
  /\ copier \in {"none", "getting", "copying", "writing", "done"}
  /\ read \in 0..NumChunks
  /\ readEnd \in BOOLEAN
  /\ writeEnd \in BOOLEAN
  /\ broken \in {"no", "object", "body"}
  /\ writeEnd <=> copier = "done"
  /\ readEnd <=> broken = "object"

\* How the goroutine starts: the one of S3 asks for the object first.
Started == IF kind = "s3" THEN "getting" ELSE "copying"

GetObject ==
  /\ copier = "getting"
  /\ copier' = "copying"
  /\ UNCHANGED <<kind, read, readEnd, writeEnd, broken>>

\* CloseWithError is called on the reader of the pipe, so that it is the reads
\* of the file that find a closed pipe; the deferred Close follows.
GetObjectFails ==
  /\ copier = "getting"
  /\ copier' = "done"
  /\ readEnd' = TRUE
  /\ writeEnd' = TRUE
  /\ broken' = "object"
  /\ UNCHANGED <<kind, read>>

\* io.Copy reads a chunk and writes it to the pipe, where it waits.
ReadSource ==
  /\ copier = "copying"
  /\ read < NumChunks
  /\ read' = read + 1
  /\ copier' = "writing"
  /\ UNCHANGED <<kind, readEnd, writeEnd, broken>>

\* The copy ends with the file, or with an error that nobody looks at: the
\* deferred Close tells both as the end of the file.
EndSource ==
  /\ copier = "copying"
  /\ broken' \in {"no", "body"}
  /\ read < NumChunks => broken' = "body"
  /\ copier' = "done"
  /\ writeEnd' = TRUE
  /\ UNCHANGED <<kind, read, readEnd>>

CopierNext == GetObject \/ GetObjectFails \/ ReadSource \/ EndSource

-----------------------------------------------------------------------------
(* Reader.Read, as its caller sees it.                                      *)

\* The chunk that is being written is handed over.
ReadChunk ==
  /\ copier = "writing"
  /\ copier' = "copying"
  /\ UNCHANGED <<kind, read, readEnd, writeEnd, broken>>

\* Read returns io.EOF.
AtEOF == writeEnd /\ ~readEnd

\* Read returns io.ErrClosedPipe.
ReadFails == readEnd

=============================================================================
