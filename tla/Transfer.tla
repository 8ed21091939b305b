------------------------------ MODULE Transfer ------------------------------
(***************************************************************************)
(* The two uses of a file opened for reading, one per behaviour: a         *)
(* Download sends it to the client, a RemoteWrite to the backend.          *)
(***************************************************************************)
EXTENDS Download, RemoteWrite

vars == <<fileVars, downloadVars, remoteVars>>

TypeOK == FileTypeOK /\ DownloadTypeOK /\ RemoteTypeOK

Init ==
  /\ read = 0
  /\ readEnd = FALSE
  /\ writeEnd = FALSE
  /\ broken = "no"
  /\ received = 0
  /\ late = FALSE
  /\ cancelled = FALSE
  /\ clientGone = FALSE
  /\ handler = "none"
  /\ count = 0
  /\ result = 0
  /\ sent = 0
  /\ got = 0
  /\ bodyRead = FALSE
  /\ bodyEnd = FALSE
  /\ answer = "none"
  /\ early = FALSE
  /\ \/ /\ kind \in {"local", "s3", "other"}
        /\ copier = "none"
        /\ serve = "checking"
        /\ main = "none" /\ body = "none" /\ closer = "none"
     \/ /\ kind \in {"local", "s3"}
        /\ copier = Started
        /\ serve = "none"
        /\ main = "requesting" /\ body = "fields" /\ closer = "waiting"

\* A panic in a goroutine without a recover ends the process: a nil dereference, or the
\* write of a response that is over.
Crashed == handler = "crashed" \/ body = "crashed"

File == CopierNext /\ UNCHANGED <<downloadVars, remoteVars>>
ToClient == (ServeNext \/ HandlerNext) /\ UNCHANGED remoteVars
Client == (Leave \/ Cancel) /\ UNCHANGED remoteVars
ToBackend == (BodyNext \/ ClosePipe \/ Return) /\ UNCHANGED downloadVars
Backend == Answer /\ UNCHANGED downloadVars

Next ==
  /\ ~Crashed
  /\ File \/ ToClient \/ Client \/ ToBackend \/ Backend

Spec == Init /\ [][Next]_vars

-----------------------------------------------------------------------------
(* Goroutines that can run do; reads of files and calls to S3 return; a     *)
(* client takes what is written to it or is gone; a backend answers a       *)
(* request whose body is complete. Nobody has to leave or to cancel.        *)

FairSpec ==
  /\ Spec
  /\ WF_vars(~Crashed /\ File)
  /\ WF_vars(~Crashed /\ ServeNext /\ UNCHANGED remoteVars)
  /\ WF_vars(~Crashed /\ HandlerNext /\ UNCHANGED remoteVars)
  /\ WF_vars(~Crashed /\ BodyNext /\ UNCHANGED downloadVars)
  /\ WF_vars(~Crashed /\ (ClosePipe \/ Return) /\ UNCHANGED downloadVars)
  /\ WF_vars(~Crashed /\ bodyEnd /\ Backend)

-----------------------------------------------------------------------------
(* A download that is answered as a success has sent the whole file, unless *)
(* its client left or its source broke off, which handle does not see, and  *)
(* writes to the response after ServeHTTP has returned only if the context  *)
(* was done. Write counts what the backend has been sent, all of the file   *)
(* unless its source broke off; an answer before the end of the body leaves *)
(* the count open.                                                          *)
ResultIsTrue ==
  /\ serve = "ok" /\ ~clientGone /\ broken = "no" => received = NumChunks
  /\ late => cancelled
  /\ main = "ok" /\ ~early => result = got /\ (broken = "no" => got = NumChunks)

-----------------------------------------------------------------------------
(* Every goroutine of a transfer ends, except where the code leaves it:     *)
(*  - an unknown type of file system ends the process in the handler, a     *)
(*    write of a response that is over may, and an answer before the file   *)
(*    has begun ends it in WriteBody;                                       *)
(*  - nobody closes the pipe of a file whose reader stops early, because    *)
(*    the client has gone, the response is over or the backend has          *)
(*    answered: its goroutine stays;                                        *)
(*  - WriteBody does not tell of an error: when the object cannot be read   *)
(*    the body of the request never ends, and neither does Write until the  *)
(*    backend gives up; the goroutine that waits for the number stays, also *)
(*    after an early answer.                                                *)
Ended ==
  \/ handler = "crashed" /\ (kind = "other" \/ late)
  \/ body = "crashed" /\ early
  \/ /\ serve \in {"none", "ok", "failed"}
     /\ handler \in {"none", "ok", "error"}
     /\ \/ copier \in {"none", "done"}
        \/ copier = "writing" /\ (clientGone \/ early \/ late)
     /\ body \in {"none", "done"}
     /\ main \in {"none", "ok", "failed"} \/ broken = "object"
     /\ closer \in {"none", "done"} \/ broken = "object" \/ early

TransferEnds == <>Ended

=============================================================================
