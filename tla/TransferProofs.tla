--------------------------- MODULE TransferProofs ---------------------------
(***************************************************************************)
(* Transfer for a file of any number of chunks: a download answered as a   *)
(* success and the number of a remote write say what was transferred.      *)
(***************************************************************************)
EXTENDS Transfer, TLAPS

OneIf(b) == IF b THEN 1 ELSE 0

Flags ==
  /\ readEnd \in BOOLEAN /\ writeEnd \in BOOLEAN
  /\ cancelled \in BOOLEAN /\ clientGone \in BOOLEAN /\ late \in BOOLEAN
  /\ bodyRead \in BOOLEAN /\ bodyEnd \in BOOLEAN /\ early \in BOOLEAN

\* The rest of TypeOK, and what the copier has read when it ends well.
FileInv ==
  /\ kind \in {"local", "s3", "other"}
  /\ copier \in {"none", "getting", "copying", "writing", "done"}
  /\ read \in 0..NumChunks
  /\ broken \in {"no", "object", "body"}
  /\ broken # "no" => copier = "done"
  /\ copier = "none" => read = 0
  /\ copier = "done" /\ broken = "no" => read = NumChunks

\* What the closed pipes tell.
Ends ==
  /\ writeEnd <=> copier = "done"
  /\ readEnd <=> broken = "object"
  /\ bodyRead <=> main \in {"ok", "failed"}
  /\ bodyEnd <=> closer = "done"

\* A file has one reader.
OneReader ==
  /\ serve # "none" => main = "none" /\ body = "none" /\ closer = "none"
  /\ serve = "none" => handler = "none"

DownloadValues ==
  /\ serve \in {"none", "checking", "waiting", "ok", "failed"}
  /\ handler \in {"none", "values", "open", "copying", "writing", "ok", "error", "crashed"}
  /\ received \in Nat

\* A chunk that was read is at the client, in io.Copy or still in the write of the
\* copier.
DownloadCounts ==
  /\ serve = "checking" => handler = "none" /\ copier = "none"
  /\ serve = "ok" => handler = "ok"
  /\ serve \in {"waiting", "ok"} => handler # "none"
  /\ handler \in {"values", "open"} => copier = "none"
  /\ handler \in {"copying", "writing"} =>
       /\ copier # "none"
       /\ received + OneIf(handler = "writing") + OneIf(copier = "writing") = read
  /\ handler \in {"none", "values", "open"} => received = 0
  /\ received <= read

\* A copy that ends by itself, and not because the client or ServeHTTP has gone.
CopiedAll == handler = "ok" /\ broken = "no" => received = NumChunks

\* handle runs on without a ServeHTTP only if the context was done.
InTime ==
  /\ handler \in {"values", "open", "copying", "writing"} => serve = "waiting" \/ cancelled
  /\ late => cancelled /\ serve = "failed"

RemoteValues ==
  /\ main \in {"none", "requesting", "ok", "failed"}
  /\ body \in {"none", "fields", "copying", "writing", "trailer", "sending",
               "nil", "done", "crashed"}
  /\ closer \in {"none", "waiting", "closing", "done"}
  /\ answer \in {"none", "ok", "refused", "error"}
  /\ sent \in Nat /\ got \in Nat
  /\ count \in 0..NumChunks /\ result \in 0..NumChunks

\* The same for a chunk of a remote write, up to the transport; the pipe is closed
\* when the number that was sent is known.
RemoteCounts ==
  /\ body \in {"none", "fields", "nil"} => sent = 0 /\ got = 0
  /\ body \in {"fields", "copying", "writing", "trailer", "sending"} =>
       sent + OneIf(copier = "writing") = read
  /\ body \in {"copying", "writing", "trailer", "sending"} =>
       got + OneIf(body = "writing") = sent
  /\ got <= sent /\ sent <= read
  /\ body \in {"trailer", "sending"} => copier = "done"
  /\ closer \in {"closing", "done"} =>
       body = "done" /\ copier = "done" /\ count = sent /\ got = sent /\ sent = read

\* An answer that was not early came after the end of the body.
Answered ==
  /\ answer # "none" /\ ~early => closer = "done"
  /\ main \in {"ok", "failed"} => answer # "none"
  /\ main = "ok" /\ ~early => result = count

\* The inductive invariant.
IInv ==
  /\ Flags /\ FileInv /\ Ends /\ OneReader
  /\ DownloadValues /\ DownloadCounts /\ (clientGone \/ late \/ CopiedAll) /\ InTime
  /\ RemoteValues /\ RemoteCounts /\ Answered

-----------------------------------------------------------------------------
(* The invariant, one lemma for each group of conjuncts.                    *)

LEMMA InitIInv == Init => IInv
<1> SUFFICES ASSUME Init PROVE IInv
  OBVIOUS
<1>1. /\ Flags
      /\ readEnd = FALSE /\ writeEnd = FALSE /\ late = FALSE /\ bodyRead = FALSE /\ bodyEnd = FALSE
  BY DEF Init, Flags
<1>2. /\ read = 0 /\ broken = "no" /\ received = 0 /\ handler = "none" /\ count = 0 /\ result = 0
      /\ sent = 0 /\ got = 0 /\ answer = "none" /\ kind \in {"local", "s3", "other"}
      /\ \/ copier = "none" /\ serve = "checking" /\ main = "none" /\ body = "none" /\ closer = "none"
         \/ /\ copier \in {"getting", "copying"} /\ serve = "none"
            /\ main = "requesting" /\ body = "fields" /\ closer = "waiting"
  BY DEF Init, Started
<1>3. FileInv /\ OneReader
  BY <1>2, FileAssumption DEF FileInv, OneReader
<1>4. Ends
  BY <1>1, <1>2 DEF Ends
<1>5. DownloadValues /\ DownloadCounts
  BY <1>2 DEF DownloadValues, DownloadCounts, OneIf
<1>6. CopiedAll
  BY <1>2 DEF CopiedAll
<1>7. InTime
  BY <1>1, <1>2 DEF InTime
<1>8. RemoteValues /\ RemoteCounts
  BY <1>2, FileAssumption DEF RemoteValues, RemoteCounts, OneIf
<1>9. Answered
  BY <1>2 DEF Answered
<1>10. QED
  BY <1>1, <1>3, <1>4, <1>5, <1>6, <1>7, <1>8, <1>9 DEF IInv

LEMMA FlagsStep == IInv /\ [Next]_vars => Flags'
<1> SUFFICES ASSUME IInv, [Next]_vars PROVE Flags'
  OBVIOUS
<1> USE DEF Flags
<1>0. Flags
  BY DEF IInv
<1>1. CASE File
  BY <1>0, <1>1 DEF File, CopierNext, GetObject, GetObjectFails, ReadSource, EndSource,
     downloadVars, remoteVars
<1>2. CASE ToClient
  BY <1>0, <1>2 DEF ToClient, ServeNext, Serve, TakeResult, GiveUp, HandlerNext, Values, Open,
     OpenNothing, CopyRead, CopyEnds, CopyWrite, ReadChunk, fileVars, remoteVars
<1>3. CASE Client
  BY <1>0, <1>3 DEF Client, Leave, Cancel, fileVars, remoteVars
<1>4. CASE ToBackend
  BY <1>0, <1>4 DEF ToBackend, BodyNext, WriteFields, CopyChunk, CopyStops, CopyToNil,
     WriteChunk, WriteTrailer, SendCount, ClosePipe, Return, ReadChunk, fileVars, downloadVars
<1>5. CASE Backend
  BY <1>0, <1>5 DEF Backend, Answer, fileVars, downloadVars
<1>6. CASE UNCHANGED vars
  BY <1>0, <1>6 DEF vars, fileVars, downloadVars, remoteVars
<1>7. QED
  BY <1>1, <1>2, <1>3, <1>4, <1>5, <1>6 DEF Next

\* What the steps of the readers do to the file: they open it or read a chunk.
LEMMA FileFrame ==
  ASSUME [Next]_vars, ~File
  PROVE  \/ UNCHANGED fileVars
         \/ Open /\ copier' = Started /\ UNCHANGED <<kind, read, readEnd, writeEnd, broken>>
         \/ ReadChunk
<1>1. CASE ToClient
  BY <1>1 DEF ToClient, ServeNext, Serve, TakeResult, GiveUp, HandlerNext, Values, Open,
     OpenNothing, CopyRead, CopyEnds, CopyWrite, fileVars
<1>2. CASE Client \/ Backend
  BY <1>2 DEF Client, Leave, Cancel, Backend, Answer
<1>3. CASE ToBackend
  BY <1>3 DEF ToBackend, BodyNext, WriteFields, CopyChunk, CopyStops, CopyToNil,
     WriteChunk, WriteTrailer, SendCount, ClosePipe, Return
<1>4. CASE UNCHANGED vars
  BY <1>4 DEF vars
<1>5. QED
  BY <1>1, <1>2, <1>3, <1>4 DEF Next

LEMMA FileStep == IInv /\ [Next]_vars => FileInv'
<1> SUFFICES ASSUME IInv, [Next]_vars PROVE FileInv'
  OBVIOUS
<1> USE FileAssumption DEF FileInv
<1>0. FileInv
  BY DEF IInv
<1>1. CASE File
  <2>1. CASE GetObject \/ GetObjectFails
    BY <1>0, <2>1 DEF GetObject, GetObjectFails
  <2>2. CASE ReadSource
    BY <1>0, <2>2 DEF ReadSource
  <2>3. CASE EndSource
    BY <1>0, <2>3 DEF EndSource
  <2>4. QED
    BY <1>1, <2>1, <2>2, <2>3 DEF File, CopierNext
<1>2. CASE UNCHANGED fileVars
  BY <1>0, <1>2 DEF fileVars
<1>3. CASE Open /\ copier' = Started /\ UNCHANGED <<kind, read, readEnd, writeEnd, broken>>
  <2>1. handler = "open" /\ copier = "none"
    BY <1>3 DEF Open, IInv, DownloadCounts
  <2>2. copier' \in {"getting", "copying"} /\ broken = "no"
    BY <1>0, <1>3, <2>1 DEF Started
  <2>3. QED
    BY <1>0, <1>3, <2>2
<1>4. CASE ReadChunk
  BY <1>0, <1>4 DEF ReadChunk
<1>5. QED
  BY <1>1, <1>2, <1>3, <1>4, FileFrame

LEMMA EndsStep == IInv /\ [Next]_vars => Ends'
<1> SUFFICES ASSUME IInv, [Next]_vars PROVE Ends'
  OBVIOUS
<1> USE DEF Ends
<1>0. FileInv /\ Ends
  BY DEF IInv
<1>1. CASE File
  <2>1. UNCHANGED remoteVars
    BY <1>1 DEF File
  <2>2. CASE GetObject
    BY <1>0, <2>1, <2>2 DEF GetObject, remoteVars
  <2>3. CASE GetObjectFails
    BY <1>0, <2>1, <2>3 DEF GetObjectFails, remoteVars
  <2>4. CASE ReadSource
    BY <1>0, <2>1, <2>4 DEF ReadSource, remoteVars
  <2>5. CASE EndSource
    BY <1>0, <2>1, <2>5 DEF EndSource, remoteVars, FileInv
  <2>6. QED
    BY <1>1, <2>2, <2>3, <2>4, <2>5 DEF File, CopierNext
<1>2. ASSUME ~File PROVE (writeEnd <=> copier = "done")' /\ (readEnd <=> broken = "object")'
  <2>1. CASE UNCHANGED fileVars
    BY <1>0, <2>1 DEF fileVars
  <2>2. CASE Open /\ copier' = Started /\ UNCHANGED <<kind, read, readEnd, writeEnd, broken>>
    <3>1. copier = "none" /\ copier' # "done"
      BY <2>2 DEF Open, Started, IInv, DownloadCounts
    <3>2. QED
      BY <1>0, <2>2, <3>1
  <2>3. CASE ReadChunk
    BY <1>0, <2>3 DEF ReadChunk
  <2>4. QED
    BY <1>2, <2>1, <2>2, <2>3, FileFrame
<1>3. ASSUME ~File
      PROVE  (bodyRead <=> main \in {"ok", "failed"})' /\ (bodyEnd <=> closer = "done")'
  <2>1. CASE ToClient \/ Client
    BY <1>0, <2>1 DEF ToClient, Client, remoteVars
  <2>2. CASE WriteFields \/ CopyChunk \/ CopyStops \/ CopyToNil \/ WriteChunk \/ WriteTrailer
    BY <1>0, <2>2 DEF WriteFields, CopyChunk, CopyStops, CopyToNil, WriteChunk, WriteTrailer
  <2>3. CASE SendCount
    BY <1>0, <2>3 DEF SendCount
  <2>4. CASE ClosePipe
    BY <1>0, <2>4 DEF ClosePipe
  <2>5. CASE Return
    BY <1>0, <2>5 DEF Return
  <2>6. CASE Backend
    BY <1>0, <2>6 DEF Backend, Answer
  <2>7. CASE UNCHANGED vars
    BY <1>0, <2>7 DEF vars, remoteVars
  <2>8. QED
    BY <1>3, <2>1, <2>2, <2>3, <2>4, <2>5, <2>6, <2>7 DEF Next, ToBackend, BodyNext
<1>4. QED
  BY <1>1, <1>2, <1>3

LEMMA OneReaderStep == IInv /\ [Next]_vars => OneReader'
<1> SUFFICES ASSUME IInv, [Next]_vars PROVE OneReader'
  OBVIOUS
<1> USE DEF OneReader
<1>0. OneReader /\ DownloadCounts
  BY DEF IInv
<1>1. CASE File \/ UNCHANGED vars
  BY <1>0, <1>1 DEF File, vars, downloadVars, remoteVars
<1>2. CASE ToClient
  BY <1>0, <1>2 DEF ToClient, ServeNext, Serve, TakeResult, GiveUp, HandlerNext, Values, Open,
     OpenNothing, CopyRead, CopyEnds, CopyWrite, remoteVars, DownloadCounts
<1>3. CASE Client
  BY <1>0, <1>3 DEF Client, Leave, Cancel, remoteVars
<1>4. CASE ToBackend
  <2>1. UNCHANGED <<serve, handler>> /\ (closer # "none" \/ body # "none" \/ main # "none")
    BY <1>4 DEF ToBackend, BodyNext, WriteFields, CopyChunk, CopyStops, CopyToNil, WriteChunk,
       WriteTrailer, SendCount, ClosePipe, Return, downloadVars
  <2>2. QED
    BY <1>0, <2>1
<1>5. CASE Backend
  BY <1>0, <1>5 DEF Backend, Answer, downloadVars
<1>6. QED
  BY <1>1, <1>2, <1>3, <1>4, <1>5 DEF Next

LEMMA DownloadStep == IInv /\ [Next]_vars => DownloadValues' /\ DownloadCounts'
<1> SUFFICES ASSUME IInv, [Next]_vars PROVE DownloadValues' /\ DownloadCounts'
  OBVIOUS
<1> USE FileAssumption DEF DownloadValues, DownloadCounts, OneIf
<1>0. FileInv /\ OneReader /\ DownloadValues /\ DownloadCounts
  BY DEF IInv
<1>a. read \in Nat /\ copier \in {"none", "getting", "copying", "writing", "done"}
  BY <1>0 DEF FileInv
<1>1. CASE File
  <2>1. UNCHANGED <<serve, handler, received>>
    BY <1>1 DEF File, downloadVars
  <2>2. CASE GetObject \/ GetObjectFails \/ EndSource
    <3>1. read' = read /\ copier # "none" /\ copier # "writing" /\ copier' \in {"copying", "done"}
      BY <2>2 DEF GetObject, GetObjectFails, EndSource
    <3>2. QED
      BY <1>0, <1>a, <2>1, <3>1
  <2>3. CASE ReadSource
    <3>1. read' = read + 1 /\ copier = "copying" /\ copier' = "writing"
      BY <2>3 DEF ReadSource
    <3>2. QED
      BY <1>0, <1>a, <2>1, <3>1
  <2>4. QED
    BY <1>1, <2>2, <2>3 DEF File, CopierNext
<1>2. CASE Serve \/ TakeResult \/ GiveUp
  BY <1>0, <1>2 DEF Serve, TakeResult, GiveUp, fileVars
<1>3. CASE Values \/ OpenNothing \/ CopyEnds
  BY <1>0, <1>3 DEF Values, OpenNothing, CopyEnds, fileVars
<1>4. CASE Open
  <2>1. /\ handler = "open" /\ UNCHANGED <<serve, received, read>>
        /\ \/ handler' = "copying" /\ copier' \in {"getting", "copying"}
           \/ handler' = "error" /\ copier' = copier
    BY <1>4 DEF Open, Started
  <2>2. copier = "none" /\ received = 0 /\ serve # "checking"
    BY <1>0, <2>1
  <2>3. read = 0
    BY <2>2 DEF IInv, FileInv
  <2>4. QED
    BY <1>0, <2>1, <2>2, <2>3
<1>5. CASE CopyRead
  <2>1. /\ handler = "copying" /\ handler' = "writing" /\ copier = "writing" /\ copier' = "copying"
        /\ UNCHANGED <<serve, received, read>>
    BY <1>5 DEF CopyRead, ReadChunk
  <2>2. QED
    BY <1>0, <1>a, <2>1
<1>6. CASE CopyWrite
  <2>1. /\ handler = "writing" /\ UNCHANGED <<serve, read, copier>>
        /\ \/ handler' \in {"ok", "crashed"} /\ received' = received
           \/ handler' = "copying" /\ received' = received + 1
    BY <1>6 DEF CopyWrite, fileVars
  <2>2. QED
    BY <1>0, <1>a, <2>1
<1>7. CASE Client
  BY <1>0, <1>7 DEF Client, Leave, Cancel, fileVars
<1>8. CASE ToBackend \/ Backend
  <2>1. UNCHANGED <<serve, handler, received>>
    BY <1>8 DEF ToBackend, Backend, downloadVars
  <2>2. UNCHANGED <<copier, read>> \/ (ReadChunk /\ body # "none")
    BY <1>8 DEF ToBackend, Backend, Answer, BodyNext, WriteFields, CopyChunk, CopyStops, CopyToNil,
       WriteChunk, WriteTrailer, SendCount, ClosePipe, Return, fileVars
  <2>3. CASE UNCHANGED <<copier, read>>
    BY <1>0, <2>1, <2>3
  <2>4. CASE ReadChunk /\ body # "none"
    <3>1. serve = "none" /\ handler = "none" /\ read' = read
      BY <1>0, <2>4 DEF OneReader, ReadChunk
    <3>2. QED
      BY <1>0, <2>1, <3>1
  <2>5. QED
    BY <2>2, <2>3, <2>4
<1>9. CASE UNCHANGED vars
  BY <1>0, <1>9 DEF vars, fileVars, downloadVars
<1>10. QED
  BY <1>1, <1>2, <1>3, <1>4, <1>5, <1>6, <1>7, <1>8, <1>9 DEF Next, ToClient, ServeNext, HandlerNext

\* The copy to a client that is there, within the time of ServeHTTP, ends when the pipe
\* has been closed, and then every chunk that was read has gone through it.
LEMMA CopiedStep == IInv /\ [Next]_vars => (clientGone \/ late \/ CopiedAll)'
<1> SUFFICES ASSUME IInv, [Next]_vars, ~clientGone', ~late' PROVE CopiedAll'
  OBVIOUS
<1> USE DEF CopiedAll
<1>0. FileInv /\ Ends /\ DownloadValues /\ DownloadCounts
  BY DEF IInv
<1>1. ~clientGone /\ ~late
  <2>1. CASE UNCHANGED <<clientGone, late>>
    BY <2>1
  <2>2. CASE CopyWrite
    BY <2>2 DEF CopyWrite
  <2>3. CASE Leave
    BY <2>3 DEF Leave
  <2>4. QED
    BY <2>1, <2>2, <2>3 DEF Next, File, ToClient, ServeNext, Serve, TakeResult, GiveUp, HandlerNext,
       Values, Open, OpenNothing, CopyRead, CopyEnds, Client, Cancel, ToBackend, Backend,
       vars, downloadVars
<1>2. CopiedAll
  BY <1>1 DEF IInv
<1>3. broken' = "no" => broken = "no"
  <2>1. File => broken' = broken \/ broken' # "no" \/ broken = "no"
    BY <1>0 DEF File, CopierNext, GetObject, GetObjectFails, ReadSource, EndSource, FileInv
  <2>2. ~File => broken' = broken
    BY FileFrame DEF fileVars, ReadChunk
  <2>3. QED
    BY <2>1, <2>2
<1>4. ASSUME UNCHANGED <<handler, received>> \/ handler' # "ok" PROVE CopiedAll'
  BY <1>2, <1>3, <1>4
<1>5. CASE ServeNext \/ Values \/ Open \/ OpenNothing \/ CopyRead
  BY <1>4, <1>5 DEF ServeNext, Serve, TakeResult, GiveUp, Values, Open, OpenNothing, CopyRead
<1>6. CASE CopyWrite
  BY <1>1, <1>4, <1>6 DEF CopyWrite
<1>7. CASE CopyEnds
  <2>1. handler = "copying" /\ writeEnd /\ UNCHANGED <<received, fileVars>>
    BY <1>0, <1>7 DEF CopyEnds, AtEOF, ReadFails, Ends, FileInv
  <2>2. copier = "done" /\ read \in Nat
    BY <1>0, <2>1 DEF Ends, FileInv
  <2>3. received = read
    BY <1>0, <2>1, <2>2 DEF DownloadValues, DownloadCounts, OneIf
  <2>4. broken = "no" => read = NumChunks
    BY <1>0, <2>2 DEF FileInv
  <2>5. QED
    BY <2>1, <2>3, <2>4 DEF fileVars
<1>8. CASE File \/ Client \/ ToBackend \/ Backend \/ UNCHANGED vars
  BY <1>4, <1>8 DEF File, Client, Leave, Cancel, ToBackend, Backend, vars, downloadVars
<1>9. QED
  BY <1>5, <1>6, <1>7, <1>8 DEF Next, ToClient, HandlerNext

LEMMA InTimeStep == IInv /\ [Next]_vars => InTime'
<1> SUFFICES ASSUME IInv, [Next]_vars PROVE InTime'
  OBVIOUS
<1> USE DEF InTime
<1>0. DownloadValues /\ DownloadCounts /\ InTime /\ OneReader
  BY DEF IInv
<1>1. CASE File \/ ToBackend \/ Backend \/ UNCHANGED vars
  BY <1>0, <1>1 DEF File, ToBackend, Backend, vars, downloadVars
<1>2. CASE Serve
  BY <1>0, <1>2 DEF Serve, DownloadCounts
<1>3. CASE TakeResult \/ GiveUp
  BY <1>0, <1>3 DEF TakeResult, GiveUp
<1>4. CASE Values \/ Open \/ OpenNothing \/ CopyRead \/ CopyEnds
  BY <1>0, <1>4 DEF Values, Open, OpenNothing, CopyRead, CopyEnds
<1>5. CASE CopyWrite
  <2>1. serve \in {"waiting", "failed"}
    BY <1>0, <1>5 DEF CopyWrite, DownloadValues, DownloadCounts, OneReader
  <2>2. QED
    BY <1>0, <1>5, <2>1 DEF CopyWrite
<1>6. CASE Client
  BY <1>0, <1>6 DEF Client, Leave, Cancel
<1>7. QED
  BY <1>1, <1>2, <1>3, <1>4, <1>5, <1>6 DEF Next, ToClient, ServeNext, HandlerNext

LEMMA RemoteStep == IInv /\ [Next]_vars => RemoteValues' /\ RemoteCounts'
<1> SUFFICES ASSUME IInv, [Next]_vars PROVE RemoteValues' /\ RemoteCounts'
  OBVIOUS
<1> USE FileAssumption DEF RemoteValues, RemoteCounts, OneIf
<1>0. FileInv /\ Ends /\ OneReader /\ DownloadCounts /\ RemoteValues /\ RemoteCounts
  BY DEF IInv
<1>a. read \in 0..NumChunks /\ copier \in {"none", "getting", "copying", "writing", "done"}
  BY <1>0 DEF FileInv
<1>1. CASE File
  <2>1. UNCHANGED remoteVars
    BY <1>1 DEF File
  <2>2. CASE GetObject \/ GetObjectFails \/ EndSource
    <3>1. read' = read /\ copier # "writing" /\ copier # "done" /\ copier' \in {"copying", "done"}
      BY <2>2 DEF GetObject, GetObjectFails, EndSource
    <3>2. QED
      BY <1>0, <1>a, <2>1, <3>1 DEF remoteVars
  <2>3. CASE ReadSource
    <3>1. read' = read + 1 /\ copier = "copying" /\ copier' = "writing"
      BY <2>3 DEF ReadSource
    <3>2. QED
      BY <1>0, <1>a, <2>1, <3>1 DEF remoteVars
  <2>4. QED
    BY <1>1, <2>2, <2>3 DEF File, CopierNext
<1>2. CASE ToClient \/ Client
  <2>1. UNCHANGED remoteVars
    BY <1>2 DEF ToClient, Client
  <2>2. serve # "none"
    BY <1>0, <1>2 DEF ToClient, Client, Leave, Cancel, ServeNext, Serve, TakeResult, GiveUp,
       HandlerNext, Values, Open, OpenNothing, CopyRead, CopyEnds, CopyWrite, OneReader
  <2>3. body = "none" /\ closer = "none" /\ read' = read
    BY <1>0, <1>2, <2>2 DEF OneReader, ToClient, Client, Leave, Cancel, ServeNext, Serve,
       TakeResult, GiveUp, HandlerNext, Values, Open, OpenNothing, CopyRead, CopyEnds, CopyWrite,
       ReadChunk, fileVars
  <2>4. QED
    BY <1>0, <2>1, <2>3 DEF remoteVars
<1>3. CASE Answer
  BY <1>0, <1>3 DEF Answer, fileVars
<1>4. CASE Return
  BY <1>0, <1>4 DEF Return, fileVars
<1>5. CASE WriteFields
  BY <1>0, <1>5 DEF WriteFields, fileVars
<1>6. CASE CopyChunk
  <2>1. /\ body = "copying" /\ body' = "writing" /\ sent' = sent + 1
        /\ copier = "writing" /\ copier' = "copying"
        /\ UNCHANGED <<read, main, closer, count, result, got, answer>>
    BY <1>6 DEF CopyChunk, ReadChunk
  <2>2. QED
    BY <1>0, <1>a, <2>1
<1>7. CASE CopyStops
  <2>1. /\ body = "copying" /\ UNCHANGED <<read, copier, main, closer, count, result, sent, got, answer>>
        /\ body' = "done" \/ (body' = "trailer" /\ copier = "done")
    BY <1>0, <1>7 DEF CopyStops, AtEOF, Ends, fileVars
  <2>2. QED
    BY <1>0, <1>a, <2>1
<1>8. CASE CopyToNil
  <2>1. /\ body = "nil" /\ body' \in {"done", "crashed"} /\ read' = read
        /\ UNCHANGED <<main, closer, count, result, sent, got, answer>>
    BY <1>8 DEF CopyToNil, ReadChunk, fileVars
  <2>2. QED
    BY <1>0, <1>a, <2>1
<1>9. CASE WriteChunk
  <2>1. /\ body = "writing" /\ UNCHANGED <<read, copier, main, closer, count, result, sent, answer>>
        /\ \/ body' = "copying" /\ got' = got + 1
           \/ body' = "done" /\ got' = got
    BY <1>9 DEF WriteChunk, fileVars
  <2>2. QED
    BY <1>0, <1>a, <2>1
<1>10. CASE WriteTrailer
  BY <1>0, <1>a, <1>10 DEF WriteTrailer, fileVars
<1>11. CASE SendCount
  <2>1. /\ body = "sending" /\ body' = "done" /\ closer' = "closing" /\ count' = sent
        /\ UNCHANGED <<read, copier, main, result, sent, got, answer>>
    BY <1>11 DEF SendCount, fileVars
  <2>2. QED
    BY <1>0, <1>a, <2>1
<1>12. CASE ClosePipe
  BY <1>0, <1>a, <1>12 DEF ClosePipe, fileVars
<1>13. CASE UNCHANGED vars
  BY <1>0, <1>13 DEF vars, fileVars, remoteVars
<1>14. QED
  BY <1>1, <1>2, <1>3, <1>4, <1>5, <1>6, <1>7, <1>8, <1>9, <1>10, <1>11, <1>12, <1>13
  DEF Next, ToBackend, Backend, BodyNext

LEMMA AnsweredStep == IInv /\ [Next]_vars => Answered'
<1> SUFFICES ASSUME IInv, [Next]_vars PROVE Answered'
  OBVIOUS
<1> USE DEF Answered
<1>0. Answered /\ Ends /\ RemoteValues
  BY DEF IInv
<1>1. CASE File \/ ToClient \/ Client \/ UNCHANGED vars
  BY <1>0, <1>1 DEF File, ToClient, Client, vars, remoteVars
<1>2. CASE Answer
  BY <1>0, <1>2 DEF Answer, Ends
<1>3. CASE Return
  BY <1>0, <1>3 DEF Return
<1>4. CASE WriteFields \/ CopyChunk \/ CopyStops \/ CopyToNil \/ WriteChunk \/ WriteTrailer
  BY <1>0, <1>4 DEF WriteFields, CopyChunk, CopyStops, CopyToNil, WriteChunk, WriteTrailer
<1>5. CASE SendCount
  BY <1>0, <1>5 DEF SendCount
<1>6. CASE ClosePipe
  BY <1>0, <1>6 DEF ClosePipe
<1>7. QED
  BY <1>1, <1>2, <1>3, <1>4, <1>5, <1>6 DEF Next, ToBackend, Backend, BodyNext

LEMMA Invariance == Spec => []IInv
<1>1. IInv /\ [Next]_vars => IInv'
  BY FlagsStep, FileStep, EndsStep, OneReaderStep, DownloadStep, CopiedStep, InTimeStep,
     RemoteStep, AnsweredStep DEF IInv
<1>2. QED
  BY InitIInv, <1>1, PTL DEF Spec

-----------------------------------------------------------------------------

\* The variables have their types, and the flags of the pipes are those of the
\* goroutines that close them: in particular got <= sent <= read.
THEOREM TypeCorrect == Spec => []TypeOK
<1>1. ASSUME IInv PROVE FileTypeOK
  BY <1>1 DEF IInv, Flags, FileInv, Ends, FileTypeOK
<1>2. ASSUME IInv PROVE DownloadTypeOK
  <2>1. received \in 0..NumChunks
    BY <1>2, FileAssumption DEF IInv, FileInv, DownloadValues, DownloadCounts
  <2>2. QED
    BY <1>2, <2>1 DEF IInv, Flags, DownloadValues, DownloadCounts, DownloadTypeOK
<1>3. ASSUME IInv PROVE RemoteTypeOK
  <2>1. {count, result, sent, got} \subseteq 0..NumChunks
    BY <1>3, FileAssumption DEF IInv, FileInv, RemoteValues, RemoteCounts
  <2>2. bodyEnd => body = "done" /\ got = sent
    BY <1>3 DEF IInv, Ends, RemoteCounts
  <2>3. QED
    BY <1>3, <2>1, <2>2 DEF IInv, Flags, Ends, RemoteValues, RemoteCounts, RemoteTypeOK
<1>4. QED
  BY <1>1, <1>2, <1>3, Invariance, PTL DEF TypeOK

\* A download that is answered as a success has sent the whole file, and a remote
\* write returns the number of chunks that the backend was sent, for a file of any
\* size and whatever the goroutines' order; the exceptions are those of the property.
THEOREM ResultsAreTrue == Spec => []ResultIsTrue
<1>1. ASSUME IInv PROVE ResultIsTrue
  <2>1. serve = "ok" /\ ~clientGone /\ broken = "no" => received = NumChunks
    BY <1>1 DEF IInv, DownloadCounts, CopiedAll, InTime
  <2>2. late => cancelled
    BY <1>1 DEF IInv, InTime
  <2>3. main = "ok" /\ ~early => result = got /\ (broken = "no" => got = NumChunks)
    <3>1. main = "ok" /\ ~early => closer = "done" /\ result = count
      BY <1>1 DEF IInv, Answered
    <3>2. closer = "done" => count = got /\ got = read /\ copier = "done"
      BY <1>1 DEF IInv, RemoteCounts
    <3>3. copier = "done" /\ broken = "no" => read = NumChunks
      BY <1>1 DEF IInv, FileInv
    <3>4. QED
      BY <3>1, <3>2, <3>3
  <2>4. QED
    BY <2>1, <2>2, <2>3 DEF ResultIsTrue
<1>2. QED
  BY <1>1, Invariance, PTL

-----------------------------------------------------------------------------
(* The safety side of TransferEnds: every step brings the transfer nearer   *)
(* to its end, and the states in which nobody can go on are those of Ended. *)

\* The number of steps that are left at most: two for each chunk at each end, and
\* the ways of the goroutines to their ends. A read of the file moves the copier
\* and its reader at once, so the copier counts twice.
CopierSteps ==
  3 * (NumChunks - read) + 4 * OneIf(copier = "none") + 3 * OneIf(copier = "getting")
    + OneIf(copier = "copying") + 2 * OneIf(copier = "writing")

DownloadSteps ==
  3 * (NumChunks - received) + 2 * OneIf(serve = "checking") + OneIf(serve = "waiting")
    + 6 * OneIf(handler = "none") + 5 * OneIf(handler = "values") + 4 * OneIf(handler = "open")
    + OneIf(handler = "copying") + 2 * OneIf(handler = "writing")
    + OneIf(~clientGone) + OneIf(~cancelled)

BodySteps ==
  3 * (NumChunks - got) + 6 * OneIf(body = "fields") + 4 * OneIf(body = "copying")
    + 5 * OneIf(body = "writing") + 3 * OneIf(body = "trailer") + 2 * OneIf(body = "sending")
    + OneIf(body = "nil")

RemoteSteps ==
  BodySteps + 2 * OneIf(closer = "waiting") + OneIf(closer = "closing")
    + OneIf(main = "requesting") + OneIf(answer = "none")

StepsLeft == 2 * CopierSteps + DownloadSteps + RemoteSteps

\* The guards of the steps that fairness asks for: those of the program, and the
\* answer of a backend that has the whole body. A client need not leave.
CanRead == copier = "writing" \/ AtEOF \/ ReadFails

FileCanMove == copier \in {"getting", "copying"}

DownloadCanMove ==
  \/ serve = "checking"
  \/ serve = "waiting" /\ (handler \in {"ok", "error"} \/ cancelled)
  \/ handler \in {"values", "open", "writing"}
  \/ handler = "copying" /\ CanRead

BodyCanMove ==
  \/ body \in {"fields", "writing", "trailer"} /\ (TransportReads \/ bodyRead)
  \/ body \in {"copying", "nil"} /\ CanRead
  \/ body = "sending" /\ closer = "waiting"

RequestCanMove ==
  \/ closer = "closing"
  \/ main = "requesting" /\ (answer # "none" \/ bodyEnd)

SomeoneCanMove == FileCanMove \/ DownloadCanMove \/ BodyCanMove \/ RequestCanMove

RestsAtTheEnd == Crashed \/ ~SomeoneCanMove => Ended

\* Why a reader stops before the end of its file, and what stays behind then.
Leftovers ==
  /\ handler = "ok" => copier = "done" \/ clientGone \/ late
  /\ handler = "error" => copier = "none"
  /\ handler = "none" /\ serve # "none" => copier = "none"
  /\ handler = "crashed" => kind = "other" \/ late
  /\ early => answer # "none"
  /\ body \in {"nil", "crashed"} => bodyRead /\ early
  /\ body = "done" /\ closer = "waiting" => broken = "object" \/ early
  /\ body = "done" => copier = "done" \/ early

\* A transfer is a download or a remote write, whose goroutines all start at once.
OneUse == serve = "none" => main # "none" /\ body # "none" /\ closer # "none" /\ copier # "none"

LEMMA CountsAreNat ==
  ASSUME IInv
  PROVE  /\ NumChunks \in Nat /\ read \in Nat /\ received \in Nat /\ got \in Nat
         /\ read <= NumChunks /\ received <= NumChunks /\ got <= NumChunks
  BY FileAssumption DEF IInv, FileInv, DownloadValues, DownloadCounts, RemoteValues, RemoteCounts

LEMMA StepsAreNat ==
  IInv => /\ CopierSteps \in Nat /\ DownloadSteps \in Nat /\ BodySteps \in Nat
          /\ RemoteSteps \in Nat /\ StepsLeft \in Nat
<1> SUFFICES ASSUME IInv
             PROVE  /\ CopierSteps \in Nat /\ DownloadSteps \in Nat /\ BodySteps \in Nat
                    /\ RemoteSteps \in Nat /\ StepsLeft \in Nat
  OBVIOUS
<1>1. CopierSteps \in Nat
  BY CountsAreNat DEF CopierSteps, OneIf
<1>2. DownloadSteps \in Nat
  <2>1. 3 * (NumChunks - received) \in Nat
    BY CountsAreNat
  <2>2. OneIf(serve = "checking") \in Nat /\ OneIf(serve = "waiting") \in Nat
    BY DEF OneIf
  <2>3. /\ 6 * OneIf(handler = "none") \in Nat /\ 5 * OneIf(handler = "values") \in Nat
        /\ 4 * OneIf(handler = "open") \in Nat /\ OneIf(handler = "copying") \in Nat
        /\ 2 * OneIf(handler = "writing") \in Nat
    BY DEF OneIf
  <2>4. OneIf(~clientGone) \in Nat /\ OneIf(~cancelled) \in Nat
    BY DEF OneIf
  <2>5. QED
    BY <2>1, <2>2, <2>3, <2>4 DEF DownloadSteps
<1>3. BodySteps \in Nat
  BY CountsAreNat DEF BodySteps, OneIf
<1>4. RemoteSteps \in Nat
  BY <1>3 DEF RemoteSteps, OneIf
<1>5. QED
  BY <1>1, <1>2, <1>3, <1>4 DEF StepsLeft

LEMMA CopierProgress == IInv /\ CopierNext => CopierSteps' <= CopierSteps - 1
<1> SUFFICES ASSUME IInv, CopierNext PROVE CopierSteps' <= CopierSteps - 1
  OBVIOUS
<1> USE CountsAreNat DEF CopierSteps, OneIf
<1>1. CASE GetObject
  BY <1>1 DEF GetObject
<1>2. CASE GetObjectFails
  BY <1>2 DEF GetObjectFails
<1>3. CASE ReadSource
  BY <1>3 DEF ReadSource
<1>4. CASE EndSource
  BY <1>4 DEF EndSource
<1>5. QED
  BY <1>1, <1>2, <1>3, <1>4 DEF CopierNext

LEMMA ReadIsProgress == IInv /\ ReadChunk => CopierSteps' = CopierSteps - 1
  BY CountsAreNat DEF ReadChunk, CopierSteps, OneIf

\* A step of the download is nearer to the end of its own, or reads a chunk.
LEMMA DownloadProgress ==
  ASSUME IInv, ServeNext \/ HandlerNext
  PROVE  \/ CopierSteps' = CopierSteps /\ DownloadSteps' <= DownloadSteps - 1
         \/ CopierSteps' <= CopierSteps - 1 /\ DownloadSteps' <= DownloadSteps + 1
<1> USE CountsAreNat
<1>1. ASSUME UNCHANGED fileVars PROVE CopierSteps' = CopierSteps
  BY <1>1 DEF fileVars, CopierSteps, OneIf
<1>2. CASE Serve
  <2>1. handler = "none"
    BY <1>2 DEF Serve, IInv, DownloadCounts
  <2>2. DownloadSteps' <= DownloadSteps - 1
    BY <1>2, <2>1 DEF Serve, DownloadSteps, OneIf
  <2>3. QED
    BY <1>1, <1>2, <2>2 DEF Serve
<1>3. CASE TakeResult \/ GiveUp
  <2>1. DownloadSteps' <= DownloadSteps - 1
    BY <1>3 DEF TakeResult, GiveUp, DownloadSteps, OneIf
  <2>2. QED
    BY <1>1, <1>3, <2>1 DEF TakeResult, GiveUp
<1>4. CASE Values \/ OpenNothing \/ CopyEnds
  <2>1. DownloadSteps' <= DownloadSteps - 1
    BY <1>4 DEF Values, OpenNothing, CopyEnds, DownloadSteps, OneIf
  <2>2. QED
    BY <1>1, <1>4, <2>1 DEF Values, OpenNothing, CopyEnds
<1>5. CASE CopyWrite
  <2>1. DownloadSteps' <= DownloadSteps - 1
    BY <1>5 DEF CopyWrite, DownloadSteps, OneIf
  <2>2. QED
    BY <1>1, <1>5, <2>1 DEF CopyWrite
<1>6. CASE Open
  <2>1. copier = "none"
    BY <1>6 DEF Open, IInv, DownloadCounts
  <2>2. DownloadSteps' <= DownloadSteps - 1
    BY <1>6 DEF Open, DownloadSteps, OneIf
  <2>3. CopierSteps' = CopierSteps \/ CopierSteps' <= CopierSteps - 1
    BY <1>6, <2>1 DEF Open, Started, CopierSteps, OneIf
  <2>4. DownloadSteps \in Nat
    BY StepsAreNat
  <2>5. DownloadSteps' <= DownloadSteps + 1
    BY <1>6 DEF Open, DownloadSteps, OneIf
  <2>6. QED
    BY <2>2, <2>3, <2>5
<1>7. CASE CopyRead
  <2>1. CopierSteps' <= CopierSteps - 1
    BY <1>7 DEF CopyRead, ReadChunk, CopierSteps, OneIf
  <2>2. DownloadSteps' <= DownloadSteps + 1
    BY <1>7 DEF CopyRead, DownloadSteps, OneIf
  <2>3. QED
    BY <2>1, <2>2
<1>8. QED
  BY <1>2, <1>3, <1>4, <1>5, <1>6, <1>7 DEF ServeNext, HandlerNext

\* The same for the body of a remote write.
LEMMA BodyProgress ==
  ASSUME IInv, BodyNext
  PROVE  \/ CopierSteps' = CopierSteps /\ BodySteps' <= BodySteps - 1
         \/ CopierSteps' <= CopierSteps - 1 /\ BodySteps' <= BodySteps + 1
<1> USE CountsAreNat
<1>1. ASSUME UNCHANGED fileVars PROVE CopierSteps' = CopierSteps
  BY <1>1 DEF fileVars, CopierSteps, OneIf
<1>2. CASE WriteFields \/ CopyStops \/ WriteTrailer
  <2>1. BodySteps' <= BodySteps - 1
    BY <1>2 DEF WriteFields, CopyStops, WriteTrailer, BodySteps, OneIf
  <2>2. QED
    BY <1>1, <1>2, <2>1 DEF WriteFields, CopyStops, WriteTrailer
<1>3. CASE WriteChunk
  <2>1. BodySteps' <= BodySteps - 1
    BY <1>3 DEF WriteChunk, BodySteps, OneIf
  <2>2. QED
    BY <1>1, <1>3, <2>1 DEF WriteChunk
<1>4. CASE SendCount
  <2>1. BodySteps' <= BodySteps - 1
    BY <1>4 DEF SendCount, BodySteps, OneIf
  <2>2. QED
    BY <1>1, <1>4, <2>1 DEF SendCount
<1>5. CASE CopyChunk
  <2>1. CopierSteps' <= CopierSteps - 1
    BY <1>5 DEF CopyChunk, ReadChunk, CopierSteps, OneIf
  <2>2. BodySteps' <= BodySteps + 1
    BY <1>5 DEF CopyChunk, BodySteps, OneIf
  <2>3. QED
    BY <2>1, <2>2
<1>6. CASE CopyToNil
  <2>1. BodySteps' <= BodySteps - 1 /\ BodySteps' <= BodySteps + 1
    BY <1>6 DEF CopyToNil, BodySteps, OneIf
  <2>2. CASE ReadChunk
    <3>1. CopierSteps' <= CopierSteps - 1
      BY <2>2 DEF ReadChunk, CopierSteps, OneIf
    <3>2. QED
      BY <2>1, <3>1
  <2>3. CASE UNCHANGED fileVars
    BY <1>1, <2>1, <2>3
  <2>4. QED
    BY <1>6, <2>2, <2>3 DEF CopyToNil
<1>7. QED
  BY <1>2, <1>3, <1>4, <1>5, <1>6 DEF BodyNext

\* No transfer goes on for ever: each step of any goroutine, of the client or of the
\* backend brings it nearer to an end that is a bounded number of steps away, so the
\* copies of a file cannot go round without moving it.
THEOREM TransferGetsNearer == Spec => [](StepsLeft \in Nat) /\ [][StepsLeft' < StepsLeft]_vars
<1>0. IInv' => (/\ CopierSteps \in Nat /\ DownloadSteps \in Nat /\ BodySteps \in Nat
                /\ RemoteSteps \in Nat /\ StepsLeft \in Nat)'
  BY StepsAreNat, PTL
<1>1. ASSUME IInv, IInv', Next PROVE StepsLeft' < StepsLeft
  <2> DEFINE c == CopierSteps
             c1 == CopierSteps'
             d == DownloadSteps
             d1 == DownloadSteps'
             b == BodySteps
             b1 == BodySteps'
             r == RemoteSteps
             r1 == RemoteSteps'
  <2>0. /\ c \in Nat /\ d \in Nat /\ b \in Nat /\ r \in Nat
        /\ c1 \in Nat /\ d1 \in Nat /\ b1 \in Nat /\ r1 \in Nat
    BY <1>0, <1>1, StepsAreNat
  <2>1. ASSUME UNCHANGED fileVars PROVE c1 = c
    BY <2>1 DEF fileVars, CopierSteps, OneIf
  <2>2. ASSUME UNCHANGED downloadVars PROVE d1 = d
    BY <2>2 DEF downloadVars, DownloadSteps, OneIf
  <2>3. ASSUME UNCHANGED remoteVars PROVE r1 = r
    BY <2>3 DEF remoteVars, RemoteSteps, BodySteps, OneIf
  <2>4. SUFFICES 2 * c1 + d1 + r1 < 2 * c + d + r
    BY DEF StepsLeft
  <2>5. IInv /\ CopierNext => c1 <= c - 1
    BY CopierProgress
  <2>6. CASE ToClient
    <3>1. r1 = r
      BY <2>3, <2>6 DEF ToClient
    <3>2. (c1 = c /\ d1 <= d - 1) \/ (c1 <= c - 1 /\ d1 <= d + 1)
      BY <1>1, <2>6, DownloadProgress DEF ToClient
    <3>3. HIDE DEF c, c1, d, d1, r, r1
    <3>4. QED
      BY <2>0, <3>1, <3>2
  <2>7. CASE Client
    <3>1. c1 = c /\ r1 = r
      BY <2>1, <2>3, <2>7 DEF Client, Leave, Cancel
    <3>2. d1 <= d - 1
      BY <1>1, <2>7, CountsAreNat DEF Client, Leave, Cancel, DownloadSteps, OneIf
    <3>3. HIDE DEF c, c1, d, d1, r, r1
    <3>4. QED
      BY <2>0, <3>1, <3>2
  <2>8. CASE BodyNext /\ UNCHANGED downloadVars
    <3>1. d1 = d
      BY <2>2, <2>8
    <3>2. (c1 = c /\ b1 <= b - 1) \/ (c1 <= c - 1 /\ b1 <= b + 1)
      BY <1>1, <2>8, BodyProgress
    <3>3. r1 - b1 <= r - b
      <4>1. /\ UNCHANGED <<main, answer>>
            /\ closer' = closer \/ (closer = "waiting" /\ closer' = "closing")
        BY <2>8 DEF BodyNext, WriteFields, CopyChunk, CopyStops, CopyToNil, WriteChunk,
           WriteTrailer, SendCount
      <4>2. r = b + 2 * OneIf(closer = "waiting") + OneIf(closer = "closing")
                  + OneIf(main = "requesting") + OneIf(answer = "none")
        BY DEF RemoteSteps
      <4>3. r1 = b1 + 2 * OneIf(closer' = "waiting") + OneIf(closer' = "closing")
                   + OneIf(main' = "requesting") + OneIf(answer' = "none")
        BY DEF RemoteSteps, OneIf
      <4>4. HIDE DEF b, b1, r, r1
      <4>5. QED
        BY <2>0, <4>1, <4>2, <4>3 DEF OneIf
    <3>4. HIDE DEF c, c1, d, d1, b, b1, r, r1
    <3>5. QED
      BY <2>0, <3>1, <3>2, <3>3
  <2>9. CASE ((ClosePipe \/ Return) /\ UNCHANGED downloadVars) \/ Backend
    <3>1. d1 = d /\ c1 = c
      BY <2>1, <2>2, <2>9 DEF ClosePipe, Return, Backend, Answer
    <3>2. r1 <= r - 1
      BY <1>1, <2>9, CountsAreNat DEF ClosePipe, Return, Backend, Answer, RemoteSteps, BodySteps,
         OneIf
    <3>3. HIDE DEF c, c1, d, d1, r, r1
    <3>4. QED
      BY <2>0, <3>1, <3>2
  <2>10. CASE File
    <3>1. d1 = d /\ r1 = r
      BY <2>2, <2>3, <2>10 DEF File
    <3>2. c1 <= c - 1
      BY <1>1, <2>5, <2>10 DEF File
    <3>3. HIDE DEF c, c1, d, d1, r, r1
    <3>4. QED
      BY <2>0, <3>1, <3>2
  <2>11. QED
    BY <1>1, <2>6, <2>7, <2>8, <2>9, <2>10 DEF Next, ToBackend
<1>2. IInv => StepsLeft \in Nat
  BY StepsAreNat
<1>3. IInv /\ IInv' /\ [Next]_vars => [StepsLeft' < StepsLeft]_vars
  BY <1>1
<1>4. QED
  BY <1>2, <1>3, Invariance, PTL DEF Spec

LEMMA OneUseStep == IInv /\ OneUse /\ [Next]_vars => OneUse'
<1> SUFFICES ASSUME IInv, OneUse, [Next]_vars PROVE OneUse'
  OBVIOUS
<1> USE DEF OneUse
<1>1. CASE File
  BY <1>1 DEF File, CopierNext, GetObject, GetObjectFails, ReadSource, EndSource,
     downloadVars, remoteVars
<1>2. CASE ToClient \/ Client
  BY <1>2 DEF ToClient, ServeNext, Serve, TakeResult, GiveUp, HandlerNext, Values, Open,
     OpenNothing, CopyRead, CopyEnds, CopyWrite, ReadChunk, Client, Leave, Cancel,
     IInv, OneReader, remoteVars, fileVars
<1>3. CASE BodyNext /\ UNCHANGED downloadVars
  BY <1>3 DEF BodyNext, WriteFields, CopyChunk, CopyStops, CopyToNil, WriteChunk,
     WriteTrailer, SendCount, ReadChunk, fileVars, downloadVars
<1>4. CASE (ClosePipe \/ Return) /\ UNCHANGED downloadVars
  BY <1>4 DEF ClosePipe, Return, fileVars, downloadVars
<1>5. CASE Backend
  BY <1>5 DEF Backend, Answer, fileVars, downloadVars
<1>6. CASE UNCHANGED vars
  BY <1>6 DEF vars, fileVars, downloadVars, remoteVars
<1>7. QED
  BY <1>1, <1>2, <1>3, <1>4, <1>5, <1>6 DEF Next, ToBackend

\* A pipe that Write has closed before the body was complete: the answer was early.
LEMMA ClosedEarly ==
  ASSUME IInv, bodyRead, closer # "done"
  PROVE  early
  BY DEF IInv, Ends, Answered

LEMMA LeftoversStep == IInv /\ Leftovers /\ [Next]_vars => Leftovers'
<1> SUFFICES ASSUME IInv, Leftovers, [Next]_vars PROVE Leftovers'
  OBVIOUS
<1> USE DEF Leftovers
<1>0. /\ writeEnd <=> copier = "done"
      /\ readEnd <=> broken = "object"
      /\ broken # "no" => copier = "done"
      /\ body \in {"fields", "copying", "writing", "trailer", "sending", "nil"} =>
           closer \notin {"closing", "done"}
  BY DEF IInv, Ends, FileInv, RemoteCounts
<1>1. CASE File
  <2>1. copier \notin {"none", "done"}
    BY <1>1 DEF File, CopierNext, GetObject, GetObjectFails, ReadSource, EndSource
  <2>2. copier' # "none" /\ kind' = kind /\ (broken = "object" => broken' = "object")
    BY <1>0, <1>1, <2>1 DEF File, CopierNext, GetObject, GetObjectFails, ReadSource, EndSource
  <2>3. QED
    BY <1>1, <2>1, <2>2 DEF File, downloadVars, remoteVars
<1>2. CASE ServeNext /\ UNCHANGED remoteVars
  <2>1. /\ UNCHANGED <<fileVars, clientGone, late>> /\ (handler' = handler \/ handler' = "values")
        /\ serve # "none"
    BY <1>2 DEF ServeNext, Serve, TakeResult, GiveUp
  <2>2. QED
    BY <1>2, <2>1 DEF fileVars, remoteVars
<1>3. CASE Values /\ UNCHANGED remoteVars
  BY <1>3 DEF Values, IInv, DownloadCounts, fileVars, remoteVars
<1>4. CASE Open /\ UNCHANGED remoteVars
  <2>1. copier = "none" /\ body = "none"
    BY <1>4 DEF Open, IInv, DownloadCounts, OneReader
  <2>2. QED
    BY <1>4, <2>1 DEF Open, Started, remoteVars
<1>5. CASE (OpenNothing \/ CopyEnds) /\ UNCHANGED remoteVars
  BY <1>0, <1>5 DEF OpenNothing, CopyEnds, AtEOF, ReadFails, fileVars, remoteVars
<1>6. CASE (CopyRead \/ CopyWrite) /\ UNCHANGED remoteVars
  <2>1. body = "none"
    BY <1>6 DEF CopyRead, CopyWrite, IInv, OneReader
  <2>2. QED
    BY <1>6, <2>1 DEF CopyRead, CopyWrite, ReadChunk, fileVars, remoteVars
<1>7. CASE Client
  BY <1>7 DEF Client, Leave, Cancel, fileVars, remoteVars
<1>8. CASE (WriteFields \/ WriteChunk \/ WriteTrailer) /\ UNCHANGED downloadVars
  <2>1. bodyRead => early
    BY <1>0, <1>8, ClosedEarly DEF WriteFields, WriteChunk, WriteTrailer
  <2>2. QED
    BY <1>8, <2>1 DEF WriteFields, WriteChunk, WriteTrailer, fileVars, downloadVars
<1>9. CASE CopyChunk /\ UNCHANGED downloadVars
  <2>1. serve = "none" /\ handler = "none"
    BY <1>9 DEF CopyChunk, IInv, OneReader
  <2>2. QED
    BY <1>9, <2>1 DEF CopyChunk, ReadChunk, downloadVars
<1>10. CASE CopyStops /\ UNCHANGED downloadVars
  BY <1>0, <1>10 DEF CopyStops, AtEOF, ReadFails, fileVars, downloadVars
<1>11. CASE CopyToNil /\ UNCHANGED downloadVars
  <2>1. handler = "none"
    BY <1>11 DEF CopyToNil, IInv, OneReader
  <2>2. QED
    BY <1>11, <2>1 DEF CopyToNil, ReadChunk, fileVars, downloadVars
<1>12. CASE SendCount /\ UNCHANGED downloadVars
  BY <1>12 DEF SendCount, IInv, RemoteCounts, fileVars, downloadVars
<1>13. CASE ClosePipe /\ UNCHANGED downloadVars
  BY <1>13 DEF ClosePipe, fileVars, downloadVars
<1>14. CASE Return /\ UNCHANGED downloadVars
  BY <1>14 DEF Return, fileVars, downloadVars
<1>15. CASE Backend
  BY <1>15 DEF Backend, Answer, IInv, Ends, Answered, fileVars, downloadVars
<1>16. CASE UNCHANGED vars
  BY <1>16 DEF vars, fileVars, downloadVars, remoteVars
<1>17. QED
  BY <1>1, <1>2, <1>3, <1>4, <1>5, <1>6, <1>7, <1>8, <1>9, <1>10, <1>11, <1>12, <1>13, <1>14,
     <1>15, <1>16 DEF Next, ToClient, HandlerNext, ToBackend, BodyNext

LEMMA RestInvariance == Spec => [](OneUse /\ Leftovers)
<1>1. Init => OneUse /\ Leftovers
  BY DEF Init, Started, OneUse, Leftovers
<1>2. QED
  BY <1>1, Invariance, OneUseStep, LeftoversStep, PTL DEF Spec

\* The transport reads the body, the pipe is closed, or the request has failed and
\* Write can return.
LEMMA BodyIsTaken ==
  ASSUME IInv, ~RequestCanMove, main \in {"requesting", "ok", "failed"}
  PROVE  TransportReads \/ bodyRead
  BY DEF IInv, Ends, RequestCanMove, TransportReads

\* A transfer that nobody can take further has ended as TransferEnds says: its reader
\* and its goroutines are done, but for those that the named conditions leave behind;
\* and the process crashes only for the three reasons given there. With the theorem
\* before, every run comes to such a state.
THEOREM TransferRestsAtTheEnd == Spec => []RestsAtTheEnd
<1>1. ASSUME IInv, OneUse, Leftovers, Crashed PROVE Ended
  BY <1>1 DEF Crashed, Leftovers, Ended
<1>2. ASSUME IInv, OneUse, Leftovers, ~Crashed, ~SomeoneCanMove PROVE Ended
  <2>0. ~FileCanMove /\ ~DownloadCanMove /\ ~BodyCanMove /\ ~RequestCanMove
    BY <1>2 DEF SomeoneCanMove
  <2>1. copier \in {"none", "writing", "done"}
    BY <1>2, <2>0 DEF FileCanMove, IInv, FileInv
  <2>2. copier # "none" => CanRead
    BY <1>2, <2>1 DEF CanRead, AtEOF, ReadFails, IInv, Ends
  <2>3. handler \in {"none", "ok", "error"}
    BY <1>2, <2>0, <2>2 DEF DownloadCanMove, Crashed, IInv, DownloadValues, DownloadCounts
  <2>4. serve \in {"none", "ok", "failed"}
    BY <1>2, <2>0, <2>3 DEF DownloadCanMove, IInv, DownloadValues, DownloadCounts
  <2>5. CASE serve # "none"
    <3>1. main = "none" /\ body = "none" /\ closer = "none"
      BY <1>2, <2>5 DEF IInv, OneReader
    <3>2. copier \in {"none", "done"} \/ (copier = "writing" /\ (clientGone \/ late))
      <4>1. CASE handler = "none"
        BY <1>2, <2>5, <4>1 DEF Leftovers
      <4>2. CASE handler \in {"ok", "error"}
        BY <1>2, <2>1, <4>2 DEF Leftovers
      <4>3. QED
        BY <2>3, <4>1, <4>2
    <3>3. QED
      BY <2>3, <2>4, <3>1, <3>2 DEF Ended
  <2>6. CASE serve = "none"
    <3>1. handler = "none" /\ main \in {"requesting", "ok", "failed"} /\ body # "none"
          /\ closer \in {"waiting", "closing", "done"} /\ copier \in {"writing", "done"}
      BY <1>2, <2>1, <2>6 DEF IInv, OneReader, OneUse, RemoteValues
    <3>2. closer \in {"waiting", "done"}
      BY <2>0, <3>1 DEF RequestCanMove
    <3>3. TransportReads \/ bodyRead
      BY <1>2, <2>0, <3>1, BodyIsTaken
    <3>4. body \notin {"fields", "writing", "trailer", "copying", "nil"}
      BY <2>0, <2>2, <3>1, <3>3 DEF BodyCanMove
    <3>5. body # "sending"
      BY <1>2, <2>0, <3>2 DEF BodyCanMove, IInv, RemoteCounts
    <3>6. body = "done"
      BY <1>2, <3>1, <3>4, <3>5 DEF Crashed, IInv, RemoteValues
    <3>7. copier = "done" \/ (copier = "writing" /\ early)
      BY <1>2, <3>1, <3>6 DEF Leftovers
    <3>8. closer = "done" \/ broken = "object" \/ early
      BY <1>2, <3>2, <3>6 DEF Leftovers
    <3>9. main \in {"ok", "failed"} \/ broken = "object"
      <4>1. ASSUME main = "requesting" PROVE broken = "object"
        <5>1. answer = "none" /\ ~bodyEnd
          BY <2>0, <4>1 DEF RequestCanMove
        <5>2. closer = "waiting" /\ ~early
          BY <1>2, <3>2, <5>1 DEF IInv, Ends, Leftovers
        <5>3. QED
          BY <3>8, <5>2
      <4>2. QED
        BY <3>1, <4>1
    <3>10. QED
      BY <2>6, <3>1, <3>6, <3>7, <3>8, <3>9 DEF Ended
  <2>7. QED
    BY <2>5, <2>6
<1>3. IInv /\ OneUse /\ Leftovers => RestsAtTheEnd
  BY <1>1, <1>2 DEF RestsAtTheEnd
<1>4. QED
  BY <1>3, Invariance, RestInvariance, PTL
=============================================================================
