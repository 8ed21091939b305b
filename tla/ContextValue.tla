---------------------------- MODULE ContextValue ----------------------------
(***************************************************************************)
(* http/context.go: a value that a job of the workers produces into a pipe *)
(* and that the handlers of the same request read with FromContext, once   *)
(* or several times. The request's goroutine makes its reads one after the *)
(* other, but a read that times out leaves its goroutine behind, in Read,  *)
(* next to the following one: c.closed, c.buf and c.off are not protected. *)
(*                                                                         *)
(* The value is a sequence of pieces. One Read of io.Copy has room for one *)
(* piece, and the last piece does not fill it.                             *)
(***************************************************************************)
EXTENDS Naturals, Sequences, FiniteSets

CONSTANTS
  P,       \* the value has pieces 1..P
  Calls    \* how many times the request reads the value

ASSUME ContextAssumption == P \in Nat \ {0} /\ Calls \in Nat

VARIABLES
  outcome,    \* what becomes of the job: "value", "empty" or "fail"
  producer,   \* where the job stands
  next,       \* the piece the producer's Write offers
  piped,      \* the write end of the pipe is open
  closed, buf, off,  \* the fields of the ContextValue
  call,       \* call[k]: where the k-th FromContext of the request stands
  reader,     \* reader[k]: where the goroutine of that call stands
  data,       \* data[k]: what its ReadAll has gathered
  n,          \* n[k]: the pieces its last copy returned
  got,        \* got[k]: what it has written to the caller's buffer
  overlapped  \* two goroutines were in Read at the same time (history)

producerVars == <<outcome, producer, next, piped>>
valueVars == <<closed, buf, off>>
readerVars == <<reader, data, n, got, overlapped>>
vars == <<producerVars, valueVars, call, readerVars>>

Value == [i \in 1..P |-> i]

TypeOK ==
  /\ outcome \in {"value", "empty", "fail"}
  /\ producer \in {"queued", "writing", "closing", "done"}
  /\ next \in 1..P + 1
  /\ piped \in BOOLEAN
  /\ closed \in BOOLEAN
  /\ buf \in Seq(1..P)
  /\ off \in Nat
  /\ call \in [1..Calls -> {"none", "waiting", "timedout", "ok", "error"}]
  /\ reader \in [1..Calls -> {"none", "checking", "reading", "copying", "counting",
                              "rewinding", "ended", "panicked"}]
  /\ data \in [1..Calls -> Seq(1..P)]
  /\ n \in [1..Calls -> 0..1]
  /\ got \in [1..Calls -> Seq(1..P)]
  /\ overlapped \in BOOLEAN

Init ==
  /\ outcome \in {"value", "empty", "fail"}
  /\ producer = "queued"
  /\ next = 1
  /\ piped = TRUE
  /\ closed = FALSE
  /\ buf = <<>>
  /\ off = 0
  /\ call = [k \in 1..Calls |-> "none"]
  /\ reader = [k \in 1..Calls |-> "none"]
  /\ data = [k \in 1..Calls |-> <<>>]
  /\ n = [k \in 1..Calls |-> 0]
  /\ got = [k \in 1..Calls |-> <<>>]
  /\ overlapped = FALSE

-----------------------------------------------------------------------------
(* The producer: a job of pydiomiddleware.                                  *)

\* A worker starts the job. A failed request calls ErrorFunc, which cancels the
\* request's context and leaves the value open; a job with nothing to encode
\* goes on to its Close.
Produce ==
  /\ producer = "queued"
  /\ producer' = CASE outcome = "value" -> "writing"
                   [] outcome = "empty" -> "closing"
                   [] OTHER -> "done"
  /\ UNCHANGED <<outcome, next, piped, valueVars, call, readerVars>>

\* Close sets the flag, then closes the pipe. The mutant only sets the flag.
PipeLeftOpen ==
  /\ producer = "closing"
  /\ closed' = TRUE
  /\ producer' = "done"
  /\ UNCHANGED <<outcome, next, piped, buf, off, call, readerVars>>

Close ==
  /\ producer = "closing"
  /\ \/ ~closed /\ closed' = TRUE /\ UNCHANGED <<producer, piped>>
     \/ closed /\ piped' = FALSE /\ producer' = "done" /\ UNCHANGED closed
  /\ UNCHANGED <<outcome, next, buf, off, call, readerVars>>

-----------------------------------------------------------------------------
(* FromContext, in the request's goroutine.                                 *)

InRead(k) == reader[k] \in {"checking", "reading", "copying", "counting", "rewinding"}

\* The next read of the request, when the one before has returned.
FromContext(k) ==
  /\ call[k] = "none"
  /\ \A m \in 1..(k - 1) : call[m] \in {"ok", "error"}
  /\ call' = [call EXCEPT ![k] = "waiting"]
  /\ reader' = [reader EXCEPT ![k] = "checking"]
  /\ overlapped' = (overlapped \/ \E m \in 1..Calls : InRead(m))
  /\ UNCHANGED <<producerVars, valueVars, data, n, got>>

\* err = <-c1: the goroutine has sent its result.
Answer(k) ==
  /\ call[k] = "waiting"
  /\ reader[k] = "ended"
  /\ call' = [call EXCEPT ![k] = "ok"]
  /\ UNCHANGED <<producerVars, valueVars, readerVars>>

\* time.After wins, also when the goroutine is done at the same moment. The
\* mutant ends the goroutine with the call.
TimeoutEndsReader(k) ==
  /\ call[k] = "waiting"
  /\ call' = [call EXCEPT ![k] = "error"]
  /\ reader' = [reader EXCEPT ![k] = "ended"]
  /\ UNCHANGED <<producerVars, valueVars, data, n, got, overlapped>>

Timeout(k) ==
  /\ call[k] = "waiting"
  /\ call' = [call EXCEPT ![k] = IF reader[k] = "ended" THEN "error" ELSE "timedout"]
  /\ UNCHANGED <<producerVars, valueVars, readerVars>>

\* The timed out call returns err, a variable it shares with the goroutine: if
\* that one ends now it stores the nil of its io.Copy over the timeout.
ReturnAfterTimeout(k) ==
  /\ call[k] = "timedout"
  /\ \/ call' = [call EXCEPT ![k] = "error"]
     \/ reader[k] = "ended" /\ call' = [call EXCEPT ![k] = "ok"]
  /\ UNCHANGED <<producerVars, valueVars, readerVars>>

-----------------------------------------------------------------------------
(* ContextValue.Read, called by io.Copy in the goroutine of the call.       *)

Check(k) ==
  /\ reader[k] = "checking"
  /\ reader' = [reader EXCEPT ![k] = IF closed THEN "copying" ELSE "reading"]
  /\ UNCHANGED <<producerVars, valueVars, call, data, n, got, overlapped>>

\* ReadAll takes the next piece of the producer's Write from the pipe. In the
\* mutant the producer does not see that its last piece is taken.
TakePieceForEver(k) ==
  /\ reader[k] = "reading"
  /\ producer = "writing"
  /\ data' = [data EXCEPT ![k] = Append(@, next)]
  /\ next' = next + 1
  /\ UNCHANGED <<outcome, producer, piped, valueVars, call, reader, n, got, overlapped>>

TakePiece(k) ==
  /\ reader[k] = "reading"
  /\ producer = "writing"
  /\ data' = [data EXCEPT ![k] = Append(@, next)]
  /\ next' = next + 1
  /\ producer' = IF next = P THEN "closing" ELSE "writing"
  /\ UNCHANGED <<outcome, piped, valueVars, call, reader, n, got, overlapped>>

\* ReadAll meets the end of the pipe and the value is kept in buf. Its Close, in
\* a goroutine of its own, finds the flag set and the pipe closed.
KeepValue(k) ==
  /\ reader[k] = "reading"
  /\ ~piped
  /\ buf' = data[k]
  /\ reader' = [reader EXCEPT ![k] = "copying"]
  /\ UNCHANGED <<producerVars, closed, off, call, data, n, got, overlapped>>

\* n = copy(p, c.buf[c.off:]), which panics if another reader has moved off
\* past the end of buf: in a goroutine without a recover, so that the server ends.
Copy(k) ==
  /\ reader[k] = "copying"
  /\ IF off > Len(buf)
     THEN /\ reader' = [reader EXCEPT ![k] = "panicked"]
          /\ UNCHANGED <<n, got>>
     ELSE /\ reader' = [reader EXCEPT ![k] = "counting"]
          /\ n' = [n EXCEPT ![k] = IF off < Len(buf) THEN 1 ELSE 0]
          /\ got' = [got EXCEPT ![k] = IF off < Len(buf) THEN Append(@, buf[off + 1]) ELSE @]
  /\ UNCHANGED <<producerVars, valueVars, call, data, overlapped>>

\* c.off += n; a short copy is the end of the value.
Count(k) ==
  /\ reader[k] = "counting"
  /\ off' = off + n[k]
  /\ reader' = [reader EXCEPT ![k] = IF n[k] = 1 /\ got[k][Len(got[k])] # P
                                     THEN "checking" ELSE "rewinding"]
  /\ UNCHANGED <<producerVars, closed, buf, call, data, n, got, overlapped>>

\* c.off = 0, for the next reader, and io.EOF. The mutant does not rewind.
RewindForgotten(k) ==
  /\ reader[k] = "rewinding"
  /\ reader' = [reader EXCEPT ![k] = "ended"]
  /\ UNCHANGED <<producerVars, valueVars, call, data, n, got, overlapped>>

Rewind(k) ==
  /\ reader[k] = "rewinding"
  /\ off' = 0
  /\ reader' = [reader EXCEPT ![k] = "ended"]
  /\ UNCHANGED <<producerVars, closed, buf, call, data, n, got, overlapped>>

ReaderNext(k) ==
  Check(k) \/ TakePiece(k) \/ KeepValue(k) \/ Copy(k) \/ Count(k) \/ Rewind(k)

-----------------------------------------------------------------------------

\* After a panic nothing runs any more.
Crashed == \E k \in 1..Calls : reader[k] = "panicked"

Next ==
  /\ ~Crashed
  /\ \/ Produce \/ Close
     \/ \E k \in 1..Calls :
          \/ FromContext(k) \/ Answer(k) \/ Timeout(k) \/ ReturnAfterTimeout(k)
          \/ ReaderNext(k)

(* The job gets a worker and goroutines run. The request may stop reading,  *)
(* and a timeout need not fire.                                             *)
Fairness ==
  /\ WF_vars(~Crashed /\ Produce) /\ WF_vars(~Crashed /\ Close)
  /\ \A k \in 1..Calls :
       /\ WF_vars(~Crashed /\ Answer(k))
       /\ WF_vars(~Crashed /\ ReturnAfterTimeout(k))
       /\ WF_vars(~Crashed /\ ReaderNext(k))

Spec == Init /\ [][Next]_vars

FairSpec == Spec /\ Fairness

-----------------------------------------------------------------------------
(* Properties.                                                              *)

Produced == IF outcome = "value" THEN Value ELSE <<>>

\* As long as no two goroutines were in Read together, every read that returns
\* without an error, the first one from the pipe and the others from the buffer,
\* a timed out one too, has the whole value, and no slice is out of range. A read
\* that overlaps the goroutine of one that timed out may return an empty value.
SerialReadsAreWhole ==
  ~overlapped =>
    \A k \in 1..Calls :
      /\ call[k] = "ok" => got[k] = Produced
      /\ reader[k] # "panicked"

\* What overlapping readers may do to the server: one that has counted up off, and
\* has not rewound it yet, makes the slice of another one go past the end of buf.
CrashedByOverlap == overlapped /\ Crashed

\* A job that writes its value is done, and so gives its worker back, once
\* somebody reads the value, even if that read times out before, unless the
\* server has crashed.
ProducerReleased ==
  (producer = "writing" /\ \E k \in 1..Calls : InRead(k))
    ~> (producer = "done" \/ CrashedByOverlap)

\* The goroutine of a read ends, however late, but for two cases: the job failed,
\* so that the value is never closed and the goroutine stays for ever; or readers
\* that overlap have made one of them panic, which ends the server.
ReaderEnds ==
  \A k \in 1..Calls :
    InRead(k) ~> (reader[k] = "ended" \/ outcome = "fail" \/ CrashedByOverlap)
=============================================================================
