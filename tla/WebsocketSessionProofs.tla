----------------------- MODULE WebsocketSessionProofs -----------------------
(***************************************************************************)
(* WebsocketSession for any repositories, messages and numbers of lines:   *)
(* the client gets its own messages only, and at most two of them late.    *)
(***************************************************************************)
EXTENDS WebsocketSession, TLAPS

\* TypeOK in three parts. The flags stay apart from the rest, and so does out, one
\* of whose fields is a flag.
Values ==
  /\ conn \in {"open", "closed"}
  /\ handler \in {"reading", "writing", "select", "waiting", "returned"}
  /\ text \in Texts \union {NoText}
  /\ texts \in 0..MaxTexts
  /\ incoming \in {"scanning", "handling", "gaveUp", "ended"}
  /\ line \in Texts \union {NoText}
  /\ Repo \in Readable \union {NoRepo}
  /\ seen \subseteq Readable
  /\ consumer \in {"creating", "failed", "deaf", "idle", "checking", "writing", "ended"}
  /\ queue \in Seq(Messages)
  /\ msg \in Messages \union {NoMessage}
  /\ repo \in Readable \union {NoRepo}
  /\ published \in 0..MaxMessages
  /\ stdout \in {"scanning", "sending", "ended"}
  /\ delivered \in Seq(Messages)
  /\ late \in Nat

Flags == client \in BOOLEAN

OutType ==
  /\ out \in [msg : Messages \union {NoMessage}, current : BOOLEAN]
  /\ stdout = "sending" => out.msg \in Messages
  /\ consumer \in {"checking", "writing"} => msg \in Messages

\* The client has registered what connection.Repo was or is.
ReposAreSeen == {Repo, repo} \subseteq seen \union {NoRepo}

\* A message that may be written to the client.
Allowed(m) ==
  /\ m.user # "other" /\ m.group # "other"
  /\ m.repo \in seen \union {"*"}
  /\ seen # {}

\* The filter's verdict holds for the message it was made for, on its way through
\* the handler function, the pipe and pumpStdout. The verdict does not need the
\* present connection.Repo.
AcceptedAreAllowed ==
  /\ consumer = "writing" => Allowed(msg)
  /\ stdout = "sending" => Allowed(out.msg)
  /\ \A i \in 1..Len(delivered) : Allowed(delivered[i])

\* The messages on their way that will be late when they get to the client.
HandledLate == consumer \in {"checking", "writing"} /\ repo # Repo
SentLate == stdout = "sending" /\ ~out.current

LateOrOnTheWay ==
  late + (IF HandledLate THEN 1 ELSE 0) + (IF SentLate THEN 1 ELSE 0) <= 2

\* The inductive invariant.
IInv ==
  /\ Values /\ Flags /\ OutType /\ ReposAreSeen /\ AcceptedAreAllowed /\ LateOrOnTheWay

-----------------------------------------------------------------------------
(* The invariant, one lemma for each group of conjuncts.                    *)

LEMMA Constants ==
  NoRepo \notin Readable /\ MaxTexts \in Nat /\ MaxMessages \in Nat
  BY SessionAssumption

LEMMA InitIInv == Init => IInv
<1> SUFFICES ASSUME Init PROVE IInv
  OBVIOUS
<1>1. Values
  <2>1. texts = 0 /\ published = 0
    BY DEF Init
  <2>2. texts \in 0..MaxTexts /\ published \in 0..MaxMessages
    BY <2>1, Constants
  <2>3. QED
    BY <2>2 DEF Init, Values
<1>2. Flags
  BY DEF Init, Flags
<1>3. OutType
  <2>1. TRUE \in BOOLEAN
    OBVIOUS
  <2>2. out = [msg |-> NoMessage, current |-> TRUE] /\ stdout = "scanning" /\ consumer = "creating"
    BY DEF Init
  <2>3. out \in [msg : Messages \union {NoMessage}, current : BOOLEAN]
    BY <2>1, <2>2
  <2>4. QED
    BY <2>2, <2>3 DEF OutType
<1>4. ReposAreSeen /\ AcceptedAreAllowed
  <2>1. delivered = <<>>
    BY DEF Init
  <2>2. Len(delivered) = 0
    BY <2>1
  <2>3. QED
    BY <2>2 DEF Init, ReposAreSeen, AcceptedAreAllowed
<1>5. LateOrOnTheWay
  <2>1. late = 0 /\ ~HandledLate /\ ~SentLate
    BY DEF Init, HandledLate, SentLate
  <2>2. QED
    BY <2>1 DEF LateOrOnTheWay, HandledLate, SentLate
<1>6. QED
  BY <1>1, <1>2, <1>3, <1>4, <1>5 DEF IInv

LEMMA FlagsStep == Flags /\ [Next]_vars => Flags'
<1> SUFFICES ASSUME Flags, [Next]_vars PROVE Flags'
  OBVIOUS
<1>1. client' = client \/ Leave
  BY DEF vars, Next, Receive, StdinEnds, Select, Return, Scan, ScanEnds, Register,
     CreateConsumer, Publish, Handle, Filter, Write, Send, StdoutEnds
<1>2. Leave => client' = FALSE
  BY DEF Leave
<1>3. QED
  BY <1>1, <1>2 DEF Flags

LEMMA ValuesStep == IInv /\ [Next]_vars => Values'
<1> SUFFICES ASSUME IInv, [Next]_vars PROVE Values'
  OBVIOUS
<1> USE DEF Values, inVars, consumerVars, outVars
<1>0. Values /\ OutType
  BY DEF IInv
<1>1. ASSUME NEW t \in Texts, Receive(t) PROVE Values'
  <2>1. texts \in 0..MaxTexts /\ texts < MaxTexts /\ texts' = texts + 1
    BY <1>0, <1>1 DEF Receive
  <2>2. texts' \in 0..MaxTexts
    BY <2>1, Constants
  <2>3. /\ text' = t /\ handler' = "writing"
        /\ UNCHANGED <<conn, incoming, line, Repo, seen, consumerVars, outVars>>
    BY <1>1 DEF Receive
  <2>4. QED
    BY <1>0, <2>2, <2>3
<1>2. CASE Leave \/ StdinEnds \/ Select \/ Return
  BY <1>0, <1>2 DEF Leave, StdinEnds, Select, Return
<1>3. CASE Scan \/ ScanEnds
  BY <1>0, <1>3 DEF Scan, ScanEnds
<1>4. CASE Register
  <2>1. Repo' \in Readable \union {NoRepo}
    BY <1>4 DEF Register, Registered
  <2>2. QED
    BY <1>0, <1>4, <2>1 DEF Register
<1>5. CASE CreateConsumer \/ Filter
  BY <1>0, <1>5 DEF CreateConsumer, Filter
<1>6. ASSUME NEW m \in Messages, Publish(m) PROVE Values'
  <2>1. /\ published \in 0..MaxMessages /\ published < MaxMessages
        /\ published' = published + 1
    BY <1>0, <1>6 DEF Publish
  <2>2. published' \in 0..MaxMessages
    BY <2>1, Constants
  <2>3. queue' = Append(queue, m) /\ queue \in Seq(Messages)
    BY <1>0, <1>6 DEF Publish
  <2>4. queue' \in Seq(Messages)
    BY <2>3
  <2>5. UNCHANGED <<conn, handler, inVars, consumer, msg, repo, outVars>>
    BY <1>6 DEF Publish
  <2>6. QED
    BY <1>0, <2>2, <2>4, <2>5
<1>7. CASE Handle
  <2>1. queue \in Seq(Messages) /\ queue # <<>> /\ msg' = Head(queue) /\ queue' = Tail(queue)
    BY <1>0, <1>7 DEF Handle
  <2>2. msg' \in Messages /\ queue' \in Seq(Messages)
    BY <2>1
  <2>3. /\ repo' = Repo /\ consumer' = "checking"
        /\ UNCHANGED <<conn, handler, inVars, published, outVars>>
    BY <1>7 DEF Handle
  <2>4. QED
    BY <1>0, <2>2, <2>3
<1>8. CASE Write \/ StdoutEnds
  BY <1>0, <1>8 DEF Write, StdoutEnds
<1>9. CASE Send
  <2>1. delivered' = delivered \/ delivered' = Append(delivered, out.msg)
    BY <1>9 DEF Send
  <2>2. late' = late \/ late' = late + 1
    BY <1>9 DEF Send
  <2>3. out.msg \in Messages /\ stdout' \in {"scanning", "ended"} /\ conn' \in {"open", "closed"}
    BY <1>0, <1>9 DEF Send, OutType
  <2>a. delivered \in Seq(Messages) /\ late \in Nat
    BY <1>0
  <2>4. delivered' \in Seq(Messages) /\ late' \in Nat
    BY <2>1, <2>2, <2>3, <2>a
  <2>5. UNCHANGED <<handler, inVars, consumerVars>>
    BY <1>9 DEF Send
  <2>6. QED
    BY <1>0, <2>3, <2>4, <2>5
<1>10. CASE UNCHANGED vars
  BY <1>0, <1>10 DEF vars
<1>11. QED
  BY <1>1, <1>2, <1>3, <1>4, <1>5, <1>6, <1>7, <1>8, <1>9, <1>10 DEF Next

LEMMA OutStep == IInv /\ [Next]_vars => OutType'
<1> SUFFICES ASSUME IInv, [Next]_vars PROVE OutType'
  OBVIOUS
<1> USE DEF OutType
<1>0. Values /\ OutType
  BY DEF IInv
<1>1. ASSUME UNCHANGED <<out, stdout, consumer, msg>> PROVE OutType'
  BY <1>0, <1>1
<1>2. ASSUME NEW t \in Texts, Receive(t) PROVE OutType'
  BY <1>1, <1>2 DEF Receive, consumerVars, outVars
<1>3. CASE Leave \/ StdinEnds \/ Return \/ Scan \/ ScanEnds
  BY <1>1, <1>3 DEF Leave, StdinEnds, Return, Scan, ScanEnds, consumerVars, outVars
<1>4. CASE Select \/ CreateConsumer
  BY <1>0, <1>4 DEF Select, CreateConsumer, outVars
<1>5. CASE Register
  <2>1. out' = [out EXCEPT !.current = FALSE] /\ UNCHANGED <<stdout, consumer, msg>>
    BY <1>5 DEF Register, consumerVars
  <2>2. out' \in [msg : Messages \union {NoMessage}, current : BOOLEAN] /\ out'.msg = out.msg
    BY <1>0, <2>1
  <2>3. QED
    BY <1>0, <2>1, <2>2
<1>6. ASSUME NEW m \in Messages, Publish(m) PROVE OutType'
  BY <1>1, <1>6 DEF Publish, outVars
<1>7. CASE Handle
  <2>1. msg' \in Messages
    BY <1>0, <1>7 DEF Handle, Values
  <2>2. QED
    BY <1>0, <1>7, <2>1 DEF Handle, outVars
<1>8. CASE Filter
  BY <1>0, <1>8 DEF Filter, outVars
<1>9. CASE Write
  <2>1. consumer' = "idle" /\ msg' = msg /\ msg \in Messages
    BY <1>0, <1>9 DEF Write
  <2>2. CASE UNCHANGED <<stdout, out>>
    BY <1>0, <2>1, <2>2
  <2>3. CASE out' = [msg |-> msg, current |-> repo = Repo]
    <3>1. (repo = Repo) \in BOOLEAN
      OBVIOUS
    <3>2. out' \in [msg : Messages \union {NoMessage}, current : BOOLEAN] /\ out'.msg = msg
      BY <2>1, <2>3, <3>1
    <3>3. QED
      BY <2>1, <3>2
  <2>4. QED
    BY <1>9, <2>2, <2>3 DEF Write
<1>10. CASE Send \/ StdoutEnds
  BY <1>0, <1>10 DEF Send, StdoutEnds, consumerVars
<1>11. CASE UNCHANGED vars
  BY <1>1, <1>11 DEF vars, consumerVars, outVars
<1>12. QED
  BY <1>2, <1>3, <1>4, <1>5, <1>6, <1>7, <1>8, <1>9, <1>10, <1>11 DEF Next

\* seen only grows.
LEMMA SeenGrows == IInv /\ [Next]_vars => seen \subseteq seen'
<1> SUFFICES ASSUME IInv, [Next]_vars PROVE seen \subseteq seen'
  OBVIOUS
<1>1. CASE Register
  <2>1. NoRepo \notin seen
    BY Constants DEF IInv, Values
  <2>2. QED
    BY <1>1, <2>1 DEF Register
<1>2. CASE ~Register
  BY <1>2 DEF vars, inVars, Next, Receive, Leave, StdinEnds, Select, Return, Scan, ScanEnds,
     CreateConsumer, Publish, Handle, Filter, Write, Send, StdoutEnds
<1>3. QED
  BY <1>1, <1>2

LEMMA SeenStep == IInv /\ [Next]_vars => ReposAreSeen'
<1> SUFFICES ASSUME IInv, [Next]_vars PROVE ReposAreSeen'
  OBVIOUS
<1>1. ReposAreSeen /\ seen \subseteq seen'
  BY SeenGrows DEF IInv
<1>2. CASE Register
  BY <1>1, <1>2 DEF Register, ReposAreSeen, consumerVars
<1>3. CASE Handle
  BY <1>1, <1>3 DEF Handle, ReposAreSeen, inVars
<1>4. CASE ~Register /\ ~Handle
  <2>1. Repo' = Repo /\ repo' = repo
    BY <1>4 DEF vars, inVars, consumerVars, Next, Receive, Leave, StdinEnds, Select, Return,
       Scan, ScanEnds, CreateConsumer, Publish, Filter, Write, Send, StdoutEnds
  <2>2. QED
    BY <1>1, <2>1 DEF ReposAreSeen
<1>5. QED
  BY <1>2, <1>3, <1>4

LEMMA AllowedStep == IInv /\ [Next]_vars => AcceptedAreAllowed'
<1> SUFFICES ASSUME IInv, [Next]_vars PROVE AcceptedAreAllowed'
  OBVIOUS
<1> USE DEF AcceptedAreAllowed
<1>0. Values /\ OutType /\ ReposAreSeen /\ AcceptedAreAllowed
  BY DEF IInv
<1>a. \A m : Allowed(m) => Allowed(m)'
  BY SeenGrows DEF Allowed
<1>1. ASSUME UNCHANGED <<consumer, msg, stdout, out, delivered>> PROVE AcceptedAreAllowed'
  BY <1>0, <1>a, <1>1 DEF Allowed
<1>2. ASSUME NEW t \in Texts, Receive(t) PROVE AcceptedAreAllowed'
  BY <1>1, <1>2 DEF Receive, consumerVars, outVars
<1>3. CASE Leave \/ StdinEnds \/ Return \/ Scan \/ ScanEnds
  BY <1>1, <1>3 DEF Leave, StdinEnds, Return, Scan, ScanEnds, consumerVars, outVars
<1>4. CASE Select \/ CreateConsumer
  <2>1. consumer' # "writing" \/ consumer' = consumer
    BY <1>4 DEF Select, CreateConsumer
  <2>2. UNCHANGED <<msg, stdout, out, delivered, seen>>
    BY <1>4 DEF Select, CreateConsumer, inVars, outVars
  <2>3. QED
    BY <1>0, <2>1, <2>2 DEF Allowed
<1>5. CASE Register
  <2>1. out'.msg = out.msg
    BY <1>0, <1>5 DEF Register, OutType
  <2>2. UNCHANGED <<consumer, msg, stdout, delivered>>
    BY <1>5 DEF Register, consumerVars
  <2>3. seen \subseteq seen'
    BY SeenGrows
  <2>4. QED
    BY <1>0, <2>1, <2>2, <2>3 DEF Allowed
<1>6. ASSUME NEW m \in Messages, Publish(m) PROVE AcceptedAreAllowed'
  BY <1>1, <1>6 DEF Publish, outVars
<1>7. CASE Handle
  BY <1>0, <1>7 DEF Handle, outVars, inVars, Allowed
<1>8. CASE Filter
  <2>1. UNCHANGED <<msg, stdout, out, delivered, seen>>
    BY <1>8 DEF Filter, outVars, inVars
  <2>2. consumer' = "writing" => Accepts(msg)
    BY <1>8 DEF Filter
  <2>3. Accepts(msg) => Allowed(msg)
    <3>1. repo \in Readable => repo # NoRepo
      BY Constants
    <3>2. QED
      BY <1>0, <3>1 DEF ReposAreSeen, Accepts, Allowed
  <2>4. QED
    BY <1>0, <2>1, <2>2, <2>3 DEF Allowed
<1>9. CASE Write
  <2>1. consumer' = "idle" /\ UNCHANGED <<delivered, seen>> /\ Allowed(msg)
    BY <1>0, <1>9 DEF Write, inVars
  <2>2. (stdout' = stdout /\ out' = out) \/ out'.msg = msg
    BY <1>9 DEF Write
  <2>3. QED
    BY <1>0, <2>1, <2>2 DEF Allowed
<1>10. CASE Send
  <2>1. UNCHANGED <<consumer, msg, out, seen>> /\ stdout' # "sending" /\ Allowed(out.msg)
    BY <1>0, <1>10 DEF Send, consumerVars, inVars
  <2>2. delivered' = delivered \/ delivered' = Append(delivered, out.msg)
    BY <1>10 DEF Send
  <2>3. ASSUME NEW i \in 1..Len(delivered') PROVE Allowed(delivered'[i])
    <3>1. CASE delivered' = delivered
      BY <1>0, <2>3, <3>1
    <3>2. CASE delivered' = Append(delivered, out.msg)
      <4>1. out.msg \in Messages /\ delivered \in Seq(Messages)
        BY <1>0, <1>10 DEF Send, Values, OutType
      <4>2. (i \in 1..Len(delivered) /\ delivered'[i] = delivered[i]) \/ delivered'[i] = out.msg
        BY <2>3, <3>2, <4>1
      <4>3. QED
        BY <1>0, <2>1, <4>2
    <3>3. QED
      BY <2>2, <3>1, <3>2
  <2>4. QED
    BY <1>0, <2>1, <2>3 DEF Allowed
<1>11. CASE StdoutEnds
  BY <1>0, <1>11 DEF StdoutEnds, consumerVars, inVars, Allowed
<1>12. CASE UNCHANGED vars
  BY <1>1, <1>12 DEF vars, consumerVars, outVars
<1>13. QED
  BY <1>2, <1>3, <1>4, <1>5, <1>6, <1>7, <1>8, <1>9, <1>10, <1>11, <1>12 DEF Next

\* A change of Repo starts the count again, with what is on its way; the handler
\* function reads Repo anew for each message, so that nothing comes after that.
LEMMA LateStep == IInv /\ [Next]_vars => LateOrOnTheWay'
<1> SUFFICES ASSUME IInv, [Next]_vars PROVE LateOrOnTheWay'
  OBVIOUS
<1> USE DEF LateOrOnTheWay
<1>0. late \in Nat /\ LateOrOnTheWay
  BY DEF IInv, Values
<1>1. ASSUME late' = late, HandledLate' => HandledLate, SentLate' => SentLate
      PROVE  LateOrOnTheWay'
  BY <1>0, <1>1
<1>2. ASSUME UNCHANGED <<late, msg, consumer, repo, Repo, stdout, out>> PROVE LateOrOnTheWay'
  BY <1>1, <1>2 DEF HandledLate, SentLate
<1>3. ASSUME NEW t \in Texts, Receive(t) PROVE LateOrOnTheWay'
  BY <1>2, <1>3 DEF Receive, consumerVars, outVars
<1>4. CASE Leave \/ StdinEnds \/ Return \/ Scan \/ ScanEnds
  BY <1>2, <1>4 DEF Leave, StdinEnds, Return, Scan, ScanEnds, consumerVars, outVars, inVars
<1>5. CASE Select \/ CreateConsumer
  <2>1. ~HandledLate' \/ consumer' = consumer
    BY <1>5 DEF Select, CreateConsumer, HandledLate
  <2>2. UNCHANGED <<late, repo, Repo, stdout, out>>
    BY <1>5 DEF Select, CreateConsumer, inVars, outVars
  <2>3. QED
    BY <1>1, <2>1, <2>2 DEF HandledLate, SentLate
<1>6. CASE Register
  BY <1>6 DEF Register
<1>7. ASSUME NEW m \in Messages, Publish(m) PROVE LateOrOnTheWay'
  <2>1. UNCHANGED <<late, consumer, repo, Repo, stdout, out>>
    BY <1>7 DEF Publish, outVars, inVars
  <2>2. QED
    BY <1>1, <2>1 DEF HandledLate, SentLate
<1>8. CASE Handle
  <2>1. ~HandledLate' /\ UNCHANGED <<late, stdout, out>>
    BY <1>8 DEF Handle, inVars, outVars, HandledLate
  <2>2. QED
    BY <1>1, <2>1 DEF SentLate
<1>9. CASE Filter
  <2>1. consumer = "checking" /\ UNCHANGED <<late, repo, Repo, stdout, out>>
    BY <1>9 DEF Filter, inVars, outVars
  <2>2. QED
    BY <1>1, <2>1 DEF HandledLate, SentLate
<1>10. CASE Write
  <2>1. ~HandledLate' /\ late' = late /\ consumer = "writing"
    BY <1>10 DEF Write, HandledLate
  <2>2. CASE UNCHANGED <<stdout, out>>
    BY <1>1, <2>1, <2>2 DEF SentLate
  <2>3. CASE stdout = "scanning" /\ stdout' = "sending" /\ out' = [msg |-> msg, current |-> repo = Repo]
    <3>1. out'.current <=> repo = Repo
      BY <2>3
    <3>2. SentLate' => HandledLate
      BY <2>1, <3>1 DEF SentLate, HandledLate
    <3>3. QED
      BY <1>0, <2>1, <3>2
  <2>4. QED
    BY <1>10, <2>2, <2>3 DEF Write
<1>11. CASE Send
  <2>1. stdout = "sending" /\ UNCHANGED <<consumer, repo, Repo>> /\ ~SentLate'
    BY <1>11 DEF Send, consumerVars, inVars, SentLate
  <2>2. late' = late \/ (SentLate /\ late' = late + 1)
    BY <1>11 DEF Send, SentLate
  <2>3. HandledLate' <=> HandledLate
    BY <2>1 DEF HandledLate
  <2>4. QED
    BY <1>0, <2>1, <2>2, <2>3
<1>12. CASE StdoutEnds
  <2>1. UNCHANGED <<late, consumer, repo, Repo, out>> /\ ~SentLate'
    BY <1>12 DEF StdoutEnds, consumerVars, inVars, SentLate
  <2>2. QED
    BY <1>1, <2>1 DEF HandledLate
<1>13. CASE UNCHANGED vars
  BY <1>2, <1>13 DEF vars, consumerVars, outVars, inVars
<1>14. QED
  BY <1>3, <1>4, <1>5, <1>6, <1>7, <1>8, <1>9, <1>10, <1>11, <1>12, <1>13 DEF Next

LEMMA Invariance == Spec => []IInv
<1>1. IInv /\ [Next]_vars => IInv'
  BY FlagsStep, ValuesStep, OutStep, SeenStep, AllowedStep, LateStep DEF IInv
<1>2. QED
  BY InitIInv, <1>1, PTL DEF Spec

-----------------------------------------------------------------------------

\* The variables have their types; connection.Repo is one that the ACL of the user
\* lets him read.
THEOREM TypeCorrect == Spec => []TypeOK
<1>1. IInv => TypeOK
  BY DEF IInv, Values, Flags, OutType, TypeOK
<1>2. QED
  BY <1>1, Invariance, PTL

\* Every message that the client gets is for this user and his groups, and of a
\* repository that the client has registered or of all of them.
THEOREM ClientGetsItsMessages == Spec => []OnlyItsMessages
<1>1. IInv => OnlyItsMessages
  BY DEF IInv, Values, AcceptedAreAllowed, Allowed, OnlyItsMessages
<1>2. QED
  BY <1>1, Invariance, PTL

\* After the client has changed its repository it gets at most two messages that
\* were accepted for the one before, however many are published.
THEOREM FewAreLate == Spec => []AtMostTwoLate
<1>1. IInv => AtMostTwoLate
  BY DEF IInv, Values, LateOrOnTheWay, AtMostTwoLate
<1>2. QED
  BY <1>1, Invariance, PTL

-----------------------------------------------------------------------------
(* Where the session stands still: the safety side of SessionEnds. The      *)
(* guards of the actions whose fairness is assumed are written out, for     *)
(* ENABLED is beyond the provers.                                           *)

HandlerCanMove ==
  \/ handler = "reading" /\ (~client \/ conn = "closed")
  \/ handler = "select"
  \/ handler = "waiting" /\ stdout = "ended"

IncomingCanMove ==
  \/ incoming = "handling"
  \/ incoming = "scanning" /\ handler # "reading"

ConsumerCanMove ==
  \/ consumer \in {"creating", "checking"}
  \/ consumer = "idle" /\ queue # <<>>
  \/ consumer = "writing" /\ (handler = "returned" \/ stdout = "scanning")

StdoutCanMove ==
  \/ stdout = "sending"
  \/ stdout = "scanning" /\ handler = "returned"

SomeoneCanMove == HandlerCanMove \/ IncomingCanMove \/ ConsumerCanMove \/ StdoutCanMove

\* What the session can stand still for:
\*  - both sides are there, and the client may send a line;
\*  - pumpStdin is stuck in the Write of a line that was too long;
\*  - handle waits for pumpStdout, and pumpStdout for a message, while the websocket
\*    is closed and NSQ holds no message for it;
\*  - handle has returned, and then the goroutines of the websocket have ended.
\* Unless pumpStdin is stuck no message is left behind in a consumer that works.
NothingLeft == consumer \in {"failed", "deaf", "ended"} \/ (consumer = "idle" /\ queue = <<>>)

RestsAtTheEnd ==
  ~SomeoneCanMove =>
    \/ handler = "reading" /\ client /\ conn = "open" /\ stdout = "scanning" /\ NothingLeft
    \/ handler = "writing" /\ incoming = "gaveUp"
    \/ handler = "waiting" /\ conn = "closed" /\ stdout = "scanning" /\ NothingLeft
         /\ incoming = "ended"
    \/ handler = "returned" /\ conn = "closed" /\ stdout = "ended" /\ NothingLeft
         /\ incoming = "ended"

\* Who has closed what: reqw is closed when pumpStdin has ended, with the websocket,
\* and so is the websocket when pumpStdout has.
ClosedBehind ==
  /\ handler \in {"select", "waiting", "returned"} => conn = "closed"
  /\ stdout = "ended" => conn = "closed"
  /\ incoming = "ended" => handler \notin {"reading", "writing"}
  /\ incoming = "gaveUp" => handler = "writing"

LEMMA ClosedStep == IInv /\ ClosedBehind /\ [Next]_vars => ClosedBehind'
<1> SUFFICES ASSUME IInv, ClosedBehind, [Next]_vars PROVE ClosedBehind'
  OBVIOUS
<1> USE DEF ClosedBehind
<1>1. CASE \E t \in Texts : Receive(t)
  <2>1. PICK t \in Texts : Receive(t)
    BY <1>1
  <2>2. incoming # "ended" /\ incoming # "gaveUp"
    BY <2>1 DEF Receive
  <2>3. QED
    BY <2>1, <2>2 DEF Receive, outVars
<1>2. CASE Leave
  BY <1>2 DEF Leave, inVars, outVars
<1>3. CASE StdinEnds
  BY <1>3 DEF StdinEnds, inVars, outVars
<1>4. CASE Select
  <2>1. conn = "closed" /\ incoming # "gaveUp"
    BY <1>4 DEF Select
  <2>2. /\ handler' \in {"waiting", "returned"} /\ conn' = conn
        /\ incoming' = incoming /\ stdout' = stdout
    BY <1>4 DEF Select, inVars, outVars
  <2>3. QED
    BY <2>1, <2>2
<1>5. CASE Return
  BY <1>5 DEF Return, inVars, outVars
<1>6. CASE Scan \/ Register
  BY <1>6 DEF Scan, Register, outVars
<1>7. CASE ScanEnds
  BY <1>7 DEF ScanEnds, outVars
<1>8. CASE CreateConsumer \/ Handle \/ Filter \/ \E m \in Messages : Publish(m)
  BY <1>8 DEF CreateConsumer, Handle, Filter, Publish, inVars, outVars
<1>9. CASE Write
  <2>1. /\ UNCHANGED <<conn, handler, incoming>>
        /\ stdout' = stdout \/ stdout' = "sending"
    BY <1>9 DEF Write, inVars
  <2>2. QED
    BY <2>1
<1>10. CASE Send \/ StdoutEnds
  <2>1. /\ UNCHANGED <<handler, incoming>>
        /\ conn' = "closed" \/ (conn' = conn /\ stdout' = "scanning")
    BY <1>10 DEF Send, StdoutEnds, inVars
  <2>2. QED
    BY <2>1
<1>11. CASE UNCHANGED vars
  BY <1>11 DEF vars, inVars, outVars
<1>12. QED
  BY <1>1, <1>2, <1>3, <1>4, <1>5, <1>6, <1>7, <1>8, <1>9, <1>10, <1>11 DEF Next

\* A session whose goroutines can go no further, and whose client sends no line and
\* stays or has gone, waits for one of the four reasons above. In particular it can
\* stay behind a closed websocket as long as there is no message for it, and no longer.
THEOREM SessionRestsOnlySo == Spec => []RestsAtTheEnd
<1>1. Init => ClosedBehind
  BY DEF Init, ClosedBehind
<1>2. ASSUME IInv, ClosedBehind, ~SomeoneCanMove PROVE RestsAtTheEnd
  <2>0. ~HandlerCanMove /\ ~IncomingCanMove /\ ~ConsumerCanMove /\ ~StdoutCanMove
    BY <1>2 DEF SomeoneCanMove
  <2>1. /\ handler \in {"reading", "writing", "waiting", "returned"}
        /\ incoming \in {"scanning", "gaveUp", "ended"}
        /\ stdout \in {"scanning", "ended"}
        /\ consumer \in {"failed", "deaf", "ended", "idle", "writing"}
    BY <1>2, <2>0 DEF IInv, Values, HandlerCanMove, IncomingCanMove, ConsumerCanMove,
       StdoutCanMove
  <2>2. consumer = "writing" \/ NothingLeft
    BY <2>0, <2>1 DEF ConsumerCanMove, NothingLeft
  <2>3. consumer = "writing" => handler # "returned" /\ stdout = "ended"
    BY <2>0, <2>1 DEF ConsumerCanMove
  <2>4. CASE handler = "reading"
    <3>1. client /\ conn # "closed"
      BY <2>0, <2>4 DEF HandlerCanMove
    <3>2. conn = "open" /\ stdout = "scanning"
      BY <1>2, <2>1, <3>1 DEF IInv, Values, ClosedBehind
    <3>3. NothingLeft
      BY <2>2, <2>3, <3>2
    <3>4. QED
      BY <2>4, <3>1, <3>2, <3>3 DEF RestsAtTheEnd
  <2>5. CASE handler = "writing"
    <3>1. incoming = "gaveUp"
      BY <1>2, <2>0, <2>1, <2>5 DEF IncomingCanMove, ClosedBehind
    <3>2. QED
      BY <2>5, <3>1 DEF RestsAtTheEnd
  <2>6. CASE handler = "waiting"
    <3>1. stdout = "scanning" /\ conn = "closed" /\ incoming = "ended"
      BY <1>2, <2>0, <2>1, <2>6 DEF HandlerCanMove, IncomingCanMove, ClosedBehind
    <3>2. NothingLeft
      BY <2>2, <2>3, <3>1
    <3>3. QED
      BY <2>6, <3>1, <3>2 DEF RestsAtTheEnd
  <2>7. CASE handler = "returned"
    <3>1. stdout = "ended" /\ conn = "closed" /\ incoming = "ended"
      BY <1>2, <2>0, <2>1, <2>7 DEF StdoutCanMove, IncomingCanMove, ClosedBehind
    <3>2. NothingLeft
      BY <2>2, <2>3, <2>7
    <3>3. QED
      BY <2>7, <3>1, <3>2 DEF RestsAtTheEnd
  <2>8. QED
    BY <2>1, <2>4, <2>5, <2>6, <2>7
<1>3. IInv /\ ClosedBehind => RestsAtTheEnd
  <2>1. SomeoneCanMove => RestsAtTheEnd
    BY DEF RestsAtTheEnd
  <2>2. QED
    BY <1>2, <2>1
<1>4. QED
  BY <1>1, <1>3, ClosedStep, Invariance, PTL DEF Spec

-----------------------------------------------------------------------------
(* A measure: after the last line and the last message a session comes to   *)
(* rest in finitely many steps, in whatever order they are taken.           *)

ClientRank(here) == IF here THEN 1 ELSE 0

HandlerRank(s) ==
  CASE s = "writing" -> 5 [] s = "reading" -> 3 [] s = "select" -> 2 [] s = "waiting" -> 1
    [] OTHER -> 0

IncomingRank(s) == CASE s = "handling" -> 2 [] s = "scanning" -> 1 [] OTHER -> 0

ConsumerRank(s) ==
  CASE s = "checking" -> 3 [] s = "writing" -> 2 [] s = "creating" -> 1 [] OTHER -> 0

StdoutRank(s) == CASE s = "sending" -> 2 [] s = "scanning" -> 1 [] OTHER -> 0

StdinSteps == HandlerRank(handler) + IncomingRank(incoming)
MessageSteps == 4 * Len(queue) + ConsumerRank(consumer) + StdoutRank(stdout)

StepsLeft == ClientRank(client) + StdinSteps + MessageSteps

LEMMA StepsAreNat ==
  IInv => /\ ClientRank(client) \in Nat /\ StdinSteps \in Nat /\ MessageSteps \in Nat
          /\ StepsLeft \in Nat
<1> SUFFICES ASSUME IInv
             PROVE  /\ ClientRank(client) \in Nat /\ StdinSteps \in Nat /\ MessageSteps \in Nat
                    /\ StepsLeft \in Nat
  OBVIOUS
<1>1. ClientRank(client) \in Nat
  BY DEF ClientRank
<1>2. StdinSteps \in Nat
  BY DEF StdinSteps, HandlerRank, IncomingRank
<1>3. Len(queue) \in Nat
  BY DEF IInv, Values
<1>4. MessageSteps \in Nat
  BY <1>3 DEF MessageSteps, ConsumerRank, StdoutRank
<1>5. QED
  BY <1>1, <1>2, <1>4 DEF StepsLeft

\* Every step other than a new line of the client or a new message brings the session
\* nearer to the rest of which SessionRestsOnlySo speaks. The two together are what
\* SessionEnds says, for every session and without an assumption on the order in which
\* goroutines run, but that some step is taken where one can be.
THEOREM SessionGetsNearer ==
  Spec => /\ [](StepsLeft \in Nat)
          /\ [][\/ StepsLeft' < StepsLeft
                \/ \E t \in Texts : Receive(t)
                \/ \E m \in Messages : Publish(m)]_vars
<1>1. ASSUME IInv, IInv', Next,
             ~\E t \in Texts : Receive(t), ~\E m \in Messages : Publish(m)
      PROVE  StepsLeft' < StepsLeft
  <2> DEFINE a == ClientRank(client)  a1 == ClientRank(client')
             b == StdinSteps          b1 == StdinSteps'
             c == MessageSteps        c1 == MessageSteps'
  <2>1. /\ a \in Nat /\ b \in Nat /\ c \in Nat /\ a1 \in Nat /\ b1 \in Nat /\ c1 \in Nat
        /\ StepsLeft = a + b + c /\ StepsLeft' = a1 + b1 + c1
    <3>1. IInv' => (/\ ClientRank(client) \in Nat /\ StdinSteps \in Nat /\ MessageSteps \in Nat
                    /\ StepsLeft \in Nat)'
      BY StepsAreNat, PTL
    <3>2. ClientRank(client)' = ClientRank(client')
      BY DEF ClientRank
    <3>3. QED
      BY <1>1, <3>1, <3>2, StepsAreNat DEF StepsLeft
  <2>2. /\ UNCHANGED client => a1 = a
        /\ UNCHANGED <<handler, incoming>> => b1 = b
        /\ UNCHANGED <<queue, consumer, stdout>> => c1 = c
    BY DEF StdinSteps, MessageSteps
  <2>3. CASE Leave
    <3>1. UNCHANGED <<handler, incoming, queue, consumer, stdout>>
      BY <2>3 DEF Leave, inVars, consumerVars, outVars
    <3>2. a1 <= a - 1
      BY <2>3 DEF Leave, ClientRank
    <3> HIDE DEF a, a1, b, b1, c, c1
    <3>3. QED
      BY <2>1, <2>2, <3>1, <3>2
  <2>4. CASE StdinEnds \/ Return \/ Scan \/ ScanEnds \/ Register
    <3>1. UNCHANGED <<client, queue, consumer, stdout>>
      BY <2>4 DEF StdinEnds, Return, Scan, ScanEnds, Register, consumerVars, outVars
    <3>2. b1 <= b - 1
      <4>1. \/ handler = "reading" /\ handler' = "select" /\ incoming' = incoming
            \/ handler = "waiting" /\ handler' = "returned" /\ incoming' = incoming
            \/ /\ handler = "writing" /\ handler' = "reading"
               /\ incoming = "scanning" /\ incoming' = "handling"
            \/ /\ handler' = handler /\ incoming = "scanning"
               /\ incoming' \in {"gaveUp", "ended"}
            \/ handler' = handler /\ incoming = "handling" /\ incoming' = "scanning"
        BY <2>4 DEF StdinEnds, Return, Scan, ScanEnds, Register, inVars
      <4>2. QED
        BY <4>1 DEF StdinSteps, HandlerRank, IncomingRank
    <3> HIDE DEF a, a1, b, b1, c, c1
    <3>3. QED
      BY <2>1, <2>2, <3>1, <3>2
  <2>5. CASE Select
    <3>1. UNCHANGED <<client, incoming, queue, stdout>>
      BY <2>5 DEF Select, inVars, outVars
    <3>2. b1 <= b - 1
      BY <2>5, <3>1 DEF Select, StdinSteps, HandlerRank, IncomingRank
    <3>3. c1 <= c
      <4>1. consumer' = consumer \/ consumer' = "ended"
        BY <2>5 DEF Select
      <4>2. Len(queue) \in Nat
        BY <1>1 DEF IInv, Values
      <4>3. QED
        BY <3>1, <4>1, <4>2 DEF MessageSteps, ConsumerRank, StdoutRank
    <3> HIDE DEF a, a1, b, b1, c, c1
    <3>4. QED
      BY <2>1, <2>2, <3>1, <3>2, <3>3
  <2>6. CASE CreateConsumer \/ Filter \/ Write \/ Send \/ StdoutEnds
    <3>1. UNCHANGED <<client, handler, incoming, queue>>
      BY <2>6 DEF CreateConsumer, Filter, Write, Send, StdoutEnds, inVars, consumerVars
    <3>2. c1 <= c - 1
      <4>1. \/ /\ stdout' = stdout /\ consumer = "creating"
               /\ consumer' \in {"failed", "deaf", "idle"}
            \/ stdout' = stdout /\ consumer = "checking" /\ consumer' \in {"writing", "idle"}
            \/ stdout' = stdout /\ consumer = "writing" /\ consumer' = "idle"
            \/ /\ consumer = "writing" /\ consumer' = "idle"
               /\ stdout = "scanning" /\ stdout' = "sending"
            \/ consumer' = consumer /\ stdout = "sending" /\ stdout' \in {"scanning", "ended"}
            \/ consumer' = consumer /\ stdout = "scanning" /\ stdout' = "ended"
        BY <2>6 DEF CreateConsumer, Filter, Write, Send, StdoutEnds, consumerVars, outVars
      <4>2. Len(queue) \in Nat
        BY <1>1 DEF IInv, Values
      <4>3. QED
        BY <3>1, <4>1, <4>2 DEF MessageSteps, ConsumerRank, StdoutRank
    <3> HIDE DEF a, a1, b, b1, c, c1
    <3>3. QED
      BY <2>1, <2>2, <3>1, <3>2
  <2>7. CASE Handle
    <3>1. UNCHANGED <<client, handler, incoming, stdout>>
      BY <2>7 DEF Handle, inVars, outVars
    <3>2. c1 <= c - 1
      <4>1. /\ consumer = "idle" /\ consumer' = "checking"
            /\ queue' = Tail(queue) /\ queue # <<>> /\ queue \in Seq(Messages)
        BY <1>1, <2>7 DEF Handle, IInv, Values
      <4>2. Len(queue') = Len(queue) - 1 /\ Len(queue) \in Nat /\ Len(queue) > 0
        BY <4>1
      <4>3. QED
        BY <3>1, <4>1, <4>2 DEF MessageSteps, ConsumerRank, StdoutRank
    <3> HIDE DEF a, a1, b, b1, c, c1
    <3>3. QED
      BY <2>1, <2>2, <3>1, <3>2
  <2>8. QED
    BY <1>1, <2>3, <2>4, <2>5, <2>6, <2>7 DEF Next
<1>2. IInv /\ IInv' /\ [Next]_vars =>
        [\/ StepsLeft' < StepsLeft
         \/ \E t \in Texts : Receive(t)
         \/ \E m \in Messages : Publish(m)]_vars
  BY <1>1
<1>3. QED
  BY <1>2, StepsAreNat, Invariance, PTL DEF Spec
=============================================================================
