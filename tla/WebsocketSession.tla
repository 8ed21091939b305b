-------------------------- MODULE WebsocketSession --------------------------
(***************************************************************************)
(* One websocket: the handler of server/middleware/pydiows, which runs     *)
(* pumpStdin and then waits for the end of the session, and the goroutines *)
(* around it: the one of websocket.NewConnection that follows the client's *)
(* register and unregister lines, the NSQ consumer that filters the        *)
(* messages for this user, and pumpStdout. Two io.Pipes (reqr/reqw and     *)
(* respr/respw) connect them: a Write ends when the other side has read.   *)
(* The gorilla connection, NSQ and the client are external.                *)
(***************************************************************************)
EXTENDS Naturals, Sequences

CONSTANTS
  Repos,      \* the repositories of the user
  Readable,   \* those of them whose ACL has "r", or no ACL at all
  NoRepo,     \* a nil *Repo, and the name of no repository
  Messages,   \* the messages of topic "im" that may be published
  MaxTexts,   \* how many lines the client sends
  MaxMessages \* how many messages are published during the session

ASSUME SessionAssumption ==
  /\ Readable \subseteq Repos
  /\ NoRepo \notin Repos
  /\ Messages \subseteq [repo : Repos \union {"*"}, user : {"", "mine", "other"},
                         group : {"", "mine", "other"}]
  /\ MaxTexts \in Nat /\ MaxMessages \in Nat

\* What the client sends: "register:" and a name, "unregister", or a line beyond
\* the limit of bufio.Scanner.
Texts == [op : {"register"}, repo : Repos \union {NoRepo}]
           \union [op : {"unregister", "long"}, repo : {NoRepo}]

NoText == [op |-> "none", repo |-> NoRepo]
NoMessage == [repo |-> NoRepo, user |-> "", group |-> ""]

VARIABLES
  client,    \* the client is there
  conn,      \* the websocket is open on this side
  handler,   \* where the goroutine of handle stands
  text,      \* the line pumpStdin is writing to reqw
  texts,     \* how many lines the client has sent
  incoming,  \* where the goroutine that scans reqr stands
  line,      \* the line it is at
  Repo,      \* connection.Repo
  consumer,  \* where the goroutine of the NSQ consumer stands
  queue,     \* the messages NSQ holds for this consumer
  msg, repo, \* the message being handled and the connection.Repo read for it
  stdout,    \* where pumpStdout stands; done is closed when it has ended
  out,       \* the message it is writing to the websocket, with its repo
  delivered, \* the messages the client has received (history)
  published, \* how many messages were published
  seen,      \* the repositories the session was registered to (history)
  late       \* messages delivered since the last change of Repo though they had
             \* been accepted before it (history)

inVars == <<text, texts, incoming, line, Repo, seen>>
outVars == <<stdout, out, delivered, late>>
consumerVars == <<consumer, queue, msg, repo, published>>
vars == <<client, conn, handler, inVars, consumerVars, outVars>>

TypeOK ==
  /\ client \in BOOLEAN
  /\ conn \in {"open", "closed"}
  /\ handler \in {"reading", "writing", "select", "waiting", "returned"}
  /\ text \in Texts \union {NoText}
  /\ texts \in 0..MaxTexts
  /\ incoming \in {"scanning", "handling", "gaveUp", "ended"}
  /\ line \in Texts \union {NoText}
  /\ Repo \in Readable \union {NoRepo}
  /\ seen \subseteq Readable
  /\ consumer \in {"creating", "failed", "deaf", "idle", "checking", "writing", "ended"}
  /\ queue \in Seq(Messages)
  /\ msg \in Messages \union {NoMessage}
  /\ repo \in Readable \union {NoRepo}
  /\ published \in 0..MaxMessages
  /\ stdout \in {"scanning", "sending", "ended"}
  /\ out \in [msg : Messages \union {NoMessage}, current : BOOLEAN]
  /\ delivered \in Seq(Messages)
  /\ late \in Nat

Init ==
  /\ client = TRUE
  /\ conn = "open"
  /\ handler = "reading"
  /\ text = NoText
  /\ texts = 0
  /\ incoming = "scanning"
  /\ line = NoText
  /\ Repo = NoRepo
  /\ seen = {}
  /\ consumer = "creating"
  /\ queue = <<>>
  /\ msg = NoMessage
  /\ repo = NoRepo
  /\ published = 0
  /\ stdout = "scanning"
  /\ out = [msg |-> NoMessage, current |-> TRUE]
  /\ delivered = <<>>
  /\ late = 0

-----------------------------------------------------------------------------
(* The client.                                                              *)

\* A line arrives; ReadMessage returns it and pumpStdin starts its Write.
Receive(t) ==
  /\ client
  /\ texts < MaxTexts
  /\ handler = "reading"
  /\ conn = "open"
  /\ text' = t
  /\ texts' = texts + 1
  /\ handler' = "writing"
  /\ UNCHANGED <<client, conn, incoming, line, Repo, seen, consumerVars, outVars>>

\* The client closes the websocket or does not answer the pings.
Leave ==
  /\ client
  /\ client' = FALSE
  /\ UNCHANGED <<conn, handler, inVars, consumerVars, outVars>>

-----------------------------------------------------------------------------
(* handle.                                                                  *)

\* ReadMessage fails; pumpStdin closes the websocket; handle closes reqw, which
\* ends the goroutine that scans the lines.
StdinEnds ==
  /\ handler = "reading"
  /\ ~client \/ conn = "closed"
  /\ conn' = "closed"
  /\ handler' = "select"
  /\ UNCHANGED <<client, inVars, consumerVars, outVars>>

\* The select: a consumer that could not be created sends its error on ExitChan,
\* well before the second is over; else handle goes on to wait for done.
Select ==
  /\ handler = "select"
  /\ IF consumer = "failed"
     THEN handler' = "returned" /\ consumer' = "ended"
     ELSE handler' = "waiting" /\ UNCHANGED consumer
  /\ UNCHANGED <<client, conn, inVars, queue, msg, repo, published, outVars>>

\* done is closed, handle returns and its deferred calls close respw and the
\* websocket.
Return ==
  /\ handler = "waiting"
  /\ stdout = "ended"
  /\ handler' = "returned"
  /\ UNCHANGED <<client, conn, inVars, consumerVars, outVars>>

-----------------------------------------------------------------------------
(* The goroutine of NewConnection that scans the lines.                     *)

\* It reads a line from reqr, which ends the Write of pumpStdin.
Scan ==
  /\ incoming = "scanning"
  /\ handler = "writing"
  /\ text.op # "long"
  /\ incoming' = "handling"
  /\ line' = text
  /\ text' = NoText
  /\ handler' = "reading"
  /\ UNCHANGED <<client, conn, texts, Repo, seen, consumerVars, outVars>>

\* Scan returns false: at a line that is too long, and then nobody ends the Write
\* of pumpStdin, or when reqw is closed.
ScanEnds ==
  /\ incoming = "scanning"
  /\ \/ handler = "writing" /\ text.op = "long" /\ incoming' = "gaveUp"
     \/ handler \in {"select", "waiting", "returned"} /\ incoming' = "ended"
  /\ UNCHANGED <<client, conn, handler, text, texts, line, Repo, seen, consumerVars, outVars>>

\* connection.User.GetRepo and Repo.IsReadable: the repository that the line
\* registers, nil for one that is unknown or not readable, and for unregister.
\* The mutant does not look at the ACL.
RegisteredUnchecked(t) == IF t.op = "register" THEN t.repo ELSE NoRepo
Registered(t) == IF t.op = "register" /\ t.repo \in Readable THEN t.repo ELSE NoRepo

Register ==
  /\ incoming = "handling"
  /\ Repo' = Registered(line)
  /\ seen' = (seen \union {Repo'}) \ {NoRepo}
  /\ line' = NoText
  /\ incoming' = "scanning"
  /\ late' = 0
  /\ out' = [out EXCEPT !.current = FALSE]
  /\ UNCHANGED <<client, conn, handler, text, texts, consumerVars, stdout, delivered>>

-----------------------------------------------------------------------------
(* The NSQ consumer.                                                        *)

\* NewConsumer fails, and its error waits on ExitChan; or Start does, and nobody
\* looks at its error; or messages come from now on.
CreateConsumer ==
  /\ consumer = "creating"
  /\ consumer' \in {"failed", "deaf", "idle"}
  /\ UNCHANGED <<client, conn, handler, inVars, queue, msg, repo, published, outVars>>

Publish(m) ==
  /\ consumer \in {"idle", "checking", "writing"}
  /\ published < MaxMessages
  /\ published' = published + 1
  /\ queue' = Append(queue, m)
  /\ UNCHANGED <<client, conn, handler, inVars, consumer, msg, repo, outVars>>

\* The handler function starts: it reads connection.Repo once. The mutant works
\* with the value it read for the message before, if there was one.
HandleWithOldRepo ==
  /\ consumer = "idle"
  /\ queue # <<>>
  /\ msg' = Head(queue)
  /\ queue' = Tail(queue)
  /\ repo' = IF repo = NoRepo THEN Repo ELSE repo
  /\ consumer' = "checking"
  /\ UNCHANGED <<client, conn, handler, inVars, published, outVars>>

Handle ==
  /\ consumer = "idle"
  /\ queue # <<>>
  /\ msg' = Head(queue)
  /\ queue' = Tail(queue)
  /\ repo' = Repo
  /\ consumer' = "checking"
  /\ UNCHANGED <<client, conn, handler, inVars, published, outVars>>

\* The filter. The mutant forgets the group.
AcceptsAnyGroup(m) ==
  /\ repo \in Readable
  /\ m.repo \in {"*", repo}
  /\ m.user \in {"", "mine"}

Accepts(m) ==
  /\ repo \in Readable
  /\ m.repo \in {"*", repo}
  /\ m.user \in {"", "mine"}
  /\ m.group \in {"", "mine"}

Filter ==
  /\ consumer = "checking"
  /\ consumer' = IF Accepts(msg) THEN "writing" ELSE "idle"
  /\ UNCHANGED <<client, conn, handler, inVars, queue, msg, repo, published, outVars>>

\* writer.Write ends when pumpStdout has read the message, or fails when handle
\* has closed respw; the consumer itself never stops.
Write ==
  /\ consumer = "writing"
  /\ consumer' = "idle"
  /\ IF handler = "returned"
     THEN UNCHANGED <<stdout, out>>
     ELSE /\ stdout = "scanning"
          /\ stdout' = "sending"
          /\ out' = [msg |-> msg, current |-> repo = Repo]
  /\ UNCHANGED <<client, conn, handler, inVars, queue, msg, repo, published, delivered, late>>

-----------------------------------------------------------------------------
(* pumpStdout.                                                              *)

\* WriteMessage succeeds while both sides are there. It fails when the websocket
\* is closed on this side, and may do either when only the client is gone. The
\* mutant goes on after an error.
SendIgnoringError ==
  /\ stdout = "sending"
  /\ stdout' = "scanning"
  /\ delivered' = IF conn = "open" THEN Append(delivered, out.msg) ELSE delivered
  /\ UNCHANGED <<client, conn, handler, inVars, consumerVars, out, late>>

Send ==
  /\ stdout = "sending"
  /\ \/ /\ conn = "open"
        /\ stdout' = "scanning"
        /\ delivered' = IF client THEN Append(delivered, out.msg) ELSE delivered
        /\ late' = IF client /\ ~out.current THEN late + 1 ELSE late
        /\ UNCHANGED conn
     \/ /\ conn = "closed" \/ ~client
        /\ stdout' = "ended"
        /\ conn' = "closed"
        /\ UNCHANGED <<delivered, late>>
  /\ UNCHANGED <<client, handler, inVars, consumerVars, out>>

\* respw is closed: the scanner is at its end.
StdoutEnds ==
  /\ stdout = "scanning"
  /\ handler = "returned"
  /\ stdout' = "ended"
  /\ conn' = "closed"
  /\ UNCHANGED <<client, handler, inVars, consumerVars, out, delivered, late>>

Next ==
  \/ \E t \in Texts : Receive(t)
  \/ Leave \/ StdinEnds \/ Select \/ Return
  \/ Scan \/ ScanEnds \/ Register
  \/ CreateConsumer
  \/ \E m \in Messages : Publish(m)
  \/ Handle \/ Filter \/ Write
  \/ Send \/ StdoutEnds

(* The goroutines run; the client and the publishers do as they like.       *)
Fairness ==
  /\ WF_vars(StdinEnds \/ Select \/ Return)
  /\ WF_vars(Scan \/ ScanEnds \/ Register)
  /\ WF_vars(CreateConsumer \/ Handle \/ Filter \/ Write)
  /\ WF_vars(Send \/ StdoutEnds)

Spec == Init /\ [][Next]_vars

FairSpec == Spec /\ Fairness

-----------------------------------------------------------------------------
(* Properties.                                                              *)

\* The client gets messages for this user and this group only, of repositories
\* that it had registered and may read, or for all of them.
OnlyItsMessages ==
  \A i \in 1..Len(delivered) :
    LET m == delivered[i] IN
      /\ m.user # "other" /\ m.group # "other"
      /\ m.repo \in seen \union {"*"}
      /\ seen # {} /\ seen \subseteq Readable

\* connection.Repo may change between the filter and the websocket, but at most
\* two messages are late: one in the handler function and one in pumpStdout.
AtMostTwoLate == late <= 2

\* Once the websocket is closed on this side the session ends with the first
\* message for it, or by the error of its consumer if that came in time, unless
\* pumpStdin is stuck on a line that was too long. Closing stdin does not end it
\* alone, for handle waits for pumpStdout, and pumpStdout for a message.
SessionEnds ==
  \/ conn = "closed" /\ stdout = "sending"
  \/ handler = "select" /\ consumer = "failed"
  ~> handler = "returned" \/ incoming = "gaveUp"

=============================================================================
