------------------------------ MODULE Pipeline ------------------------------
(***************************************************************************)
(* The rules of server/middleware/pydiomiddleware: each rule of a request  *)
(* puts a ContextValue into the request's context and gives the workers a  *)
(* job that fills it; a "request" rule reads the values of the rules       *)
(* before it while it builds its job, and the next handler (the upload,    *)
(* the websocket) reads values too. The requests run side by side, on the  *)
(* same workers and with the same Rule slices.                             *)
(*                                                                         *)
(* A value is taken as a whole here; ContextValue has the pieces, the pipe *)
(* and the buffer, and the panic of readers that overlap, which is left    *)
(* out here. The servers that the jobs ask are external.                   *)
(***************************************************************************)
EXTENDS Naturals, Sequences, FiniteSets, SequencesExt

CONSTANTS
  Requests,
  Rules,      \* Rules[q]: the rules that match request q, in their order
  NextReads,  \* the names that the next handler reads, in its order
  Matching,   \* Matching[q]: the headers of request q that the rules forward
  Workers,    \* the workers of the Dispatcher
  NoJob, NoHeader

\* type and out are those of the rule; "cookies" says that some cookie is sent;
\* "array" is the array behind rule.Headers, which all requests share, or NoArray
\* if it has no room for one more header.
RuleRecords == [type : {"node", "auth", "request"}, out : STRING,
                cookies : BOOLEAN, array : STRING]

NoArray == ""
Jobs == UNION {{q} \X DOMAIN Rules[q] : q \in Requests}
Indices == UNION {DOMAIN Rules[q] : q \in Requests}
Arrays == {Rules[j[1]][j[2]].array : j \in Jobs} \ {NoArray}
Headers == UNION {Matching[q] : q \in Requests}
Names == {"node", "auth", "token"} \union Range(NextReads)  \* that anyone reads

ASSUME PipelineAssumption ==
  /\ DOMAIN Rules = Requests
  /\ \A q \in Requests : Rules[q] \in Seq(RuleRecords)
  /\ NextReads \in Seq(STRING)
  /\ DOMAIN Matching = Requests
  /\ NoHeader \notin Headers
  /\ NoJob \notin Jobs

VARIABLES
  status, slot,  \* the jobs, as JobService describes them
  pc,            \* pc[q]: where the goroutine of request q stands
  rule,          \* rule[q]: the rule it is at
  todo,          \* todo[q]: the names it has still to read; the first is under way
  val,           \* val[j]: the value that job j fills
  late,          \* late[q]: the values a timed out read of q has a goroutine in
  cancelled,     \* the requests whose context is done
  answer,        \* answer[q]: what the client has been told
  spare,         \* spare[a]: what is behind the last header in array a
  header,        \* header[q]: the header that handle has appended for its rule
  sent,          \* sent[j]: the header that job j sends along
  raced          \* the jobs for which another request has appended to their
                 \* array before their header was read (history)

poolVars == <<status, slot>>
readVars == <<todo, late>>
headerVars == <<spare, header, sent, raced>>
vars == <<poolVars, pc, rule, readVars, val, cancelled, answer, headerVars>>

Pool == INSTANCE JobService WITH Slots <- Workers

TypeOK ==
  /\ status \in [Jobs -> {"new", "accepted", "running", "done"}]
  /\ slot \in [Workers -> Jobs \union {NoJob}]
  /\ pc \in [Requests -> {"rules", "reading", "adding", "body", "next", "ended"}]
  /\ rule \in [Requests -> Nat]
  /\ todo \in [Requests -> Seq(Names)]
  /\ val \in [Jobs -> {"none", "queued", "writing", "done", "empty", "failed"}]
  /\ late \in [Requests -> SUBSET Indices]
  /\ cancelled \subseteq Requests
  /\ answer \in [Requests -> {"none", "served", "refused"}]
  /\ spare \in [Arrays -> Headers \union {NoHeader}]
  /\ header \in [Requests -> Headers \union {NoHeader}]
  /\ sent \in [Jobs -> Headers \union {NoHeader}]
  /\ raced \subseteq Jobs
  /\ \A j \in Jobs : status[j] = "accepted" <=> val[j] = "queued"

Init ==
  /\ Pool!Init
  /\ pc = [q \in Requests |-> "rules"]
  /\ rule = [q \in Requests |-> 0]
  /\ todo = [q \in Requests |-> <<>>]
  /\ val = [j \in Jobs |-> "none"]
  /\ late = [q \in Requests |-> {}]
  /\ cancelled = {}
  /\ answer = [q \in Requests |-> "none"]
  /\ spare = [a \in Arrays |-> NoHeader]
  /\ header = [q \in Requests |-> NoHeader]
  /\ sent = [j \in Jobs |-> NoHeader]
  /\ raced = {}

-----------------------------------------------------------------------------
(* ServeHTTP and handle.                                                    *)

Rule(q) == Rules[q][rule[q]]

\* The jobs whose header is in array a and is still to be read, but those of q.
Exposed(q, a) ==
  {<<p, rule[p]>> : p \in {p \in Requests \ {q} :
                             pc[p] = "reading" /\ header[p] # NoHeader /\ Rule(p).array = a}}

\* The loop over the request's headers starts from rule.Headers at each match:
\* the last one of them, in the order of a map, is what is appended, in place if
\* the array has room.
BeginRule(q) ==
  /\ pc[q] = "rules"
  /\ rule[q] < Len(Rules[q])
  /\ rule' = [rule EXCEPT ![q] = @ + 1]
  /\ LET r == Rules[q][rule[q] + 1] IN
     /\ \E h \in IF Matching[q] = {} THEN {NoHeader} ELSE Matching[q] :
          /\ header' = [header EXCEPT ![q] = h]
          /\ IF h # NoHeader /\ r.array # NoArray
             THEN /\ spare' = [spare EXCEPT ![r.array] = h]
                  /\ raced' = raced \union Exposed(q, r.array)
             ELSE UNCHANGED <<spare, raced>>
     /\ IF r.type = "request"
        THEN pc' = [pc EXCEPT ![q] = "reading"] /\ todo' = [todo EXCEPT ![q] = <<"node">>]
        ELSE pc' = [pc EXCEPT ![q] = "adding"] /\ UNCHANGED todo
  /\ UNCHANGED <<poolVars, late, val, cancelled, answer, sent>>

\* NewRequestJob reads the auth parameters after the node, unless it sends a
\* cookie, and the token if there are none; it goes on without what it could not
\* read. Then it makes the http.Request: the header is read now.
NeedsAuth(q) == pc[q] = "reading" /\ ~Rule(q).cookies

\* The header that the job gets: headers refers to the array if that had room.
Forwarded(q) ==
  IF header[q] # NoHeader /\ Rule(q).array # NoArray THEN spare[Rule(q).array] ELSE header[q]

BuildRequest(q) ==
  /\ pc[q] = "reading"
  /\ todo[q] = <<>>
  /\ sent' = [sent EXCEPT ![<<q, rule[q]>>] = Forwarded(q)]
  /\ pc' = [pc EXCEPT ![q] = "adding"]
  /\ UNCHANGED <<poolVars, rule, readVars, val, cancelled, answer, spare, header, raced>>

\* d.Add(job), or job.Do() right here for the response body.
AddJob(q) ==
  /\ pc[q] = "adding"
  /\ IF Rule(q).out = "body"
     THEN /\ pc' = [pc EXCEPT ![q] = "body"]
          /\ UNCHANGED <<poolVars, val>>
     ELSE /\ pc' = [pc EXCEPT ![q] = "rules"]
          /\ Pool!Accept(<<q, rule[q]>>)
          /\ val' = [val EXCEPT ![<<q, rule[q]>>] = "queued"]
  /\ UNCHANGED <<rule, readVars, cancelled, answer, headerVars>>

\* Do has written the body or has failed; handle returns StatusOK in both cases.
\* A node or auth job would wait here for a reader of its value.
DoBody(q) ==
  /\ pc[q] = "body"
  /\ Rule(q).type = "request"
  /\ \/ val' = [val EXCEPT ![<<q, rule[q]>>] = "empty"] /\ UNCHANGED cancelled
     \/ val' = [val EXCEPT ![<<q, rule[q]>>] = "failed"] /\ cancelled' = cancelled \union {q}
  /\ pc' = [pc EXCEPT ![q] = "ended"]
  /\ answer' = [answer EXCEPT ![q] = "served"]
  /\ UNCHANGED <<poolVars, rule, readVars, headerVars>>

\* errHandle of the next handler looks at the context first. If that is done the
\* handler does not start, and nobody reads the values of the rules.
RulesDone(q) == pc[q] = "rules" /\ rule[q] = Len(Rules[q])

RefuseAtOnce(q) ==
  /\ RulesDone(q)
  /\ q \in cancelled
  /\ pc' = [pc EXCEPT ![q] = "ended"]
  /\ answer' = [answer EXCEPT ![q] = "refused"]
  /\ UNCHANGED <<poolVars, rule, readVars, val, cancelled, headerVars>>

CallNext(q) ==
  /\ RulesDone(q)
  /\ q \notin cancelled
  /\ pc' = [pc EXCEPT ![q] = "next"]
  /\ todo' = [todo EXCEPT ![q] = NextReads]
  /\ UNCHANGED <<poolVars, rule, late, val, cancelled, answer, headerVars>>

\* The next handler has read what it needs and does its work.
NextEnds(q) ==
  /\ pc[q] = "next"
  /\ todo[q] = <<>>
  /\ pc' = [pc EXCEPT ![q] = "ended"]
  /\ answer' = [answer EXCEPT ![q] = IF @ = "none" THEN "served" ELSE @]
  /\ UNCHANGED <<poolVars, rule, readVars, val, cancelled, headerVars>>

\* The context is done later: errHandle answers and leaves the handler running.
Refuse(q) ==
  /\ pc[q] = "next"
  /\ q \in cancelled
  /\ answer[q] = "none"
  /\ answer' = [answer EXCEPT ![q] = "refused"]
  /\ UNCHANGED <<poolVars, pc, rule, readVars, val, cancelled, headerVars>>

-----------------------------------------------------------------------------
(* Reading a value: getValue and FromContext.                               *)

\* The rule whose value the context has under a name: the last one so far, the
\* one at work included, or 0.
Provider(q, name) ==
  LET found == {k \in 1..rule[q] : Rules[q][k].out = name}
  IN IF found = {} THEN 0 ELSE Max(found)

Reading(q, k) ==
  /\ pc[q] \in {"reading", "next"}
  /\ todo[q] # <<>>
  /\ Provider(q, Head(todo[q])) = k

\* The names left after a read that gave a value. After "auth" no token is needed.
AfterValue(q) ==
  IF NeedsAuth(q) /\ Head(todo[q]) = "node" THEN <<"auth">> ELSE Tail(todo[q])

GetValue(q) ==
  /\ \E k \in DOMAIN Rules[q] : Reading(q, k) /\ val[<<q, k>>] = "done"
  /\ todo' = [todo EXCEPT ![q] = AfterValue(q)]
  /\ UNCHANGED <<poolVars, pc, rule, late, val, cancelled, answer, headerVars>>

\* A read has failed: a rule goes on, the next handler returns an error.
Failed(q) ==
  IF pc[q] = "next"
  THEN /\ pc' = [pc EXCEPT ![q] = "ended"]
       /\ answer' = [answer EXCEPT ![q] = IF @ = "none" THEN "refused" ELSE @]
       /\ todo' = [todo EXCEPT ![q] = <<>>]
  ELSE /\ todo' = [todo EXCEPT ![q] = IF Head(@) = "auth" THEN <<"token">> ELSE AfterValue(q)]
       /\ UNCHANGED <<pc, answer>>

\* There is no such value, or it is empty and cannot be decoded. A read that was
\* next to the goroutine of a timed out one waits in ReadAll like that one, until
\* the value is closed, and may then have missed it. The mutant waits on for a
\* value where there is an empty one.
Missed(q, k) == val[<<q, k>>] = "done" /\ k \in late[q]

NoValueUnlessEmpty(q) ==
  /\ \E k \in 0..Len(Rules[q]) :
       /\ Reading(q, k)
       /\ k # 0 => Missed(q, k)
  /\ Failed(q)
  /\ UNCHANGED <<poolVars, rule, late, val, cancelled, headerVars>>

NoValue(q) ==
  /\ \E k \in 0..Len(Rules[q]) :
       /\ Reading(q, k)
       /\ k # 0 => val[<<q, k>>] = "empty" \/ Missed(q, k)
  /\ Failed(q)
  /\ UNCHANGED <<poolVars, rule, late, val, cancelled, headerVars>>

\* Thirty seconds have passed; the goroutine of the read stays.
Timeout(q) ==
  /\ \E k \in DOMAIN Rules[q] :
       /\ Reading(q, k)
       /\ val[<<q, k>>] \notin {"done", "empty"}
       /\ late' = [late EXCEPT ![q] = @ \union {k}]
  /\ Failed(q)
  /\ UNCHANGED <<poolVars, rule, val, cancelled, headerVars>>

-----------------------------------------------------------------------------
(* The jobs.                                                                *)

\* The value is being written to its pipe; or there is none and it is closed,
\* because the path cannot be decoded, which cancels the request, or the response
\* does not have the key; or the server cannot be asked or refuses, which cancels
\* the request and leaves the value open.
Do(q, k) ==
  /\ \E v \in {"writing", "empty", "failed"} :
       /\ v = "failed" => Rules[q][k].type = "request"
       /\ v = "empty" => Rules[q][k].type # "auth"
       /\ val' = [val EXCEPT ![<<q, k>>] = v]
       /\ cancelled' = IF v = "failed" \/ (v = "empty" /\ Rules[q][k].type = "node")
                       THEN cancelled \union {q} ELSE cancelled
  /\ UNCHANGED <<pc, rule, readVars, answer>>

\* A worker gets the job. In one mutant Do is not called, in the other one the
\* http.Request is made by Do, from the headers that the job has kept.
StartJobIdle(q, k) ==
  /\ \E w \in Workers : Pool!Start(<<q, k>>, w)
  /\ UNCHANGED <<pc, rule, readVars, val, cancelled, answer, headerVars>>

StartJobMakesRequest(q, k) ==
  /\ \E w \in Workers : Pool!Start(<<q, k>>, w)
  /\ Do(q, k)
  /\ LET a == Rules[q][k].array IN
     sent' = [sent EXCEPT ![<<q, k>>] = IF @ # NoHeader /\ a # NoArray THEN spare[a] ELSE @]
  /\ UNCHANGED <<spare, header, raced>>

StartJob(q, k) ==
  /\ \E w \in Workers : Pool!Start(<<q, k>>, w)
  /\ Do(q, k)
  /\ UNCHANGED headerVars

\* A goroutine in Read takes the value, the job closes it. The mutant stops the
\* goroutine of a read that has timed out.
TakeValueInTime(q, k) ==
  /\ val[<<q, k>>] = "writing"
  /\ Reading(q, k)
  /\ val' = [val EXCEPT ![<<q, k>>] = "done"]
  /\ UNCHANGED <<poolVars, pc, rule, readVars, cancelled, answer, headerVars>>

TakeValue(q, k) ==
  /\ val[<<q, k>>] = "writing"
  /\ Reading(q, k) \/ k \in late[q]
  /\ val' = [val EXCEPT ![<<q, k>>] = "done"]
  /\ UNCHANGED <<poolVars, pc, rule, readVars, cancelled, answer, headerVars>>

FinishJob(q, k) ==
  /\ val[<<q, k>>] # "writing"
  /\ \E w \in Workers : Pool!Finish(<<q, k>>, w)
  /\ UNCHANGED <<pc, rule, readVars, val, cancelled, answer, headerVars>>

Next ==
  \E q \in Requests :
    \/ BeginRule(q) \/ BuildRequest(q) \/ AddJob(q) \/ DoBody(q)
    \/ CallNext(q) \/ RefuseAtOnce(q) \/ NextEnds(q) \/ Refuse(q)
    \/ GetValue(q) \/ NoValue(q) \/ Timeout(q)
    \/ \E k \in DOMAIN Rules[q] : StartJob(q, k) \/ TakeValue(q, k) \/ FinishJob(q, k)

(* Goroutines run, the servers answer or refuse, and a job gets a worker if *)
(* one is free. No timeout is needed: the properties say what needs one.    *)
Fairness ==
  \A q \in Requests :
    /\ WF_vars(BeginRule(q) \/ BuildRequest(q) \/ AddJob(q) \/ DoBody(q)
                 \/ CallNext(q) \/ RefuseAtOnce(q) \/ NextEnds(q)
                 \/ GetValue(q) \/ NoValue(q))
    /\ \A k \in DOMAIN Rules[q] :
         WF_vars(StartJob(q, k) \/ TakeValue(q, k) \/ FinishJob(q, k))

Spec == Init /\ [][Next]_vars

FairSpec == Spec /\ Fairness

-----------------------------------------------------------------------------
(* Properties.                                                              *)

\* handle matches "potential headers to forward": a job sends the matching header
\* of its own request, however long its rule has waited for a value.
ForwardsItsHeader ==
  \A q \in Requests : \A k \in DOMAIN Rules[q] :
    status[<<q, k>>] # "new" /\ Rules[q][k].type = "request" =>
      Matching[q] = {sent[<<q, k>>]} \ {NoHeader}

\* As long as no other request appends to the array of the rule while it waits, a
\* job sends one of the matching headers of its request, and none if none matches,
\* whatever the requests before have left behind the slice.
ForwardsOneOfItsHeaders ==
  \A q \in Requests : \A k \in DOMAIN Rules[q] :
    /\ status[<<q, k>>] # "new"
    /\ Rules[q][k].type = "request"
    /\ <<q, k>> \notin raced
    => IF Matching[q] = {} THEN sent[<<q, k>>] = NoHeader
                           ELSE sent[<<q, k>>] \in Matching[q]

\* Why a read may have nothing but its timeout: the job has failed; a rule reads
\* the value that it provides itself; or every worker is in the write of a value
\* while the job that is waited for has none.
BlockedRead(q, k) ==
  \/ val[<<q, k>>] = "failed"
  \/ pc[q] = "reading" /\ k = rule[q]
  \/ /\ val[<<q, k>>] = "queued"
     /\ \A w \in Workers : slot[w] # NoJob /\ val[slot[w]] = "writing"

\* Every other read ends by itself: one that does not end stays blocked.
ReadsEnd ==
  \A q \in Requests : \A k \in DOMAIN Rules[q] :
    <>[]Reading(q, k) => <>[]BlockedRead(q, k)

\* A job gives its worker back, unless it writes a value that nobody reads, as
\* those of a request that was refused at once.
Unread(q, k) == val[<<q, k>>] = "writing" /\ ~Reading(q, k) /\ k \notin late[q]

WorkersComeBack ==
  \A q \in Requests : \A k \in DOMAIN Rules[q] :
    <>[](status[<<q, k>>] = "running") => <>[]Unread(q, k)
=============================================================================
