--------------------------- MODULE PipelineProofs ---------------------------
(***************************************************************************)
(* Pipeline for any requests and rules: the jobs, values and reads stay    *)
(* consistent; a job sends a header of its own request unless another      *)
(* request appends to the array of its rule meanwhile; reads wait only for *)
(* the reasons that BlockedRead names.                                     *)
(***************************************************************************)
EXTENDS Pipeline, FiniteSetTheorems, SequenceTheorems, WellFoundedInduction, TLAPS

\* TypeOK without its last conjunct.
Values ==
  /\ status \in [Jobs -> {"new", "accepted", "running", "done"}]
  /\ slot \in [Workers -> Jobs \union {NoJob}]
  /\ pc \in [Requests -> {"rules", "reading", "adding", "body", "next", "ended"}]
  /\ rule \in [Requests -> Nat]
  /\ todo \in [Requests -> Seq(Names)]
  /\ val \in [Jobs -> {"none", "queued", "writing", "done", "empty", "failed"}]
  /\ late \in [Requests -> SUBSET Indices]
  /\ cancelled \subseteq Requests
  /\ answer \in [Requests -> {"none", "served", "refused"}]

HeaderValues ==
  /\ spare \in [Arrays -> Headers \union {NoHeader}]
  /\ header \in [Requests -> Headers \union {NoHeader}]
  /\ sent \in [Jobs -> Headers \union {NoHeader}]
  /\ raced \subseteq Jobs

Queued == \A j \in Jobs : status[j] = "accepted" <=> val[j] = "queued"

\* A request that is at a rule is at one of its own.
AtARule ==
  \A q \in Requests :
    /\ rule[q] <= Len(Rules[q])
    /\ pc[q] \in {"reading", "adding", "body"} => rule[q] >= 1
    /\ pc[q] = "reading" => Rule(q).type = "request"

\* The rules that a request has not come to, or not done with, have no job yet.
Ahead(q, k) == k > rule[q] \/ (k = rule[q] /\ pc[q] \in {"reading", "adding", "body"})

NoJobYet ==
  \A q \in Requests : \A k \in DOMAIN Rules[q] : Ahead(q, k) => status[<<q, k>>] = "new"

\* The inductive invariant of TypeOK.
IInv == Values /\ HeaderValues /\ Queued /\ AtARule /\ NoJobYet

\* h is a header that handle may forward for request q.
ItsHeader(q, h) == IF Matching[q] = {} THEN h = NoHeader ELSE h \in Matching[q]

\* From the match to the http.Request the header stays where the rule has put it,
\* unless another request appends to the same array.
HeaderKept ==
  \A q \in Requests :
    pc[q] = "reading" /\ <<q, rule[q]>> \notin raced => ItsHeader(q, Forwarded(q))

\* The jobs whose http.Request is made.
SentIsItsHeader ==
  \A q \in Requests : \A k \in DOMAIN Rules[q] :
    /\ Rules[q][k].type = "request"
    /\ k < rule[q] \/ (k = rule[q] /\ pc[q] # "reading")
    /\ <<q, k>> \notin raced
    => ItsHeader(q, sent[<<q, k>>])

-----------------------------------------------------------------------------
(* The constants.                                                           *)

LEMMA JobPairs ==
  /\ \A q \in Requests : \A k \in DOMAIN Rules[q] : <<q, k>> \in Jobs
  /\ \A j \in Jobs : j[1] \in Requests /\ j[2] \in DOMAIN Rules[j[1]] /\ j = <<j[1], j[2]>>
  BY DEF Jobs

LEMMA RuleIndices ==
  ASSUME NEW q \in Requests
  PROVE  /\ Len(Rules[q]) \in Nat
         /\ DOMAIN Rules[q] = 1..Len(Rules[q])
         /\ DOMAIN Rules[q] \subseteq Indices
<1>1. Rules[q] \in Seq(RuleRecords)
  BY PipelineAssumption
<1>2. Len(Rules[q]) \in Nat /\ DOMAIN Rules[q] = 1..Len(Rules[q])
  BY <1>1
<1>3. DOMAIN Rules[q] \subseteq Indices
  BY DEF Indices
<1>4. QED
  BY <1>2, <1>3

LEMMA ArraysKnown ==
  ASSUME NEW q \in Requests, NEW k \in DOMAIN Rules[q], Rules[q][k].array # NoArray
  PROVE  Rules[q][k].array \in Arrays
<1>1. <<q, k>> \in Jobs
  BY JobPairs
<1>2. Rules[<<q, k>>[1]][<<q, k>>[2]].array = Rules[q][k].array
  OBVIOUS
<1>3. QED
  BY <1>1, <1>2 DEF Arrays

LEMMA HeadersKnown ==
  ASSUME NEW q \in Requests
  PROVE  Matching[q] \subseteq Headers /\ NoHeader \notin Matching[q]
  BY PipelineAssumption DEF Headers

LEMMA NextReadsNames == NextReads \in Seq(Names)
<1>1. NextReads \in Seq(STRING)
  BY PipelineAssumption
<1>2. \A i \in DOMAIN NextReads : NextReads[i] \in Names
  BY DEF Names, Range
<1>3. QED
  BY <1>1, <1>2

-----------------------------------------------------------------------------
(* TypeOK.                                                                  *)

LEMMA InitIInv == Init => IInv
<1> SUFFICES ASSUME Init PROVE IInv
  OBVIOUS
<1>1. status = [j \in Jobs |-> "new"] /\ slot = [w \in Workers |-> NoJob]
  BY DEF Init, Pool!Init
<1>2. Values
  BY <1>1 DEF Init, Values
<1>3. HeaderValues
  BY DEF Init, HeaderValues
<1>4. Queued
  BY <1>1 DEF Init, Queued
<1>5. AtARule
  BY RuleIndices DEF Init, AtARule
<1>6. NoJobYet
  BY <1>1, JobPairs DEF NoJobYet
<1>7. QED
  BY <1>2, <1>3, <1>4, <1>5, <1>6 DEF IInv

\* The rule at which a request stands has a job of its own.
LEMMA AtItsJob ==
  ASSUME IInv, NEW q \in Requests, pc[q] \in {"reading", "adding", "body"}
  PROVE  /\ rule[q] \in DOMAIN Rules[q]
         /\ <<q, rule[q]>> \in Jobs
         /\ status[<<q, rule[q]>>] = "new"
<1>1. rule[q] \in Nat /\ rule[q] >= 1 /\ rule[q] <= Len(Rules[q])
  BY DEF IInv, Values, AtARule
<1>2. rule[q] \in DOMAIN Rules[q]
  BY <1>1, RuleIndices
<1>3. Ahead(q, rule[q])
  BY DEF Ahead
<1>4. QED
  BY <1>2, <1>3, JobPairs DEF IInv, NoJobYet

\* The steps of a request that leave the jobs, the rule and the headers alone.
LEMMA RequestStep ==
  ASSUME IInv, NEW q \in Requests,
         Values', HeaderValues',
         UNCHANGED <<poolVars, rule, val>>,
         \A p \in Requests \ {q} : pc'[p] = pc[p],
         pc'[q] \in {"rules", "next", "ended", pc[q]} \/ (pc[q] = "reading" /\ pc'[q] = "adding")
  PROVE  IInv'
<1>1. Queued'
  BY DEF IInv, Queued, poolVars
<1>2. AtARule'
  BY DEF IInv, AtARule, Rule
<1>3. NoJobYet'
  <2>1. ASSUME NEW p \in Requests, NEW k \in DOMAIN Rules[p], Ahead(p, k)'
        PROVE  Ahead(p, k)
    BY <2>1 DEF Ahead
  <2>2. QED
    BY <2>1 DEF IInv, NoJobYet, poolVars
<1>4. QED
  BY <1>1, <1>2, <1>3 DEF IInv

LEMMA BeginRuleStep ==
  ASSUME IInv, NEW q \in Requests, BeginRule(q)
  PROVE  IInv'
<1> DEFINE r == Rules[q][rule[q] + 1]
<1>1. /\ pc[q] = "rules" /\ rule[q] < Len(Rules[q])
      /\ rule' = [rule EXCEPT ![q] = @ + 1]
      /\ UNCHANGED <<status, slot, late, val, cancelled, answer, sent>>
  BY DEF BeginRule, poolVars
<1>2. \/ r.type = "request" /\ pc' = [pc EXCEPT ![q] = "reading"]
         /\ todo' = [todo EXCEPT ![q] = <<"node">>]
      \/ r.type # "request" /\ pc' = [pc EXCEPT ![q] = "adding"] /\ UNCHANGED todo
  BY DEF BeginRule
<1>3. PICK h \in (IF Matching[q] = {} THEN {NoHeader} ELSE Matching[q]) :
          /\ header' = [header EXCEPT ![q] = h]
          /\ spare' = IF h # NoHeader /\ r.array # NoArray
                      THEN [spare EXCEPT ![r.array] = h] ELSE spare
  BY DEF BeginRule
<1>4. Values /\ HeaderValues /\ Queued /\ AtARule /\ NoJobYet
  BY DEF IInv
<1>5. rule[q] \in Nat /\ rule'[q] = rule[q] + 1
  BY <1>1, <1>4 DEF Values
<1>6. Values'
  <2>1. <<"node">> \in Seq(Names)
    BY DEF Names
  <2>2. todo' \in [Requests -> Seq(Names)]
    BY <1>2, <1>4, <2>1 DEF Values
  <2>3. pc' \in [Requests -> {"rules", "reading", "adding", "body", "next", "ended"}]
    BY <1>2, <1>4 DEF Values
  <2>4. rule' \in [Requests -> Nat]
    BY <1>1, <1>4 DEF Values
  <2>5. QED
    BY <1>1, <1>4, <2>2, <2>3, <2>4 DEF Values
<1>7. HeaderValues'
  <2>1. h \in Headers \union {NoHeader}
    BY HeadersKnown
  <2>2. Exposed(q, r.array) \subseteq Jobs
    BY AtItsJob DEF Exposed
  <2>3. raced' \subseteq Jobs
    BY <1>4, <2>2 DEF BeginRule, HeaderValues
  <2>4. QED
    BY <1>1, <1>3, <1>4, <2>1, <2>3 DEF HeaderValues
<1>8. Queued'
  BY <1>1, <1>4 DEF Queued
<1>9. \A p \in Requests \ {q} : pc'[p] = pc[p] /\ rule'[p] = rule[p]
  BY <1>1, <1>2, <1>4 DEF Values
<1>10. pc'[q] \in {"reading", "adding"} /\ (pc'[q] = "reading" => r.type = "request")
  BY <1>2, <1>4 DEF Values
<1>11. AtARule'
  <2>1. rule'[q] <= Len(Rules[q]) /\ rule'[q] >= 1
    BY <1>1, <1>5, RuleIndices
  <2>2. pc'[q] = "reading" => Rules[q][rule'[q]].type = "request"
    BY <1>5, <1>10
  <2>3. QED
    BY <1>4, <1>9, <2>1, <2>2 DEF AtARule, Rule
<1>12. NoJobYet'
  <2>1. ASSUME NEW p \in Requests, NEW k \in DOMAIN Rules[p], Ahead(p, k)'
        PROVE  Ahead(p, k)
    <3>1. CASE p # q
      BY <1>9, <2>1, <3>1 DEF Ahead
    <3>2. CASE p = q
      <4>1. k \in Nat
        BY RuleIndices
      <4>2. k >= rule[q] + 1
        BY <1>5, <2>1, <3>2, <4>1 DEF Ahead
      <4>3. QED
        BY <1>5, <3>2, <4>1, <4>2 DEF Ahead
    <3>3. QED
      BY <3>1, <3>2
  <2>2. QED
    BY <1>1, <1>4, <2>1 DEF NoJobYet
<1>13. QED
  BY <1>6, <1>7, <1>8, <1>11, <1>12 DEF IInv

LEMMA BuildRequestStep ==
  ASSUME IInv, NEW q \in Requests, BuildRequest(q)
  PROVE  IInv'
<1>1. /\ pc[q] = "reading"
      /\ sent' = [sent EXCEPT ![<<q, rule[q]>>] = Forwarded(q)]
      /\ pc' = [pc EXCEPT ![q] = "adding"]
      /\ UNCHANGED <<status, slot, rule, todo, late, val, cancelled, answer, spare, header, raced>>
  BY DEF BuildRequest, poolVars, readVars
<1>2. Values /\ HeaderValues
  BY DEF IInv
<1>3. Values' /\ pc'[q] = "adding" /\ \A p \in Requests \ {q} : pc'[p] = pc[p]
  BY <1>1, <1>2 DEF Values
<1>4. rule[q] \in DOMAIN Rules[q]
  BY <1>1, AtItsJob
<1>5. Forwarded(q) \in Headers \union {NoHeader}
  BY <1>2, <1>4, ArraysKnown DEF HeaderValues, Forwarded, Rule
<1>6. HeaderValues'
  BY <1>1, <1>2, <1>5 DEF HeaderValues
<1>7. QED
  BY <1>1, <1>3, <1>6, RequestStep DEF poolVars

LEMMA AddJobStep ==
  ASSUME IInv, NEW q \in Requests, AddJob(q)
  PROVE  IInv'
<1> DEFINE it == <<q, rule[q]>>
<1>1. pc[q] = "adding" /\ UNCHANGED <<rule, todo, late, cancelled, answer, spare, header, sent, raced>>
  BY DEF AddJob, readVars, headerVars
<1>2. Values /\ HeaderValues /\ Queued /\ AtARule /\ NoJobYet
  BY DEF IInv
<1>3. it \in Jobs /\ status[it] = "new"
  BY <1>1, AtItsJob
<1>4. HeaderValues'
  BY <1>1, <1>2 DEF HeaderValues
<1>5. CASE pc' = [pc EXCEPT ![q] = "body"] /\ UNCHANGED <<status, slot, val>>
  <2>1. Values'
    BY <1>1, <1>2, <1>5 DEF Values
  <2>2. Queued'
    BY <1>2, <1>5 DEF Queued
  <2>3. pc'[q] = "body" /\ \A p \in Requests \ {q} : pc'[p] = pc[p]
    BY <1>2, <1>5 DEF Values
  <2>4. AtARule'
    BY <1>1, <1>2, <2>3 DEF AtARule, Rule
  <2>5. NoJobYet'
    <3>1. ASSUME NEW p \in Requests, NEW k \in DOMAIN Rules[p], Ahead(p, k)'
          PROVE  Ahead(p, k)
      BY <1>1, <2>3, <3>1 DEF Ahead
    <3>2. QED
      BY <1>2, <1>5, <3>1 DEF NoJobYet
  <2>6. QED
    BY <1>4, <2>1, <2>2, <2>4, <2>5 DEF IInv
<1>6. CASE /\ pc' = [pc EXCEPT ![q] = "rules"]
           /\ Pool!Accept(it)
           /\ val' = [val EXCEPT ![it] = "queued"]
  <2>1. status' = [status EXCEPT ![it] = "accepted"] /\ slot' = slot
    BY <1>6 DEF Pool!Accept
  <2>2. Values'
    BY <1>1, <1>2, <1>6, <2>1 DEF Values
  <2>3. Queued'
    BY <1>2, <1>3, <1>6, <2>1 DEF Values, Queued
  <2>4. pc'[q] = "rules" /\ \A p \in Requests \ {q} : pc'[p] = pc[p]
    BY <1>2, <1>6 DEF Values
  <2>5. AtARule'
    BY <1>1, <1>2, <2>4 DEF AtARule, Rule
  <2>6. NoJobYet'
    <3>1. ASSUME NEW p \in Requests, NEW k \in DOMAIN Rules[p], Ahead(p, k)'
          PROVE  Ahead(p, k) /\ <<p, k>> # it
      <4>1. CASE p # q
        BY <1>1, <2>4, <3>1, <4>1 DEF Ahead
      <4>2. CASE p = q
        <5>1. k > rule[q]
          BY <1>1, <2>4, <3>1, <4>2 DEF Ahead
        <5>2. k # rule[q]
          BY <1>2, <5>1, RuleIndices, <4>2 DEF Values
        <5>3. QED
          BY <4>2, <5>1, <5>2 DEF Ahead
      <4>3. QED
        BY <4>1, <4>2
    <3>2. QED
      BY <1>2, <1>3, <2>1, <3>1, JobPairs DEF Values, NoJobYet
  <2>7. QED
    BY <1>4, <2>2, <2>3, <2>5, <2>6 DEF IInv
<1>7. QED
  BY <1>5, <1>6 DEF AddJob, poolVars

LEMMA DoBodyStep ==
  ASSUME IInv, NEW q \in Requests, DoBody(q)
  PROVE  IInv'
<1> DEFINE it == <<q, rule[q]>>
<1>1. /\ pc[q] = "body"
      /\ pc' = [pc EXCEPT ![q] = "ended"]
      /\ answer' = [answer EXCEPT ![q] = "served"]
      /\ UNCHANGED <<status, slot, rule, todo, late, spare, header, sent, raced>>
  BY DEF DoBody, poolVars, readVars, headerVars
<1>2. PICK v \in {"empty", "failed"} : val' = [val EXCEPT ![it] = v]
  BY DEF DoBody
<1>3. cancelled' = cancelled \/ cancelled' = cancelled \union {q}
  BY DEF DoBody
<1>4. Values /\ HeaderValues /\ Queued /\ AtARule /\ NoJobYet
  BY DEF IInv
<1>5. it \in Jobs /\ status[it] = "new"
  BY <1>1, AtItsJob
<1>6. Values'
  BY <1>1, <1>2, <1>3, <1>4 DEF Values
<1>7. HeaderValues'
  BY <1>1, <1>4 DEF HeaderValues
<1>8. Queued'
  BY <1>1, <1>2, <1>4, <1>5 DEF Values, Queued
<1>9. pc'[q] = "ended" /\ \A p \in Requests \ {q} : pc'[p] = pc[p]
  BY <1>1, <1>4 DEF Values
<1>10. AtARule'
  BY <1>1, <1>4, <1>9 DEF AtARule, Rule
<1>11. NoJobYet'
  <2>1. ASSUME NEW p \in Requests, NEW k \in DOMAIN Rules[p], Ahead(p, k)'
        PROVE  Ahead(p, k)
    BY <1>1, <1>9, <2>1 DEF Ahead
  <2>2. QED
    BY <1>1, <1>4, <2>1 DEF NoJobYet
<1>12. QED
  BY <1>6, <1>7, <1>8, <1>10, <1>11 DEF IInv

LEMMA HandlerStep ==
  ASSUME IInv, NEW q \in Requests, CallNext(q) \/ RefuseAtOnce(q) \/ NextEnds(q) \/ Refuse(q)
  PROVE  IInv'
<1>1. UNCHANGED <<status, slot, rule, late, val, cancelled, spare, header, sent, raced>>
  BY DEF CallNext, RefuseAtOnce, NextEnds, Refuse, poolVars, readVars, headerVars
<1>2. \/ pc' = [pc EXCEPT ![q] = "next"]
      \/ pc' = [pc EXCEPT ![q] = "ended"]
      \/ pc' = pc
  BY DEF CallNext, RulesDone, RefuseAtOnce, NextEnds, Refuse
<1>3. todo' = [todo EXCEPT ![q] = NextReads] \/ todo' = todo
  BY DEF CallNext, RefuseAtOnce, NextEnds, Refuse, readVars
<1>4. \/ answer' = [answer EXCEPT ![q] = IF @ = "none" THEN "served" ELSE @]
      \/ answer' = [answer EXCEPT ![q] = "refused"]
      \/ answer' = answer
  BY DEF CallNext, RulesDone, RefuseAtOnce, NextEnds, Refuse
<1>5. Values /\ HeaderValues
  BY DEF IInv
<1>6. Values'
  <2>1. todo' \in [Requests -> Seq(Names)]
    BY <1>3, <1>5, NextReadsNames DEF Values
  <2>2. answer' \in [Requests -> {"none", "served", "refused"}]
    BY <1>4, <1>5 DEF Values
  <2>3. QED
    BY <1>1, <1>2, <1>5, <2>1, <2>2 DEF Values
<1>7. HeaderValues'
  BY <1>1, <1>5 DEF HeaderValues
<1>8. pc'[q] \in {"next", "ended", pc[q]} /\ \A p \in Requests \ {q} : pc'[p] = pc[p]
  BY <1>2, <1>5 DEF Values
<1>9. QED
  BY <1>1, <1>6, <1>7, <1>8, RequestStep DEF poolVars

LEMMA AfterValueType ==
  ASSUME NEW q \in Requests, todo[q] \in Seq(Names), todo[q] # <<>>
  PROVE  AfterValue(q) \in Seq(Names)
<1>1. Tail(todo[q]) \in Seq(Names) /\ <<"auth">> \in Seq(Names)
  BY DEF Names
<1>2. QED
  BY <1>1 DEF AfterValue

\* A read ends: with the value, without one, or by its timeout.
LEMMA ReadStep ==
  ASSUME IInv, NEW q \in Requests, GetValue(q) \/ NoValue(q) \/ Timeout(q)
  PROVE  IInv'
<1>1. UNCHANGED <<status, slot, rule, val, cancelled, spare, header, sent, raced>>
  BY DEF GetValue, NoValue, Timeout, poolVars, headerVars
<1>2. Values /\ HeaderValues
  BY DEF IInv
<1>3. todo[q] \in Seq(Names) /\ todo[q] # <<>>
  BY <1>2 DEF Values, GetValue, NoValue, Timeout, Reading
<1>4. late' = late \/ \E k \in DOMAIN Rules[q] : late' = [late EXCEPT ![q] = @ \union {k}]
  BY DEF GetValue, NoValue, Timeout
<1>5. late' \in [Requests -> SUBSET Indices]
  <2>1. late \in [Requests -> SUBSET Indices]
    BY <1>2 DEF Values
  <2>2. CASE \E k \in DOMAIN Rules[q] : late' = [late EXCEPT ![q] = @ \union {k}]
    <3>1. PICK k \in DOMAIN Rules[q] : late' = [late EXCEPT ![q] = late[q] \union {k}]
      BY <2>2
    <3>2. k \in Indices
      BY RuleIndices
    <3>3. late[q] \union {k} \in SUBSET Indices
      BY <2>1, <3>2
    <3>4. QED
      BY <2>1, <3>1, <3>3
  <2>3. QED
    BY <1>4, <2>1, <2>2
<1>6. \/ todo' = [todo EXCEPT ![q] = AfterValue(q)] /\ UNCHANGED <<pc, answer>>
      \/ Failed(q)
  BY DEF GetValue, NoValue, Timeout
<1>7. /\ \/ todo' = [todo EXCEPT ![q] = AfterValue(q)]
         \/ todo' = [todo EXCEPT ![q] = <<>>]
         \/ todo' = [todo EXCEPT ![q] = <<"token">>]
      /\ pc' = pc \/ pc' = [pc EXCEPT ![q] = "ended"]
      /\ \/ answer' = answer
         \/ answer' = [answer EXCEPT ![q] = IF @ = "none" THEN "refused" ELSE @]
  BY <1>6 DEF Failed
<1>8. Values'
  <2>1. <<>> \in Seq(Names) /\ <<"token">> \in Seq(Names)
    BY DEF Names
  <2>2. todo' \in [Requests -> Seq(Names)]
    <3>1. todo \in [Requests -> Seq(Names)] /\ AfterValue(q) \in Seq(Names)
      BY <1>2, <1>3, AfterValueType DEF Values
    <3>2. QED
      BY <1>7, <2>1, <3>1
  <2>3. answer' \in [Requests -> {"none", "served", "refused"}]
    <3>1. answer \in [Requests -> {"none", "served", "refused"}]
      BY <1>2 DEF Values
    <3>2. QED
      BY <1>7, <3>1
  <2>4. pc' \in [Requests -> {"rules", "reading", "adding", "body", "next", "ended"}]
    <3>1. pc \in [Requests -> {"rules", "reading", "adding", "body", "next", "ended"}]
      BY <1>2 DEF Values
    <3>2. QED
      BY <1>7, <3>1
  <2>5. QED
    BY <1>1, <1>2, <1>5, <2>2, <2>3, <2>4 DEF Values
<1>9. HeaderValues'
  BY <1>1, <1>2 DEF HeaderValues
<1>10. pc'[q] \in {"ended", pc[q]} /\ \A p \in Requests \ {q} : pc'[p] = pc[p]
  BY <1>2, <1>7 DEF Values
<1>11. QED
  BY <1>1, <1>8, <1>9, <1>10, RequestStep DEF poolVars

\* A job goes on that a worker has, or gets.
LEMMA JobStep ==
  ASSUME IInv, NEW q \in Requests, NEW k \in DOMAIN Rules[q],
         StartJob(q, k) \/ TakeValue(q, k) \/ FinishJob(q, k)
  PROVE  IInv'
<1> DEFINE it == <<q, k>>
<1>1. /\ UNCHANGED <<pc, rule, todo, late, answer, spare, header, sent, raced>>
      /\ cancelled' = cancelled \/ cancelled' = cancelled \union {q}
  BY DEF StartJob, Do, TakeValue, FinishJob, readVars, headerVars
<1>2. Values /\ HeaderValues /\ Queued /\ AtARule /\ NoJobYet
  BY DEF IInv
<1>3. it \in Jobs
  BY JobPairs
<1>4. /\ \/ slot' = slot
         \/ \E w \in Workers : slot' = [slot EXCEPT ![w] = it]
         \/ \E w \in Workers : slot' = [slot EXCEPT ![w] = NoJob]
      /\ \/ /\ status[it] = "accepted" /\ status' = [status EXCEPT ![it] = "running"]
            /\ \E v \in {"writing", "empty", "failed"} : val' = [val EXCEPT ![it] = v]
         \/ /\ val[it] = "writing" /\ status' = status
            /\ val' = [val EXCEPT ![it] = "done"]
         \/ /\ status[it] = "running" /\ status' = [status EXCEPT ![it] = "done"]
            /\ val' = val
  BY DEF StartJob, Do, TakeValue, FinishJob, Pool!Start, Pool!Finish, poolVars
<1>5. Values'
  <2>1. slot' \in [Workers -> Jobs \union {NoJob}]
    BY <1>2, <1>3, <1>4 DEF Values
  <2>2. status' \in [Jobs -> {"new", "accepted", "running", "done"}]
    BY <1>2, <1>3, <1>4 DEF Values
  <2>3. val' \in [Jobs -> {"none", "queued", "writing", "done", "empty", "failed"}]
    BY <1>2, <1>3, <1>4 DEF Values
  <2>4. QED
    BY <1>1, <1>2, <2>1, <2>2, <2>3 DEF Values
<1>6. HeaderValues'
  BY <1>1, <1>2 DEF HeaderValues
<1>7. Queued'
  BY <1>2, <1>3, <1>4 DEF Values, Queued
<1>8. AtARule'
  BY <1>1, <1>2 DEF AtARule, Rule
<1>9. \A j \in Jobs : status[j] = "new" => status'[j] = "new"
  <2>1. status[it] = "new" => status' = status
    BY <1>2, <1>3, <1>4 DEF Values, Queued
  <2>2. \A j \in Jobs \ {it} : status'[j] = status[j]
    BY <1>2, <1>4 DEF Values
  <2>3. QED
    BY <2>1, <2>2
<1>10. NoJobYet'
  BY <1>1, <1>2, <1>9, JobPairs DEF NoJobYet, Ahead
<1>11. QED
  BY <1>5, <1>6, <1>7, <1>8, <1>10 DEF IInv

LEMMA NextIInv == IInv /\ [Next]_vars => IInv'
<1> SUFFICES ASSUME IInv, [Next]_vars PROVE IInv'
  OBVIOUS
<1>1. ASSUME Next PROVE IInv'
  BY <1>1, BeginRuleStep, BuildRequestStep, AddJobStep, DoBodyStep, HandlerStep, ReadStep,
     JobStep DEF Next
<1>2. CASE UNCHANGED vars
  <2>1. UNCHANGED <<status, slot, pc, rule, todo, late, val, cancelled, answer,
                    spare, header, sent, raced>>
    BY <1>2 DEF vars, poolVars, readVars, headerVars
  <2>2. Values' /\ HeaderValues' /\ Queued'
    BY <2>1 DEF IInv, Values, HeaderValues, Queued
  <2>3. AtARule' /\ NoJobYet'
    BY <2>1 DEF IInv, AtARule, NoJobYet, Ahead, Rule
  <2>4. QED
    BY <2>2, <2>3 DEF IInv
<1>3. QED
  BY <1>1, <1>2

LEMMA Invariance == Spec => []IInv
  BY InitIInv, NextIInv, PTL DEF Spec

\* The state of every request, job, value and read is of its type, and a value is
\* queued exactly as long as the Dispatcher has accepted its job and no worker has
\* started it.
THEOREM TypeCorrect == Spec => []TypeOK
<1>1. IInv => TypeOK
  BY DEF IInv, Values, HeaderValues, Queued, TypeOK
<1>2. QED
  BY <1>1, Invariance, PTL

-----------------------------------------------------------------------------
(* The headers.                                                             *)

\* BeginRule of one request leaves the header of another where it is, or the job of
\* that one is raced.
LEMMA BeginRuleKeepsHeaders ==
  ASSUME IInv, HeaderKept, NEW q \in Requests, BeginRule(q)
  PROVE  HeaderKept'
<1> DEFINE r == Rules[q][rule[q] + 1]
<1>1. PICK h \in (IF Matching[q] = {} THEN {NoHeader} ELSE Matching[q]) :
          /\ header' = [header EXCEPT ![q] = h]
          /\ IF h # NoHeader /\ r.array # NoArray
             THEN /\ spare' = [spare EXCEPT ![r.array] = h]
                  /\ raced' = raced \union Exposed(q, r.array)
             ELSE spare' = spare /\ raced' = raced
  BY DEF BeginRule
<1>2. /\ rule[q] < Len(Rules[q])
      /\ rule' = [rule EXCEPT ![q] = @ + 1]
      /\ \/ pc' = [pc EXCEPT ![q] = "reading"]
         \/ pc' = [pc EXCEPT ![q] = "adding"]
  BY DEF BeginRule
<1>3. Values /\ HeaderValues /\ AtARule
  BY DEF IInv
<1>4. rule[q] \in Nat /\ rule'[q] = rule[q] + 1 /\ rule[q] + 1 \in DOMAIN Rules[q]
  <2>1. rule[q] \in Nat /\ rule'[q] = rule[q] + 1
    BY <1>2, <1>3 DEF Values
  <2>2. QED
    BY <1>2, <2>1, RuleIndices
<1>5. \A p \in Requests \ {q} : pc'[p] = pc[p] /\ rule'[p] = rule[p] /\ header'[p] = header[p]
  BY <1>1, <1>2, <1>3 DEF Values, HeaderValues
<1>6. ASSUME NEW p \in Requests \ {q}, pc'[p] = "reading", <<p, rule'[p]>> \notin raced'
      PROVE  ItsHeader(p, Forwarded(p)')
  <2>1. pc[p] = "reading" /\ rule[p] \in DOMAIN Rules[p] /\ <<p, rule[p]>> \notin raced
    BY <1>1, <1>5, <1>6, AtItsJob
  <2>2. ItsHeader(p, Forwarded(p))
    BY <2>1 DEF HeaderKept
  <2>3. Rule(p)' = Rule(p)
    BY <1>5 DEF Rule
  <2>4. CASE header[p] = NoHeader \/ Rule(p).array = NoArray
    <3>1. Forwarded(p)' = Forwarded(p)
      BY <1>5, <2>3, <2>4 DEF Forwarded
    <3>2. QED
      BY <2>2, <3>1
  <2>5. CASE header[p] # NoHeader /\ Rule(p).array # NoArray
    <3>1. h # NoHeader /\ r.array # NoArray => Rule(p).array # r.array
      BY <1>1, <1>5, <1>6, <2>1, <2>5 DEF Exposed
    <3>2. Rule(p).array \in Arrays
      BY <2>1, <2>5, ArraysKnown DEF Rule
    <3>3. spare'[Rule(p).array] = spare[Rule(p).array]
      BY <1>1, <1>3, <3>1, <3>2 DEF HeaderValues
    <3>4. Forwarded(p)' = Forwarded(p)
      BY <1>5, <2>3, <3>3 DEF Forwarded
    <3>5. QED
      BY <2>2, <3>4
  <2>6. QED
    BY <2>4, <2>5
<1>7. ItsHeader(q, Forwarded(q)')
  <2>1. header'[q] = h
    BY <1>1, <1>3 DEF HeaderValues
  <2>2. Rule(q)' = r
    BY <1>4 DEF Rule
  <2>3. r.array # NoArray /\ h # NoHeader => spare'[r.array] = h
    BY <1>1, <1>3, <1>4, ArraysKnown DEF HeaderValues
  <2>4. Forwarded(q)' = h
    BY <2>1, <2>2, <2>3 DEF Forwarded
  <2>5. ItsHeader(q, h)
    BY DEF ItsHeader
  <2>6. QED
    BY <2>4, <2>5
<1>8. QED
  BY <1>6, <1>7 DEF HeaderKept, ItsHeader

\* The other steps of a request or of its jobs leave the rules and the headers as
\* they are, and a rule that waits for its values goes on waiting.
OtherStep(q) ==
  \/ AddJob(q) \/ DoBody(q) \/ CallNext(q) \/ RefuseAtOnce(q) \/ NextEnds(q) \/ Refuse(q)
  \/ GetValue(q) \/ NoValue(q) \/ Timeout(q)
  \/ \E k \in DOMAIN Rules[q] : StartJob(q, k) \/ TakeValue(q, k) \/ FinishJob(q, k)

LEMMA OtherStepsKeepHeaders ==
  ASSUME Values, NEW q \in Requests, OtherStep(q)
  PROVE  /\ UNCHANGED <<rule, spare, header, sent, raced>>
         /\ \A p \in Requests : pc'[p] = "reading" <=> pc[p] = "reading"
<1>1. pc \in [Requests -> {"rules", "reading", "adding", "body", "next", "ended"}]
  BY DEF Values
<1>2. CASE AddJob(q)
  <2>1. UNCHANGED <<rule, spare, header, sent, raced>> /\ pc[q] = "adding"
        /\ (pc' = [pc EXCEPT ![q] = "body"] \/ pc' = [pc EXCEPT ![q] = "rules"])
    BY <1>2 DEF AddJob, headerVars
  <2>2. QED
    BY <1>1, <2>1
<1>3. CASE DoBody(q)
  <2>1. UNCHANGED <<rule, spare, header, sent, raced>> /\ pc[q] = "body" /\ pc' = [pc EXCEPT ![q] = "ended"]
    BY <1>3 DEF DoBody, headerVars
  <2>2. QED
    BY <1>1, <2>1
<1>4. CASE CallNext(q)
  <2>1. UNCHANGED <<rule, spare, header, sent, raced>> /\ pc[q] = "rules" /\ pc' = [pc EXCEPT ![q] = "next"]
    BY <1>4 DEF CallNext, RulesDone, headerVars
  <2>2. QED
    BY <1>1, <2>1
<1>9. CASE RefuseAtOnce(q)
  <2>1. UNCHANGED <<rule, spare, header, sent, raced>> /\ pc[q] = "rules"
        /\ pc' = [pc EXCEPT ![q] = "ended"]
    BY <1>9 DEF RefuseAtOnce, RulesDone, headerVars
  <2>2. QED
    BY <1>1, <2>1
<1>5. CASE NextEnds(q) \/ Refuse(q)
  <2>1. UNCHANGED <<rule, spare, header, sent, raced>> /\ pc[q] = "next"
        /\ (pc' = pc \/ pc' = [pc EXCEPT ![q] = "ended"])
    BY <1>5 DEF NextEnds, Refuse, headerVars
  <2>2. QED
    BY <1>1, <2>1
<1>6. CASE GetValue(q) \/ NoValue(q) \/ Timeout(q)
  <2>1. UNCHANGED <<rule, spare, header, sent, raced>> /\ (UNCHANGED pc \/ Failed(q))
    BY <1>6 DEF GetValue, NoValue, Timeout, headerVars
  <2>2. UNCHANGED pc \/ (pc[q] = "next" /\ pc' = [pc EXCEPT ![q] = "ended"])
    BY <2>1 DEF Failed
  <2>3. QED
    BY <1>1, <2>1, <2>2
<1>7. CASE \E k \in DOMAIN Rules[q] : StartJob(q, k) \/ TakeValue(q, k) \/ FinishJob(q, k)
  <2>1. UNCHANGED <<rule, spare, header, sent, raced, pc>>
    BY <1>7 DEF StartJob, Do, TakeValue, FinishJob, headerVars
  <2>2. QED
    BY <2>1
<1>8. QED
  BY <1>2, <1>3, <1>4, <1>5, <1>6, <1>7, <1>9 DEF OtherStep

\* Each step is one of three kinds.
LEMMA StepKinds ==
  ASSUME [Next]_vars
  PROVE  \/ \E q \in Requests : BeginRule(q)
         \/ \E q \in Requests : BuildRequest(q)
         \/ \E q \in Requests : OtherStep(q)
         \/ UNCHANGED <<rule, spare, header, sent, raced, pc>>
<1>1. CASE UNCHANGED vars
  BY <1>1 DEF vars, headerVars
<1>2. CASE Next
  BY <1>2 DEF Next, OtherStep
<1>3. QED
  BY <1>1, <1>2

LEMMA NextHeaderKept ==
  ASSUME IInv, HeaderKept, [Next]_vars
  PROVE  HeaderKept'
<1>1. CASE \E q \in Requests : BeginRule(q)
  BY <1>1, BeginRuleKeepsHeaders
<1>2. CASE UNCHANGED <<rule, spare, header, raced>> /\ \A p \in Requests : pc'[p] = "reading" => pc[p] = "reading"
  <2>1. ASSUME NEW p \in Requests PROVE Forwarded(p)' = Forwarded(p)
    BY <1>2 DEF Forwarded, Rule
  <2>2. QED
    BY <1>2, <2>1 DEF HeaderKept, ItsHeader
<1>3. CASE \E q \in Requests : BuildRequest(q)
  <2>1. PICK q \in Requests : BuildRequest(q)
    BY <1>3
  <2>2. UNCHANGED <<rule, spare, header, raced>> /\ pc' = [pc EXCEPT ![q] = "adding"]
    BY <2>1 DEF BuildRequest
  <2>3. pc \in [Requests -> {"rules", "reading", "adding", "body", "next", "ended"}]
    BY DEF IInv, Values
  <2>4. \A p \in Requests : pc'[p] = "reading" => pc[p] = "reading"
    BY <2>2, <2>3
  <2>5. QED
    BY <1>2, <2>2, <2>4
<1>4. CASE \E q \in Requests : OtherStep(q)
  BY <1>2, <1>4, OtherStepsKeepHeaders DEF IInv
<1>5. CASE UNCHANGED <<rule, spare, header, sent, raced, pc>>
  BY <1>2, <1>5
<1>6. QED
  BY <1>1, <1>3, <1>4, <1>5, StepKinds

LEMMA NextSentIsItsHeader ==
  ASSUME IInv, HeaderKept, SentIsItsHeader, [Next]_vars
  PROVE  SentIsItsHeader'
<1>1. Values /\ HeaderValues /\ AtARule
  BY DEF IInv
<1>2. pc \in [Requests -> {"rules", "reading", "adding", "body", "next", "ended"}]
  BY <1>1 DEF Values
<1>3. CASE \E q \in Requests : BeginRule(q)
  <2>1. PICK q \in Requests : BeginRule(q)
    BY <1>3
  <2>2. /\ pc[q] = "rules" /\ rule' = [rule EXCEPT ![q] = @ + 1] /\ sent' = sent
        /\ raced \subseteq raced'
        /\ \/ pc' = [pc EXCEPT ![q] = "reading"]
           \/ /\ Rules[q][rule[q] + 1].type # "request"
              /\ pc' = [pc EXCEPT ![q] = "adding"]
    BY <2>1 DEF BeginRule
  <2>3. rule[q] \in Nat /\ rule'[q] = rule[q] + 1
    BY <1>1, <2>2 DEF Values
  <2>4. \A p \in Requests \ {q} : pc'[p] = pc[p] /\ rule'[p] = rule[p]
    BY <1>1, <2>2 DEF Values
  <2>5. pc'[q] = "reading" \/ Rules[q][rule'[q]].type # "request"
    BY <1>2, <2>2, <2>3
  <2>6. ASSUME NEW k \in DOMAIN Rules[q], Rules[q][k].type = "request",
               k < rule'[q] \/ (k = rule'[q] /\ pc'[q] # "reading"), <<q, k>> \notin raced'
        PROVE  ItsHeader(q, sent[<<q, k>>])
    <3>1. k \in Nat
      BY RuleIndices
    <3>2. k < rule[q] + 1
      BY <2>3, <2>5, <2>6
    <3>3. k < rule[q] \/ (k = rule[q] /\ pc[q] # "reading")
      BY <2>2, <2>3, <3>1, <3>2
    <3>4. QED
      BY <2>2, <2>6, <3>3 DEF SentIsItsHeader
  <2>7. QED
    BY <2>2, <2>4, <2>6 DEF SentIsItsHeader, ItsHeader
<1>4. CASE \E q \in Requests : BuildRequest(q)
  <2>1. PICK q \in Requests : BuildRequest(q)
    BY <1>4
  <2>2. /\ pc[q] = "reading" /\ pc' = [pc EXCEPT ![q] = "adding"] /\ UNCHANGED <<rule, raced>>
        /\ sent' = [sent EXCEPT ![<<q, rule[q]>>] = Forwarded(q)]
    BY <2>1 DEF BuildRequest
  <2>3. <<q, rule[q]>> \in Jobs /\ rule[q] \in Nat
    BY <1>1, <2>2, AtItsJob DEF Values
  <2>4. <<q, rule[q]>> \notin raced => ItsHeader(q, Forwarded(q))
    BY <2>2 DEF HeaderKept
  <2>5. sent'[<<q, rule[q]>>] = Forwarded(q)
    BY <1>1, <2>2, <2>3 DEF HeaderValues
  <2>6. \A j \in Jobs : j # <<q, rule[q]>> => sent'[j] = sent[j]
    BY <1>1, <2>2 DEF HeaderValues
  <2>7. \A p \in Requests \ {q} : pc'[p] = pc[p]
    BY <1>2, <2>2
  <2>8. ASSUME NEW p \in Requests, NEW k \in DOMAIN Rules[p], Rules[p][k].type = "request",
               k < rule[p] \/ (k = rule[p] /\ pc'[p] # "reading"), <<p, k>> \notin raced
        PROVE  ItsHeader(p, sent'[<<p, k>>])
    <3>1. CASE p = q /\ k = rule[q]
      BY <2>4, <2>5, <2>8, <3>1
    <3>2. CASE ~(p = q /\ k = rule[q])
      <4>1. sent'[<<p, k>>] = sent[<<p, k>>]
        BY <2>6, <3>2, JobPairs
      <4>2. k < rule[p] \/ (k = rule[p] /\ pc[p] # "reading")
        BY <2>7, <2>8, <3>2
      <4>3. QED
        BY <2>8, <4>1, <4>2 DEF SentIsItsHeader
    <3>3. QED
      BY <3>1, <3>2
  <2>9. QED
    BY <2>2, <2>8 DEF SentIsItsHeader, ItsHeader
<1>5. CASE UNCHANGED <<rule, sent, raced>> /\ \A p \in Requests : pc[p] = "reading" => pc'[p] = "reading"
  BY <1>5 DEF SentIsItsHeader, ItsHeader
<1>6. CASE \E q \in Requests : OtherStep(q)
  BY <1>1, <1>5, <1>6, OtherStepsKeepHeaders
<1>7. CASE UNCHANGED <<rule, spare, header, sent, raced, pc>>
  BY <1>5, <1>7
<1>8. QED
  BY <1>3, <1>4, <1>6, <1>7, StepKinds

\* A job sends a matching header of its own request, however long its rule has waited
\* and however many requests share the array of that rule, as long as none of them
\* appends to it between the match and the http.Request.
THEOREM ForwardsUnlessRaced == Spec => []ForwardsOneOfItsHeaders
<1> DEFINE HInv == HeaderKept /\ SentIsItsHeader
<1>1. Init => HInv
  <2>1. Init => HeaderKept
    BY DEF Init, HeaderKept
  <2>2. ASSUME Init, NEW q \in Requests, NEW k \in DOMAIN Rules[q]
        PROVE  ~(k < rule[q] \/ k = rule[q])
    BY <2>2, RuleIndices DEF Init
  <2>3. Init => SentIsItsHeader
    BY <2>2 DEF SentIsItsHeader
  <2>4. QED
    BY <2>1, <2>3
<1>2. IInv /\ HInv /\ [Next]_vars => HInv'
  BY NextHeaderKept, NextSentIsItsHeader
<1>3. IInv /\ HInv => ForwardsOneOfItsHeaders
  <2>1. ASSUME IInv, HInv, NEW q \in Requests, NEW k \in DOMAIN Rules[q],
               status[<<q, k>>] # "new", Rules[q][k].type = "request",
               <<q, k>> \notin raced
        PROVE  ItsHeader(q, sent[<<q, k>>])
    <3>1. ~Ahead(q, k)
      BY <2>1 DEF IInv, NoJobYet
    <3>2. k \in Nat /\ rule[q] \in Nat
      BY <2>1, RuleIndices DEF IInv, Values
    <3>3. k < rule[q] \/ (k = rule[q] /\ pc[q] # "reading")
      BY <3>1, <3>2 DEF Ahead
    <3>4. QED
      BY <2>1, <3>3 DEF SentIsItsHeader
  <2>2. QED
    BY <2>1 DEF ForwardsOneOfItsHeaders, ItsHeader
<1>4. QED
  BY <1>1, <1>2, <1>3, Invariance, PTL DEF Spec

-----------------------------------------------------------------------------
(* The use of the workers.                                                  *)

LEMMA ServiceStep == IInv /\ [Next]_vars => [Pool!Next]_(Pool!vars)
<1> SUFFICES ASSUME IInv, [Next]_vars PROVE Pool!Next \/ UNCHANGED <<status, slot>>
  BY DEF Pool!vars
<1>1. CASE UNCHANGED vars
  BY <1>1 DEF vars, poolVars
<1>2. ASSUME NEW q \in Requests, BeginRule(q) \/ BuildRequest(q) \/ DoBody(q)
      PROVE  UNCHANGED <<status, slot>>
  BY <1>2 DEF BeginRule, BuildRequest, DoBody, poolVars
<1>3. ASSUME NEW q \in Requests, CallNext(q) \/ RefuseAtOnce(q) \/ NextEnds(q) \/ Refuse(q)
      PROVE  UNCHANGED <<status, slot>>
  BY <1>3 DEF CallNext, RefuseAtOnce, NextEnds, Refuse, poolVars
<1>4. ASSUME NEW q \in Requests, GetValue(q) \/ NoValue(q) \/ Timeout(q)
      PROVE  UNCHANGED <<status, slot>>
  BY <1>4 DEF GetValue, NoValue, Timeout, poolVars
<1>5. ASSUME NEW q \in Requests, AddJob(q)
      PROVE  Pool!Next \/ UNCHANGED <<status, slot>>
  <2>1. <<q, rule[q]>> \in Jobs
    <3>1. pc[q] \in {"reading", "adding", "body"}
      BY <1>5 DEF AddJob
    <3>2. QED
      BY <3>1, AtItsJob
  <2>2. Pool!Accept(<<q, rule[q]>>) \/ UNCHANGED <<status, slot>>
    BY <1>5 DEF AddJob, poolVars
  <2>3. QED
    BY <2>1, <2>2 DEF Pool!Next
<1>6. ASSUME NEW q \in Requests, NEW k \in DOMAIN Rules[q],
             StartJob(q, k) \/ TakeValue(q, k) \/ FinishJob(q, k)
      PROVE  Pool!Next \/ UNCHANGED <<status, slot>>
  <2>1. \/ \E w \in Workers : Pool!Start(<<q, k>>, w) \/ Pool!Finish(<<q, k>>, w)
        \/ UNCHANGED <<status, slot>>
    BY <1>6 DEF StartJob, Do, TakeValue, FinishJob, poolVars
  <2>2. QED
    BY <2>1, JobPairs DEF Pool!Next
<1>7. QED
  BY <1>1, <1>2, <1>3, <1>4, <1>5, <1>6 DEF Next

\* The guard of Pool!Accept, a condition that Dispatcher.Add does not test.
AddsNewJob == \A q \in Requests : pc[q] = "adding" => status[<<q, rule[q]>>] = "new"

\* The rules of all requests together use the workers as JobService allows, in no
\* other way, and give the Dispatcher one job for each rule at most.
THEOREM UsesTheService == Spec => Pool!Spec /\ []AddsNewJob
<1>1. Init => Pool!Init
  BY DEF Init
<1>2. IInv => AddsNewJob
  BY AtItsJob DEF AddsNewJob
<1>3. QED
  BY <1>1, <1>2, Invariance, ServiceStep, PTL DEF Spec, Pool!Spec

-----------------------------------------------------------------------------
(* Where requests and jobs stand still without a timeout: the safety side   *)
(* of ReadsEnd and WorkersComeBack. The guards of the actions whose         *)
(* fairness is assumed are written out, for ENABLED is beyond the provers.  *)

RequestCanMove(q) ==
  \/ pc[q] \in {"rules", "adding"}
  \/ pc[q] = "body" /\ Rule(q).type = "request"
  \/ pc[q] \in {"reading", "next"} /\ todo[q] = <<>>
  \/ \E k \in 0..Len(Rules[q]) :
       /\ Reading(q, k)
       /\ k # 0 => val[<<q, k>>] \in {"done", "empty"}

JobCanMove(q, k) ==
  \/ status[<<q, k>>] = "accepted" /\ \E w \in Workers : slot[w] = NoJob
  \/ val[<<q, k>>] = "writing" /\ (Reading(q, k) \/ k \in late[q])
  \/ status[<<q, k>>] = "running" /\ val[<<q, k>>] # "writing"

SomeoneCanMove ==
  \E q \in Requests : RequestCanMove(q) \/ \E k \in DOMAIN Rules[q] : JobCanMove(q, k)

AllWorkersWrite == \A w \in Workers : slot[w] # NoJob /\ val[slot[w]] = "writing"

\* A request has ended, or waits for a value that is blocked, or its rule answers with
\* a job that writes its value to nobody. A job that the Dispatcher has is done, in
\* the write of a value that nobody reads, or waits for a worker while all of them
\* are in such a write.
StandsStillOnlySo ==
  ~SomeoneCanMove =>
    \A q \in Requests :
      /\ \/ pc[q] = "ended"
         \/ pc[q] = "body" /\ Rule(q).type # "request"
         \/ \E k \in DOMAIN Rules[q] : Reading(q, k) /\ BlockedRead(q, k)
      /\ \A k \in DOMAIN Rules[q] :
           \/ status[<<q, k>>] \in {"new", "done"}
           \/ status[<<q, k>>] = "running" /\ Unread(q, k)
           \/ status[<<q, k>>] = "accepted" /\ AllWorkersWrite

\* What the Dispatcher promises: a running job has a worker, and a worker that is not
\* free has a running job.
OnWorkers ==
  /\ status \in [Jobs -> {"new", "accepted", "running", "done"}]
  /\ slot \in [Workers -> Jobs \union {NoJob}]
  /\ \A j \in Jobs : status[j] = "running" => \E w \in Workers : slot[w] = j
  /\ \A w \in Workers : slot[w] # NoJob => status[slot[w]] = "running"
  /\ \A v, w \in Workers : slot[v] = slot[w] /\ slot[v] # NoJob => v = w

LEMMA WorkersInvariance == Pool!Spec => []OnWorkers
<1> USE DEF OnWorkers
<1>1. Pool!Init => OnWorkers
  BY PipelineAssumption DEF Pool!Init
<1>2. ASSUME OnWorkers, [Pool!Next]_(Pool!vars) PROVE OnWorkers'
  <2>1. NoJob \notin Jobs
    BY PipelineAssumption
  <2>2. ASSUME NEW j \in Jobs, Pool!Accept(j) PROVE OnWorkers'
    BY <1>2, <2>2 DEF Pool!Accept
  <2>3. ASSUME NEW j \in Jobs, NEW w \in Workers, Pool!Start(j, w) PROVE OnWorkers'
    <3>1. /\ status[j] = "accepted" /\ slot[w] = NoJob
          /\ status' = [status EXCEPT ![j] = "running"] /\ slot' = [slot EXCEPT ![w] = j]
      BY <2>3 DEF Pool!Start
    <3>2. \A v \in Workers : slot[v] # j
      BY <1>2, <2>1, <3>1
    <3>3. ASSUME NEW i \in Jobs, status'[i] = "running" PROVE \E v \in Workers : slot'[v] = i
      <4>1. CASE i = j
        BY <1>2, <3>1, <4>1
      <4>2. CASE i # j
        <5>1. PICK v \in Workers : slot[v] = i
          BY <1>2, <3>1, <3>3, <4>2
        <5>2. v # w /\ slot'[v] = i
          BY <1>2, <2>1, <3>1, <5>1
        <5>3. QED
          BY <5>2
      <4>3. QED
        BY <4>1, <4>2
    <3>4. QED
      BY <1>2, <2>1, <3>1, <3>2, <3>3
  <2>4. ASSUME NEW j \in Jobs, NEW w \in Workers, Pool!Finish(j, w) PROVE OnWorkers'
    BY <1>2, <2>1, <2>4 DEF Pool!Finish
  <2>5. CASE UNCHANGED Pool!vars
    BY <1>2, <2>5 DEF Pool!vars
  <2>6. QED
    BY <1>2, <2>2, <2>3, <2>4, <2>5 DEF Pool!Next
<1>3. QED
  BY <1>1, <1>2, PTL DEF Pool!Spec

\* A value that no job fills yet is one of a rule that the request has not come to, or
\* not done with.
NoneIsAhead ==
  \A q \in Requests : \A k \in DOMAIN Rules[q] : val[<<q, k>>] = "none" => Ahead(q, k)

LEMMA NoneStep == IInv /\ NoneIsAhead /\ [Next]_vars => NoneIsAhead'
<1> SUFFICES ASSUME IInv, NoneIsAhead, [Next]_vars PROVE NoneIsAhead'
  OBVIOUS
<1>0. Values /\ AtARule
  BY DEF IInv
<1>1. ASSUME NEW q \in Requests, BeginRule(q) PROVE NoneIsAhead'
  <2>1. /\ pc[q] = "rules" /\ rule' = [rule EXCEPT ![q] = rule[q] + 1] /\ val' = val
        /\ \/ pc' = [pc EXCEPT ![q] = "reading"]
           \/ pc' = [pc EXCEPT ![q] = "adding"]
    BY <1>1 DEF BeginRule
  <2>2. /\ pc'[q] \in {"reading", "adding"} /\ rule'[q] = rule[q] + 1 /\ rule[q] \in Nat
        /\ \A p \in Requests \ {q} : pc'[p] = pc[p] /\ rule'[p] = rule[p]
    BY <1>0, <2>1 DEF Values
  <2>3. ASSUME NEW p \in Requests, NEW k \in DOMAIN Rules[p], Ahead(p, k) PROVE Ahead(p, k)'
    <3>1. CASE p # q
      BY <2>2, <2>3, <3>1 DEF Ahead
    <3>2. CASE p = q
      <4>1. k \in Nat /\ k > rule[q]
        BY <2>1, <2>3, <3>2, RuleIndices DEF Ahead
      <4>2. k > rule[q] + 1 \/ k = rule[q] + 1
        BY <2>2, <4>1
      <4>3. QED
        BY <2>2, <3>2, <4>2 DEF Ahead
    <3>3. QED
      BY <3>1, <3>2
  <2>4. QED
    BY <2>1, <2>3 DEF NoneIsAhead
<1>2. ASSUME NEW q \in Requests, AddJob(q) \/ DoBody(q) PROVE NoneIsAhead'
  <2>1. /\ rule' = rule /\ pc[q] \in {"adding", "body"}
        /\ \/ val' = val /\ pc' = [pc EXCEPT ![q] = "body"]
           \/ /\ \E v \in {"queued", "empty", "failed"} : val' = [val EXCEPT ![<<q, rule[q]>>] = v]
              /\ \E c \in {"rules", "ended"} : pc' = [pc EXCEPT ![q] = c]
    BY <1>2 DEF AddJob, DoBody
  <2>2. \A p \in Requests \ {q} : pc'[p] = pc[p]
    BY <1>0, <2>1 DEF Values
  <2>3. <<q, rule[q]>> \in Jobs
    BY <2>1, AtItsJob
  <2>4. ASSUME NEW p \in Requests, NEW k \in DOMAIN Rules[p], val'[<<p, k>>] = "none"
        PROVE  Ahead(p, k)'
    <3>1. val[<<p, k>>] = "none"
      BY <1>0, <2>1, <2>3, <2>4, JobPairs DEF Values
    <3>2. Ahead(p, k)
      BY <3>1 DEF NoneIsAhead
    <3>3. CASE p # q
      BY <2>1, <2>2, <3>2, <3>3 DEF Ahead
    <3>4. CASE p = q /\ pc' = [pc EXCEPT ![q] = "body"]
      <4>1. pc'[q] = "body"
        BY <1>0, <3>4 DEF Values
      <4>2. QED
        BY <2>1, <3>2, <3>4, <4>1 DEF Ahead
    <3>5. CASE p = q /\ k # rule[q]
      BY <2>1, <3>2, <3>5 DEF Ahead
    <3>6. CASE p = q /\ k = rule[q] /\ pc' # [pc EXCEPT ![q] = "body"]
      BY <1>0, <2>1, <2>3, <2>4, <3>6 DEF Values
    <3>7. QED
      BY <3>3, <3>4, <3>5, <3>6
  <2>5. QED
    BY <2>4 DEF NoneIsAhead
<1>3. ASSUME NEW q \in Requests,
             \/ BuildRequest(q) \/ CallNext(q) \/ RefuseAtOnce(q) \/ NextEnds(q) \/ Refuse(q)
             \/ GetValue(q) \/ NoValue(q) \/ Timeout(q)
      PROVE  NoneIsAhead'
  <2>1. /\ val' = val /\ rule' = rule
        /\ \/ pc' = pc
           \/ pc[q] = "reading" /\ pc' = [pc EXCEPT ![q] = "adding"]
           \/ pc[q] \in {"rules", "next"} /\ \E c \in {"next", "ended"} : pc' = [pc EXCEPT ![q] = c]
    BY <1>3 DEF BuildRequest, CallNext, RulesDone, RefuseAtOnce, NextEnds, Refuse, GetValue,
                NoValue, Timeout, Failed
  <2>2. /\ \A p \in Requests \ {q} : pc'[p] = pc[p]
        /\ pc[q] \in {"reading", "adding", "body"} => pc'[q] \in {"reading", "adding", "body"}
    BY <1>0, <2>1 DEF Values
  <2>3. \A p \in Requests : \A k \in DOMAIN Rules[p] : Ahead(p, k) => Ahead(p, k)'
    BY <2>1, <2>2 DEF Ahead
  <2>4. QED
    BY <2>1, <2>3 DEF NoneIsAhead
<1>4. ASSUME NEW q \in Requests, NEW k \in DOMAIN Rules[q],
             StartJob(q, k) \/ TakeValue(q, k) \/ FinishJob(q, k)
      PROVE  NoneIsAhead'
  <2>1. /\ UNCHANGED <<pc, rule>>
        /\ \/ val' = val
           \/ \E v \in {"writing", "empty", "failed", "done"} : val' = [val EXCEPT ![<<q, k>>] = v]
    BY <1>4 DEF StartJob, Do, TakeValue, FinishJob
  <2>2. \A j \in Jobs : val'[j] = "none" => val[j] = "none"
    BY <1>0, <2>1, JobPairs DEF Values
  <2>3. QED
    BY <2>1, <2>2, JobPairs DEF NoneIsAhead, Ahead
<1>5. CASE UNCHANGED vars
  BY <1>5 DEF vars, NoneIsAhead, Ahead
<1>6. QED
  BY <1>1, <1>2, <1>3, <1>4, <1>5 DEF Next

LEMMA GreatestIndex ==
  ASSUME NEW m \in Nat, NEW T \in SUBSET (1..m), T # {}
  PROVE  Max(T) \in T
<1> DEFINE Below == {p \in Nat \X Nat : p[1] < p[2]}
           Gap == {m - k : k \in T}
<1>1. IsWellFoundedOn(Below, Nat)
  BY NatLessThanWellFounded DEF OpToRel
<1>2. Gap \in SUBSET Nat /\ Gap # {}
  <2>1. \A k \in T : k \in Nat /\ k <= m
    OBVIOUS
  <2>2. \A k \in T : m - k \in Nat
    BY <2>1
  <2>3. QED
    BY <2>2
<1>3. PICK g \in Gap : \A h \in Gap : <<h, g>> \notin Below
  BY <1>1, <1>2, WFMin
<1>4. PICK k \in T : g = m - k
  BY <1>3
<1>5. \A l \in T : ~(m - l < g)
  BY <1>2, <1>3
<1>6. \A l \in T : k >= l
  BY <1>4, <1>5
<1>7. QED
  BY <1>6 DEF Max

\* A value that is looked up comes from a rule that the request has begun, or from none.
LEMMA ProviderHasBegun ==
  ASSUME IInv, NEW q \in Requests, NEW name
  PROVE  Provider(q, name) \in 0..rule[q] /\ rule[q] \in Nat /\ rule[q] <= Len(Rules[q])
<1> DEFINE found == {k \in 1..rule[q] : Rules[q][k].out = name}
<1>1. rule[q] \in Nat /\ rule[q] <= Len(Rules[q])
  BY DEF IInv, Values, AtARule
<1>2. found # {} => Max(found) \in found
  BY <1>1, GreatestIndex
<1>3. Provider(q, name) = IF found = {} THEN 0 ELSE Max(found)
  BY DEF Provider
<1>4. QED
  BY <1>1, <1>2, <1>3

\* A read that the next steps do not end, without a timeout, is blocked, for one of
\* three reasons; and so is a request that stands still. A worker that does not come
\* back is in the write of a value that nobody reads.
THEOREM ReadsWaitOnlySo == Spec => []StandsStillOnlySo
<1>1. Init => NoneIsAhead
  <2>1. ASSUME Init, NEW q \in Requests, NEW k \in DOMAIN Rules[q] PROVE Ahead(q, k)
    BY <2>1, RuleIndices DEF Init, Ahead
  <2>2. QED
    BY <2>1 DEF NoneIsAhead
<1>2. ASSUME IInv, OnWorkers, NoneIsAhead, ~SomeoneCanMove, NEW q \in Requests
      PROVE  /\ \/ pc[q] = "ended"
                \/ pc[q] = "body" /\ Rule(q).type # "request"
                \/ \E k \in DOMAIN Rules[q] : Reading(q, k) /\ BlockedRead(q, k)
             /\ \A k \in DOMAIN Rules[q] :
                  \/ status[<<q, k>>] \in {"new", "done"}
                  \/ status[<<q, k>>] = "running" /\ Unread(q, k)
                  \/ status[<<q, k>>] = "accepted" /\ AllWorkersWrite
  <2>0. /\ ~RequestCanMove(q)
        /\ \A p \in Requests : \A k \in DOMAIN Rules[p] : ~JobCanMove(p, k)
    BY <1>2 DEF SomeoneCanMove
  <2>1. ASSUME NEW j \in Jobs, status[j] = "accepted" PROVE AllWorkersWrite
    <3>1. \A w \in Workers : slot[w] # NoJob
      BY <2>0, <2>1, JobPairs DEF JobCanMove
    <3>2. ASSUME NEW w \in Workers PROVE val[slot[w]] = "writing"
      <4>1. slot[w] \in Jobs /\ status[slot[w]] = "running"
        BY <1>2, <3>1 DEF OnWorkers
      <4>2. QED
        BY <2>0, <4>1, JobPairs DEF JobCanMove
    <3>3. QED
      BY <3>1, <3>2 DEF AllWorkersWrite
  <2>2. ASSUME NEW k \in DOMAIN Rules[q]
        PROVE  \/ status[<<q, k>>] \in {"new", "done"}
               \/ status[<<q, k>>] = "running" /\ Unread(q, k)
               \/ status[<<q, k>>] = "accepted" /\ AllWorkersWrite
    <3>1. <<q, k>> \in Jobs /\ status[<<q, k>>] \in {"new", "accepted", "running", "done"}
      BY <1>2, JobPairs DEF OnWorkers
    <3>2. ~JobCanMove(q, k)
      BY <2>0
    <3>3. status[<<q, k>>] = "running" => Unread(q, k)
      BY <3>2 DEF JobCanMove, Unread
    <3>4. QED
      BY <2>1, <3>1, <3>3
  <2>3. ASSUME pc[q] \in {"reading", "next"}
        PROVE  \E k \in DOMAIN Rules[q] : Reading(q, k) /\ BlockedRead(q, k)
    <3> DEFINE k == Provider(q, Head(todo[q]))
    <3>1. todo[q] # <<>> /\ Reading(q, k)
      BY <2>0, <2>3 DEF RequestCanMove, Reading
    <3>2. k \in 0..rule[q] /\ rule[q] \in Nat /\ rule[q] <= Len(Rules[q])
      BY <1>2, ProviderHasBegun
    <3>3. Len(Rules[q]) \in Nat /\ DOMAIN Rules[q] = 1..Len(Rules[q])
      BY RuleIndices
    <3> HIDE DEF k
    <3>4. k \in 0..Len(Rules[q])
      BY <3>2, <3>3
    <3>5. k # 0 /\ val[<<q, k>>] \notin {"done", "empty"}
      BY <2>0, <3>1, <3>4 DEF RequestCanMove
    <3>6. k \in DOMAIN Rules[q] /\ k <= rule[q] /\ <<q, k>> \in Jobs
      BY <3>2, <3>3, <3>4, <3>5, JobPairs
    <3>7. val[<<q, k>>] # "writing"
      BY <2>0, <3>1, <3>6 DEF JobCanMove
    <3>8. val[<<q, k>>] \in {"none", "queued", "failed"}
      BY <1>2, <3>5, <3>6, <3>7 DEF IInv, Values
    <3>9. CASE val[<<q, k>>] = "none"
      <4>1. Ahead(q, k)
        BY <1>2, <3>6, <3>9 DEF NoneIsAhead
      <4>2. k = rule[q] /\ pc[q] \in {"reading", "adding", "body"}
        BY <3>2, <3>6, <4>1 DEF Ahead
      <4>3. BlockedRead(q, k)
        BY <2>3, <4>2 DEF BlockedRead
      <4>4. QED
        BY <3>1, <3>6, <4>3
    <3>10. CASE val[<<q, k>>] = "queued"
      <4>1. status[<<q, k>>] = "accepted"
        BY <1>2, <3>6, <3>10 DEF IInv, Queued
      <4>2. AllWorkersWrite
        BY <2>1, <3>6, <4>1
      <4>3. BlockedRead(q, k)
        BY <3>10, <4>2 DEF BlockedRead, AllWorkersWrite
      <4>4. QED
        BY <3>1, <3>6, <4>3
    <3>11. CASE val[<<q, k>>] = "failed"
      BY <3>1, <3>6, <3>11 DEF BlockedRead
    <3>12. QED
      BY <3>8, <3>9, <3>10, <3>11
  <2>4. pc[q] \in {"reading", "body", "next", "ended"}
    BY <1>2, <2>0 DEF IInv, Values, RequestCanMove
  <2>5. pc[q] = "body" => Rule(q).type # "request"
    BY <2>0 DEF RequestCanMove
  <2>6. QED
    BY <2>2, <2>3, <2>4, <2>5
<1>3. IInv /\ OnWorkers /\ NoneIsAhead => StandsStillOnlySo
  BY <1>2 DEF StandsStillOnlySo
<1>4. QED
  BY <1>1, <1>3, NoneStep, Invariance, UsesTheService, WorkersInvariance, PTL DEF Spec

-----------------------------------------------------------------------------
(* A measure: the requests and their jobs come to rest after finitely many  *)
(* steps, in whatever order they are taken.                                 *)

\* How many steps the things of S have before them, r[x] for each x: the number of pairs
\* of a thing and a step. A sum over a set that may be counted without recursion.
StepCount(S, r) == Cardinality({p \in S \X Nat : 1 <= p[2] /\ p[2] <= r[p[1]]})

LEMMA StepsAreFinite ==
  ASSUME NEW S, IsFiniteSet(S), NEW r \in [S -> Nat]
  PROVE  /\ IsFiniteSet({p \in S \X Nat : 1 <= p[2] /\ p[2] <= r[p[1]]})
         /\ StepCount(S, r) \in Nat
<1> DEFINE Of == [x \in S |-> {x} \X (1..r[x])]
           All == {{x} \X (1..r[x]) : x \in S}
           R == {p \in S \X Nat : 1 <= p[2] /\ p[2] <= r[p[1]]}
<1>1. ASSUME NEW x \in S PROVE IsFiniteSet({x} \X (1..r[x]))
  <2>1. 1 \in Int /\ r[x] \in Int
    OBVIOUS
  <2>2. IsFiniteSet(1..r[x])
    BY <2>1, FS_Interval
  <2>3. IsFiniteSet({x})
    BY FS_Singleton
  <2>4. QED
    BY <2>2, <2>3, FS_Product
<1>2. Of \in Surjection(S, All)
  BY DEF Surjection
<1>3. IsFiniteSet(All)
  BY <1>2, FS_Surjection
<1>4. IsFiniteSet(UNION All)
  <2>1. \A T \in All : IsFiniteSet(T)
    BY <1>1
  <2>2. QED
    BY <1>3, <2>1, FS_UNION
<1>5. R \subseteq UNION All
  <2>1. ASSUME NEW p \in R PROVE p \in UNION All
    <3>1. p[1] \in S /\ p[2] \in Nat /\ 1 <= p[2] /\ p[2] <= r[p[1]] /\ p = <<p[1], p[2]>>
      OBVIOUS
    <3>2. p[2] \in 1..r[p[1]]
      BY <3>1
    <3>3. p \in {p[1]} \X (1..r[p[1]])
      BY <3>1, <3>2
    <3>4. QED
      BY <3>1, <3>3
  <2>2. QED
    BY <2>1
<1>6. IsFiniteSet(R)
  BY <1>4, <1>5, FS_Subset
<1>7. Cardinality(R) \in Nat
  BY <1>6, FS_CardinalityType
<1>8. QED
  BY <1>6, <1>7 DEF StepCount

LEMMA StepsFall ==
  ASSUME NEW S, IsFiniteSet(S), NEW r \in [S -> Nat], NEW q \in [S -> Nat],
         \A x \in S : q[x] <= r[x]
  PROVE  /\ StepCount(S, q) <= StepCount(S, r)
         /\ (\E x \in S : q[x] < r[x]) => StepCount(S, q) <= StepCount(S, r) - 1
<1> DEFINE R == {p \in S \X Nat : 1 <= p[2] /\ p[2] <= r[p[1]]}
           Q == {p \in S \X Nat : 1 <= p[2] /\ p[2] <= q[p[1]]}
<1>1. IsFiniteSet(R) /\ Cardinality(R) \in Nat /\ StepCount(S, r) = Cardinality(R)
  BY StepsAreFinite DEF StepCount
<1>2. Q \subseteq R
  <2>1. ASSUME NEW p \in Q PROVE p \in R
    <3>1. p \in S \X Nat /\ p[1] \in S /\ p[2] \in Nat /\ 1 <= p[2] /\ p[2] <= q[p[1]]
      OBVIOUS
    <3>2. q[p[1]] <= r[p[1]] /\ q[p[1]] \in Nat /\ r[p[1]] \in Nat
      BY <3>1
    <3>3. p[2] <= r[p[1]]
      BY <3>1, <3>2
    <3>4. QED
      BY <3>1, <3>3
  <2>2. QED
    BY <2>1
<1>3. Cardinality(Q) <= Cardinality(R) /\ (Cardinality(R) = Cardinality(Q) => R = Q)
  BY <1>1, <1>2, FS_Subset
<1>4. Cardinality(Q) \in Nat /\ StepCount(S, q) = Cardinality(Q)
  BY StepsAreFinite DEF StepCount
<1>5. ASSUME NEW x \in S, q[x] < r[x] PROVE R # Q
  <2>1. q[x] \in Nat /\ r[x] \in Nat
    OBVIOUS
  <2>2. 1 <= r[x] /\ r[x] <= r[x] /\ ~(r[x] <= q[x]) /\ <<x, r[x]>> \in S \X Nat
    BY <1>5, <2>1
  <2>3. <<x, r[x]>>[1] = x /\ <<x, r[x]>>[2] = r[x]
    OBVIOUS
  <2>4. <<x, r[x]>> \in R /\ <<x, r[x]>> \notin Q
    BY <2>2, <2>3
  <2>5. QED
    BY <2>4
<1> HIDE DEF R, Q
<1>6. QED
  BY <1>1, <1>3, <1>4, <1>5

\* The reads that a rule has before it: the node, the auth parameters, the token.
ReadsLeft(t) ==
  CASE t = <<>> -> 0 [] t # <<>> /\ Head(t) = "node" -> 3
    [] t # <<>> /\ Head(t) = "auth" -> 2 [] OTHER -> 1

\* A rule takes at most six steps: its match, three reads, its request and its job.
RulesLeft(k) == Len(NextReads) + 2 + 6 * k

Place(s, k, t) ==
  CASE s = "rules" -> RulesLeft(k)
    [] s = "reading" -> RulesLeft(k) + 2 + ReadsLeft(t)
    [] s = "adding" -> RulesLeft(k) + 1
    [] s = "body" -> RulesLeft(k)
    [] s = "next" -> Len(t) + 1
    [] OTHER -> 0

AnswerRank(s) == IF s = "none" THEN 1 ELSE 0

JobRank(s, v) ==
  CASE s = "new" -> 4 [] s = "accepted" -> 3 [] s = "running" /\ v = "writing" -> 2
    [] s = "running" /\ v # "writing" -> 1 [] OTHER -> 0

Left(q) == Len(Rules[q]) - rule[q]
RequestRanks == [q \in Requests |-> Place(pc[q], Left(q), todo[q]) + AnswerRank(answer[q])]
JobRanks == [j \in Jobs |-> JobRank(status[j], val[j])]

RequestSteps == StepCount(Requests, RequestRanks)
JobSteps == StepCount(Jobs, JobRanks)
StepsLeft == RequestSteps + JobSteps

\* A rule has one read under way, and none after it yet. A value is written while its
\* job runs.
OneRead == \A q \in Requests : pc[q] = "reading" => Len(todo[q]) <= 1
WritersRun == \A j \in Jobs : val[j] = "writing" => status[j] = "running"

LEMMA SingleRead ==
  ASSUME NEW q \in Requests, todo[q] \in Seq(Names), todo[q] # <<>>, Len(todo[q]) <= 1
  PROVE  /\ Tail(todo[q]) = <<>>
         /\ AfterValue(q) \in {<<>>, <<"auth">>}
         /\ Head(todo[q]) # "node" => AfterValue(q) = <<>>
<1> DEFINE t == todo[q]
<1>1. t \in Seq(Names) /\ t # <<>> /\ Len(t) <= 1
  OBVIOUS
<1> HIDE DEF t
<1>2. Len(t) \in Nat /\ Len(t) # 0
  BY <1>1, EmptySeq
<1>3. Len(t) = 1
  <2> DEFINE n == Len(t)
  <2>1. n \in Nat /\ n # 0 /\ n <= 1
    BY <1>1, <1>2, Zenon
  <2> HIDE DEF n
  <2>2. n = 1
    BY <2>1
  <2>3. QED
    BY <2>2 DEF n
<1>4. Tail(t) \in Seq(Names) /\ Len(Tail(t)) = Len(t) - 1
  BY <1>1, HeadTailProperties
<1>5. Tail(t) = <<>>
  BY <1>3, <1>4, EmptySeq
<1>6. Tail(todo[q]) = <<>>
  BY <1>5 DEF t
<1>7. QED
  BY <1>6 DEF AfterValue

LEMMA AtMostOne ==
  ASSUME NEW t, t \in {<<>>, <<"node">>, <<"auth">>, <<"token">>}
  PROVE  Len(t) <= 1
<1>1. Len(<<"node">>) = 1 /\ Len(<<"auth">>) = 1 /\ Len(<<"token">>) = 1 /\ Len(<<>>) = 0
  OBVIOUS
<1>2. Len(t) = 0 \/ Len(t) = 1
  BY <1>1, Zenon
<1> DEFINE n == Len(t)
<1>3. n = 0 \/ n = 1
  BY <1>2, Zenon
<1> HIDE DEF n
<1>4. n <= 1
  BY <1>3
<1>5. QED
  BY <1>4 DEF n

LEMMA OneReadStep == IInv /\ OneRead /\ [Next]_vars => OneRead'
<1> SUFFICES ASSUME IInv, OneRead, [Next]_vars PROVE OneRead'
  OBVIOUS
<1>1. /\ pc \in [Requests -> {"rules", "reading", "adding", "body", "next", "ended"}]
      /\ todo \in [Requests -> Seq(Names)]
  BY DEF IInv, Values
<1>3. ASSUME NEW q \in Requests, BeginRule(q) PROVE OneRead'
  <2>1. \/ todo' = [todo EXCEPT ![q] = <<"node">>] /\ pc' = [pc EXCEPT ![q] = "reading"]
        \/ todo' = todo /\ pc' = [pc EXCEPT ![q] = "adding"]
    BY <1>3 DEF BeginRule
  <2>2. pc'[q] = "reading" => todo'[q] = <<"node">>
    BY <1>1, <2>1
  <2>3. \A p \in Requests \ {q} : todo'[p] = todo[p] /\ pc'[p] = pc[p]
    BY <1>1, <2>1
  <2>4. pc'[q] = "reading" => Len(todo'[q]) <= 1
    BY <2>2, AtMostOne
  <2>5. \A p \in Requests : pc'[p] = "reading" => Len(todo'[p]) <= 1
    BY <2>3, <2>4 DEF OneRead
  <2>6. QED
    BY <2>5 DEF OneRead
<1>4. ASSUME NEW q \in Requests, CallNext(q) PROVE OneRead'
  <2>1. todo' = [todo EXCEPT ![q] = NextReads] /\ pc' = [pc EXCEPT ![q] = "next"]
    BY <1>4 DEF CallNext
  <2>2. QED
    BY <1>1, <2>1 DEF OneRead
<1>5. ASSUME NEW q \in Requests, GetValue(q) \/ NoValue(q) \/ Timeout(q) PROVE OneRead'
  <2>1. todo[q] \in Seq(Names) /\ todo[q] # <<>>
    BY <1>1, <1>5 DEF GetValue, NoValue, Timeout, Reading
  <2>2. \/ todo' = [todo EXCEPT ![q] = AfterValue(q)] /\ pc' = pc
        \/ pc' = [pc EXCEPT ![q] = "ended"] /\ todo' = [todo EXCEPT ![q] = <<>>]
        \/ todo' = [todo EXCEPT ![q] = <<"token">>] /\ pc' = pc
    BY <1>5 DEF GetValue, NoValue, Timeout, Failed
  <2>3. pc[q] = "reading" => AfterValue(q) \in {<<>>, <<"auth">>}
    BY <2>1, SingleRead DEF OneRead
  <2>4. \A p \in Requests \ {q} : todo'[p] = todo[p] /\ (pc'[p] = "reading" => pc[p] = "reading")
    BY <1>1, <2>2
  <2>5. pc'[q] = "reading" => pc[q] = "reading" /\ todo'[q] \in {<<>>, <<"auth">>, <<"token">>}
    BY <1>1, <2>2, <2>3
  <2>6. pc'[q] = "reading" => Len(todo'[q]) <= 1
    BY <2>5, AtMostOne
  <2>7. \A p \in Requests : pc'[p] = "reading" => Len(todo'[p]) <= 1
    BY <2>4, <2>6 DEF OneRead
  <2>8. QED
    BY <2>7 DEF OneRead
<1>6. ASSUME NEW q \in Requests,
             \/ BuildRequest(q) \/ AddJob(q) \/ DoBody(q)
             \/ RefuseAtOnce(q) \/ NextEnds(q) \/ Refuse(q)
      PROVE  OneRead'
  <2>1. todo' = todo /\ \/ pc' = pc
                        \/ \E s \in {"adding", "body", "rules", "ended"} :
                             pc' = [pc EXCEPT ![q] = s]
    BY <1>6 DEF BuildRequest, AddJob, DoBody, RefuseAtOnce, NextEnds, Refuse, readVars
  <2>2. QED
    BY <1>1, <2>1 DEF OneRead
<1>7. ASSUME NEW q \in Requests, NEW k \in DOMAIN Rules[q],
             StartJob(q, k) \/ TakeValue(q, k) \/ FinishJob(q, k)
      PROVE  OneRead'
  BY <1>7 DEF StartJob, Do, TakeValue, FinishJob, readVars, OneRead
<1>8. CASE UNCHANGED vars
  BY <1>8 DEF vars, readVars, OneRead
<1>9. QED
  BY <1>3, <1>4, <1>5, <1>6, <1>7, <1>8 DEF Next

LEMMA WritersStep == IInv /\ WritersRun /\ [Next]_vars => WritersRun'
<1> SUFFICES ASSUME IInv, WritersRun, [Next]_vars PROVE WritersRun'
  OBVIOUS
<1>1. /\ status \in [Jobs -> {"new", "accepted", "running", "done"}]
      /\ val \in [Jobs -> {"none", "queued", "writing", "done", "empty", "failed"}]
  BY DEF IInv, Values
<1>2. ASSUME NEW q \in Requests, AddJob(q) \/ DoBody(q) PROVE WritersRun'
  <2> DEFINE j == <<q, rule[q]>>
  <2>1. j \in Jobs /\ status[j] = "new"
    BY <1>2, AtItsJob DEF AddJob, DoBody
  <2>2. \/ status' = status /\ val' = val
        \/ status' = status /\ \E v \in {"empty", "failed"} : val' = [val EXCEPT ![j] = v]
        \/ status' = [status EXCEPT ![j] = "accepted"] /\ val' = [val EXCEPT ![j] = "queued"]
    BY <1>2 DEF AddJob, DoBody, Pool!Accept, poolVars
  <2> HIDE DEF j
  <2>3. QED
    BY <1>1, <2>1, <2>2 DEF WritersRun
<1>3. ASSUME NEW q \in Requests, NEW k \in DOMAIN Rules[q],
             StartJob(q, k) \/ TakeValue(q, k) \/ FinishJob(q, k)
      PROVE  WritersRun'
  <2> DEFINE j == <<q, k>>
  <2>1. j \in Jobs
    BY JobPairs
  <2>2. \/ /\ status' = [status EXCEPT ![j] = "running"]
           /\ \E v \in {"writing", "empty", "failed"} : val' = [val EXCEPT ![j] = v]
        \/ status' = status /\ val' = [val EXCEPT ![j] = "done"]
        \/ val' = val /\ val[j] # "writing" /\ status' = [status EXCEPT ![j] = "done"]
    BY <1>3 DEF StartJob, Do, TakeValue, FinishJob, Pool!Start, Pool!Finish, poolVars
  <2> HIDE DEF j
  <2>3. QED
    BY <1>1, <2>1, <2>2 DEF WritersRun
<1>4. ASSUME NEW q \in Requests,
             \/ BeginRule(q) \/ BuildRequest(q) \/ CallNext(q) \/ RefuseAtOnce(q)
             \/ NextEnds(q) \/ Refuse(q)
             \/ GetValue(q) \/ NoValue(q) \/ Timeout(q)
      PROVE  WritersRun'
  BY <1>4 DEF BeginRule, BuildRequest, CallNext, RefuseAtOnce, NextEnds, Refuse, GetValue,
              NoValue, Timeout, poolVars, WritersRun
<1>5. CASE UNCHANGED vars
  BY <1>5 DEF vars, poolVars, WritersRun
<1>6. QED
  BY <1>2, <1>3, <1>4, <1>5 DEF Next

LEMMA RanksAreNat ==
  IInv => RequestRanks \in [Requests -> Nat] /\ JobRanks \in [Jobs -> Nat]
<1> SUFFICES ASSUME IInv
             PROVE  RequestRanks \in [Requests -> Nat] /\ JobRanks \in [Jobs -> Nat]
  OBVIOUS
<1>1. JobRanks \in [Jobs -> Nat]
  BY DEF JobRanks, JobRank
<1>2. ASSUME NEW q \in Requests
      PROVE  Place(pc[q], Left(q), todo[q]) + AnswerRank(answer[q]) \in Nat
  <2>1. Left(q) \in Nat
    BY RuleIndices DEF IInv, Values, AtARule, Left
  <2>2. Len(NextReads) \in Nat
    BY PipelineAssumption
  <2>3. Len(todo[q]) \in Nat
    BY DEF IInv, Values
  <2>4. ReadsLeft(todo[q]) \in Nat
    BY DEF ReadsLeft
  <2>5. RulesLeft(Left(q)) \in Nat
    BY <2>1, <2>2 DEF RulesLeft
  <2>6. Place(pc[q], Left(q), todo[q]) \in Nat
    BY <2>3, <2>4, <2>5 DEF Place
  <2>7. AnswerRank(answer[q]) \in Nat
    BY DEF AnswerRank
  <2>8. QED
    BY <2>6, <2>7
<1>3. QED
  BY <1>1, <1>2 DEF RequestRanks

LEMMA JobsAreFinite ==
  ASSUME IsFiniteSet(Requests)
  PROVE  IsFiniteSet(Jobs)
<1> DEFINE Of == [q \in Requests |-> {q} \X DOMAIN Rules[q]]
           All == {{q} \X DOMAIN Rules[q] : q \in Requests}
<1>1. ASSUME NEW q \in Requests PROVE IsFiniteSet({q} \X DOMAIN Rules[q])
  <2>1. DOMAIN Rules[q] = 1..Len(Rules[q]) /\ 1 \in Int /\ Len(Rules[q]) \in Int
    BY RuleIndices
  <2>2. IsFiniteSet(DOMAIN Rules[q])
    BY <2>1, FS_Interval
  <2>3. IsFiniteSet({q})
    BY FS_Singleton
  <2>4. QED
    BY <2>2, <2>3, FS_Product
<1>2. Of \in Surjection(Requests, All)
  BY DEF Surjection
<1>3. IsFiniteSet(All) /\ \A T \in All : IsFiniteSet(T)
  BY <1>1, <1>2, FS_Surjection
<1>4. IsFiniteSet(UNION All)
  BY <1>3, FS_UNION
<1>5. QED
  BY <1>4 DEF Jobs

LEMMA StepsLeftIsNat ==
  ASSUME IsFiniteSet(Requests)
  PROVE  IInv => RequestSteps \in Nat /\ JobSteps \in Nat /\ StepsLeft \in Nat
<1> SUFFICES ASSUME IInv
             PROVE  RequestSteps \in Nat /\ JobSteps \in Nat /\ StepsLeft \in Nat
  OBVIOUS
<1>1. StepCount(Requests, RequestRanks) \in Nat
  BY RanksAreNat, StepsAreFinite
<1>2. StepCount(Jobs, JobRanks) \in Nat
  BY RanksAreNat, JobsAreFinite, StepsAreFinite
<1>3. QED
  BY <1>1, <1>2 DEF RequestSteps, JobSteps, StepsLeft

\* One request that goes on, or one job that does.
RankNow(q) == Place(pc[q], Left(q), todo[q]) + AnswerRank(answer[q])
RankThen(q) == Place(pc'[q], Len(Rules[q]) - rule'[q], todo'[q]) + AnswerRank(answer'[q])

LEMMA StepLowers ==
  ASSUME IsFiniteSet(Requests), IInv, IInv',
         \A q \in Requests : RankThen(q) <= RankNow(q),
         \A j \in Jobs : JobRank(status'[j], val'[j]) <= JobRank(status[j], val[j]),
         \/ \E q \in Requests : RankThen(q) < RankNow(q)
         \/ \E j \in Jobs : JobRank(status'[j], val'[j]) < JobRank(status[j], val[j])
  PROVE  StepsLeft' < StepsLeft
<1>1. /\ RequestRanks \in [Requests -> Nat] /\ JobRanks \in [Jobs -> Nat]
      /\ RequestRanks' \in [Requests -> Nat] /\ JobRanks' \in [Jobs -> Nat]
  <2>1. IInv' => (RequestRanks \in [Requests -> Nat] /\ JobRanks \in [Jobs -> Nat])'
    BY RanksAreNat, PTL
  <2>2. QED
    BY <2>1, RanksAreNat
<1>2. /\ \A q \in Requests : RequestRanks[q] = RankNow(q) /\ RequestRanks'[q] = RankThen(q)
      /\ \A j \in Jobs : /\ JobRanks[j] = JobRank(status[j], val[j])
                         /\ JobRanks'[j] = JobRank(status'[j], val'[j])
  BY DEF RequestRanks, JobRanks, RankNow, RankThen, Left, Place, AnswerRank, JobRank
<1>3. /\ RequestSteps' <= RequestSteps
      /\ (\E q \in Requests : RankThen(q) < RankNow(q)) => RequestSteps' <= RequestSteps - 1
  <2> DEFINE S == Requests
             a == RequestRanks
             b == RequestRanks'
  <2>1. a \in [S -> Nat] /\ b \in [S -> Nat] /\ \A q \in S : b[q] <= a[q]
    BY <1>1, <1>2
  <2>2. (\E q \in Requests : RankThen(q) < RankNow(q)) => \E q \in S : b[q] < a[q]
    BY <1>2
  <2>3. RequestSteps = StepCount(S, a) /\ RequestSteps' = StepCount(S, b)
    BY DEF RequestSteps, StepCount
  <2>4. IsFiniteSet(S)
    OBVIOUS
  <2> HIDE DEF S, a, b
  <2>5. /\ StepCount(S, b) <= StepCount(S, a)
        /\ (\E q \in S : b[q] < a[q]) => StepCount(S, b) <= StepCount(S, a) - 1
    BY <2>1, <2>4, StepsFall
  <2>6. QED
    BY <2>2, <2>3, <2>5
<1>4. /\ JobSteps' <= JobSteps
      /\ (\E j \in Jobs : JobRank(status'[j], val'[j]) < JobRank(status[j], val[j]))
           => JobSteps' <= JobSteps - 1
  <2> DEFINE S == Jobs
             a == JobRanks
             b == JobRanks'
  <2>1. a \in [S -> Nat] /\ b \in [S -> Nat] /\ \A j \in S : b[j] <= a[j]
    BY <1>1, <1>2
  <2>2. (\E j \in Jobs : JobRank(status'[j], val'[j]) < JobRank(status[j], val[j]))
          => \E j \in S : b[j] < a[j]
    BY <1>2
  <2>3. JobSteps = StepCount(S, a) /\ JobSteps' = StepCount(S, b)
    BY DEF JobSteps, StepCount, Jobs
  <2>4. IsFiniteSet(S)
    BY JobsAreFinite
  <2> HIDE DEF S, a, b
  <2>5. /\ StepCount(S, b) <= StepCount(S, a)
        /\ (\E j \in S : b[j] < a[j]) => StepCount(S, b) <= StepCount(S, a) - 1
    BY <2>1, <2>4, StepsFall
  <2>6. QED
    BY <2>2, <2>3, <2>5
<1>5. RequestSteps \in Nat /\ JobSteps \in Nat /\ RequestSteps' \in Nat /\ JobSteps' \in Nat
  <2>1. IInv' => (RequestSteps \in Nat /\ JobSteps \in Nat /\ StepsLeft \in Nat)'
    BY StepsLeftIsNat, PTL
  <2>2. QED
    BY <2>1, StepsLeftIsNat
<1> DEFINE a == RequestSteps
           b == JobSteps
           a1 == RequestSteps'
           b1 == JobSteps'
<1>6. StepsLeft = a + b /\ StepsLeft' = a1 + b1
  BY DEF StepsLeft
<1>7. a \in Nat /\ b \in Nat /\ a1 \in Nat /\ b1 \in Nat
  BY <1>5
<1>8. a1 <= a /\ b1 <= b /\ (a1 <= a - 1 \/ b1 <= b - 1)
  BY <1>3, <1>4
<1> HIDE DEF a, b, a1, b1
<1>9. QED
  BY <1>6, <1>7, <1>8

\* Every step brings the requests and their jobs, finitely many requests at work, nearer
\* to the rest of which ReadsWaitOnlySo speaks: timeouts, reads that go on without a
\* value and late readers do not keep a request going for ever. The two together are
\* what ReadsEnd and WorkersComeBack say, for any rules and requests and without an
\* assumption on the order in which goroutines and jobs run, but that some step is taken
\* where one can be.
THEOREM RequestsGetNearer ==
  ASSUME IsFiniteSet(Requests)
  PROVE  Spec => [](StepsLeft \in Nat) /\ [][StepsLeft' < StepsLeft]_vars
<1>1. ASSUME IInv, IInv', OneRead, WritersRun, Next PROVE StepsLeft' < StepsLeft
  <2>1. /\ status \in [Jobs -> {"new", "accepted", "running", "done"}]
        /\ val \in [Jobs -> {"none", "queued", "writing", "done", "empty", "failed"}]
        /\ pc \in [Requests -> {"rules", "reading", "adding", "body", "next", "ended"}]
        /\ rule \in [Requests -> Nat]
        /\ todo \in [Requests -> Seq(Names)]
        /\ answer \in [Requests -> {"none", "served", "refused"}]
    BY <1>1 DEF IInv, Values
  <2>2. Len(NextReads) \in Nat /\ \A t : ReadsLeft(t) \in 0..3 /\ AnswerRank(t) \in 0..1
    BY PipelineAssumption DEF ReadsLeft, AnswerRank
  <2>3. \A q \in Requests : /\ Left(q) \in Nat /\ Len(Rules[q]) \in Nat /\ Len(todo[q]) \in Nat
                            /\ Left(q) = Len(Rules[q]) - rule[q]
    BY <1>1, <2>1, RuleIndices DEF IInv, AtARule, Left
  <2>4. \A q \in Requests : RulesLeft(Left(q)) \in Nat /\ RulesLeft(Left(q)) >= 2
    BY <2>2, <2>3 DEF RulesLeft
  <2>5. \A q \in Requests : RankNow(q) \in Nat
    <3>1. \A q \in Requests : Place(pc[q], Left(q), todo[q]) \in Nat
      BY <2>2, <2>3, <2>4 DEF Place
    <3>2. QED
      BY <2>2, <3>1 DEF RankNow
  <2>6. ASSUME NEW q \in Requests, RankThen(q) < RankNow(q),
               \A p \in Requests \ {q} : /\ pc'[p] = pc[p] /\ rule'[p] = rule[p]
                                         /\ todo'[p] = todo[p] /\ answer'[p] = answer[p],
               \A j \in Jobs : JobRank(status'[j], val'[j]) <= JobRank(status[j], val[j])
        PROVE  StepsLeft' < StepsLeft
    <3>1. \A p \in Requests \ {q} : RankThen(p) = RankNow(p)
      BY <2>6 DEF RankThen, RankNow, Left
    <3>2. \A p \in Requests : RankThen(p) <= RankNow(p)
      <4>1. RankThen(q) <= RankNow(q)
        <5>1. RankThen(q) \in Nat
          <6>1. IInv' => (RequestRanks \in [Requests -> Nat] /\ JobRanks \in [Jobs -> Nat])'
            BY RanksAreNat, PTL
          <6>2. RequestRanks'[q] = RankThen(q)
            BY DEF RequestRanks, RankThen, Left, Place, AnswerRank
          <6>3. QED
            BY <1>1, <6>1, <6>2
        <5>2. QED
          BY <2>5, <2>6, <5>1
      <4>2. QED
        BY <2>5, <3>1, <4>1
    <3>3. QED
      BY <1>1, <2>6, <3>2, StepLowers
  <2>7. UNCHANGED <<status, val>> =>
          \A j \in Jobs : JobRank(status'[j], val'[j]) <= JobRank(status[j], val[j])
    BY <2>1 DEF JobRank
  <2>8. ASSUME NEW q \in Requests, BeginRule(q) PROVE StepsLeft' < StepsLeft
    <3>1. /\ UNCHANGED <<status, val, answer>> /\ pc[q] = "rules"
          /\ rule' = [rule EXCEPT ![q] = @ + 1] /\ rule[q] < Len(Rules[q])
          /\ \/ pc' = [pc EXCEPT ![q] = "reading"] /\ todo' = [todo EXCEPT ![q] = <<"node">>]
             \/ pc' = [pc EXCEPT ![q] = "adding"] /\ todo' = todo
      BY <2>8 DEF BeginRule, poolVars
    <3>2. Len(Rules[q]) - rule'[q] = Left(q) - 1 /\ rule'[q] = rule[q] + 1
      BY <2>1, <2>3, <3>1
    <3>3. RulesLeft(Left(q) - 1) = RulesLeft(Left(q)) - 6
      BY <2>2, <2>3 DEF RulesLeft
    <3>4. pc'[q] \in {"reading", "adding"} /\ answer'[q] = answer[q]
      BY <2>1, <3>1
    <3>5. /\ Place(pc[q], Left(q), todo[q]) = RulesLeft(Left(q))
          /\ Place(pc'[q], Left(q) - 1, todo'[q]) <= RulesLeft(Left(q)) - 1
      <4>1. Place(pc[q], Left(q), todo[q]) = RulesLeft(Left(q))
        BY <3>1 DEF Place
      <4>2. ReadsLeft(todo'[q]) \in 0..3
        BY <2>2
      <4>3. \/ Place(pc'[q], Left(q) - 1, todo'[q])
                 = RulesLeft(Left(q) - 1) + 2 + ReadsLeft(todo'[q])
            \/ Place(pc'[q], Left(q) - 1, todo'[q]) = RulesLeft(Left(q) - 1) + 1
        BY <3>4 DEF Place
      <4>4. QED
        BY <2>4, <3>3, <4>1, <4>2, <4>3
    <3>6. Place(pc'[q], Left(q) - 1, todo'[q]) \in Int
      BY <2>2, <2>4, <3>3, <3>4 DEF Place
    <3>7. RankThen(q) < RankNow(q)
      BY <2>2, <2>4, <3>2, <3>4, <3>5, <3>6 DEF RankThen, RankNow
    <3>8. \A p \in Requests \ {q} : /\ pc'[p] = pc[p] /\ rule'[p] = rule[p]
                                    /\ todo'[p] = todo[p] /\ answer'[p] = answer[p]
      BY <2>1, <3>1
    <3>9. QED
      BY <2>6, <2>7, <3>1, <3>7, <3>8
  <2>9. ASSUME NEW q \in Requests, GetValue(q) \/ NoValue(q) \/ Timeout(q)
        PROVE  StepsLeft' < StepsLeft
    <3>1. /\ UNCHANGED <<status, val, rule>> /\ pc[q] \in {"reading", "next"}
          /\ todo[q] # <<>> /\ todo[q] \in Seq(Names)
      BY <2>1, <2>9 DEF GetValue, NoValue, Timeout, Reading, poolVars
    <3>2. \/ todo' = [todo EXCEPT ![q] = AfterValue(q)] /\ UNCHANGED <<pc, answer>>
          \/ /\ pc[q] = "next" /\ pc' = [pc EXCEPT ![q] = "ended"]
             /\ todo' = [todo EXCEPT ![q] = <<>>]
             /\ answer' = [answer EXCEPT ![q] = IF @ = "none" THEN "refused" ELSE @]
          \/ /\ pc[q] = "reading" /\ Head(todo[q]) = "auth"
             /\ todo' = [todo EXCEPT ![q] = <<"token">>] /\ UNCHANGED <<pc, answer>>
      <4>1. CASE GetValue(q)
        BY <4>1 DEF GetValue
      <4>2. CASE Failed(q) /\ pc[q] = "next"
        BY <4>2 DEF Failed
      <4>3. CASE Failed(q) /\ pc[q] # "next" /\ Head(todo[q]) = "auth"
        BY <2>1, <3>1, <4>3 DEF Failed
      <4>4. CASE Failed(q) /\ pc[q] # "next" /\ Head(todo[q]) # "auth"
        BY <2>1, <4>4 DEF Failed
      <4>5. QED
        BY <2>9, <4>1, <4>2, <4>3, <4>4 DEF NoValue, Timeout
    <3>3. \A p \in Requests \ {q} : /\ pc'[p] = pc[p] /\ rule'[p] = rule[p]
                                    /\ todo'[p] = todo[p] /\ answer'[p] = answer[p]
      BY <2>1, <3>1, <3>2
    <3>4. Len(Rules[q]) - rule'[q] = Left(q)
      BY <2>3, <3>1
    <3>5. AnswerRank(answer'[q]) <= AnswerRank(answer[q])
      BY <2>1, <3>2 DEF AnswerRank
    <3>6. /\ Place(pc'[q], Left(q), todo'[q]) <= Place(pc[q], Left(q), todo[q]) - 1
          /\ Place(pc'[q], Left(q), todo'[q]) \in Int /\ Place(pc[q], Left(q), todo[q]) \in Int
      <4>1. CASE pc[q] = "reading"
        <5>1. Head(<<"auth">>) = "auth" /\ Head(<<"token">>) = "token"
              /\ <<"auth">> # <<>> /\ <<"token">> # <<>>
          OBVIOUS
        <5>2. /\ AfterValue(q) \in {<<>>, <<"auth">>}
              /\ Head(todo[q]) # "node" => AfterValue(q) = <<>>
          BY <1>1, <3>1, <4>1, SingleRead DEF OneRead
        <5>3. /\ pc'[q] = "reading" /\ todo'[q] \in {<<>>, <<"auth">>, <<"token">>}
              /\ Head(todo[q]) # "node" =>
                   todo'[q] = <<>> \/ (Head(todo[q]) = "auth" /\ todo'[q] = <<"token">>)
              /\ Head(todo[q]) = "node" => todo'[q] \in {<<>>, <<"auth">>}
          BY <2>1, <3>2, <4>1, <5>2
        <5>4. ReadsLeft(todo'[q]) <= ReadsLeft(todo[q]) - 1
          BY <3>1, <5>1, <5>3 DEF ReadsLeft
        <5>5. /\ Place(pc[q], Left(q), todo[q])
                   = RulesLeft(Left(q)) + 2 + ReadsLeft(todo[q])
              /\ Place(pc'[q], Left(q), todo'[q])
                   = RulesLeft(Left(q)) + 2 + ReadsLeft(todo'[q])
          BY <4>1, <5>3 DEF Place
        <5>6. ReadsLeft(todo[q]) \in 0..3 /\ ReadsLeft(todo'[q]) \in 0..3
          BY <2>2
        <5>7. QED
          BY <2>4, <5>4, <5>5, <5>6
      <4>2. CASE pc[q] = "next"
        <5>1. Len(Tail(todo[q])) = Len(todo[q]) - 1
          BY <3>1, HeadTailProperties
        <5>2. AfterValue(q) = Tail(todo[q])
          BY <4>2 DEF AfterValue, NeedsAuth
        <5>3. \/ pc'[q] = "next" /\ todo'[q] = Tail(todo[q])
              \/ pc'[q] = "ended"
          BY <2>1, <3>2, <4>2, <5>2
        <5>4. /\ Place(pc[q], Left(q), todo[q]) = Len(todo[q]) + 1
              /\ \/ Place(pc'[q], Left(q), todo'[q]) = Len(Tail(todo[q])) + 1
                 \/ Place(pc'[q], Left(q), todo'[q]) = 0
          BY <4>2, <5>3 DEF Place
        <5> DEFINE n == Len(todo[q])
                   m == Len(Tail(todo[q]))
                   x == Place(pc[q], Left(q), todo[q])
                   y == Place(pc'[q], Left(q), todo'[q])
        <5>5. n \in Nat /\ m \in Int /\ m = n - 1 /\ x = n + 1 /\ (y = m + 1 \/ y = 0)
          BY <2>3, <5>1, <5>4
        <5> HIDE DEF n, m, x, y
        <5>6. y <= x - 1 /\ y \in Int /\ x \in Int
          BY <5>5
        <5>7. QED
          BY <5>6 DEF x, y
      <4>3. QED
        BY <3>1, <4>1, <4>2
    <3>7. RankThen(q) < RankNow(q)
      BY <2>2, <3>4, <3>5, <3>6 DEF RankThen, RankNow
    <3>8. QED
      BY <2>6, <2>7, <3>1, <3>3, <3>7
  <2>10. ASSUME NEW q \in Requests,
                \/ BuildRequest(q) \/ DoBody(q) \/ CallNext(q) \/ RefuseAtOnce(q)
                \/ NextEnds(q) \/ Refuse(q)
         PROVE  StepsLeft' < StepsLeft
    <3>1. /\ UNCHANGED <<status, rule>>
          /\ \/ /\ pc[q] = "reading" /\ todo[q] = <<>> /\ pc' = [pc EXCEPT ![q] = "adding"]
                /\ UNCHANGED <<todo, answer>>
             \/ /\ pc[q] = "body" /\ pc' = [pc EXCEPT ![q] = "ended"]
                /\ answer' = [answer EXCEPT ![q] = "served"] /\ UNCHANGED todo
             \/ /\ pc[q] = "rules" /\ pc' = [pc EXCEPT ![q] = "next"]
                /\ todo' = [todo EXCEPT ![q] = NextReads] /\ UNCHANGED answer
             \/ /\ pc[q] = "rules" /\ pc' = [pc EXCEPT ![q] = "ended"]
                /\ answer' = [answer EXCEPT ![q] = "refused"] /\ UNCHANGED todo
             \/ /\ pc[q] = "next" /\ pc' = [pc EXCEPT ![q] = "ended"] /\ UNCHANGED todo
                /\ answer' = [answer EXCEPT ![q] = IF @ = "none" THEN "served" ELSE @]
             \/ /\ answer[q] = "none" /\ answer' = [answer EXCEPT ![q] = "refused"]
                /\ UNCHANGED <<pc, todo>>
      BY <2>10 DEF BuildRequest, DoBody, CallNext, RefuseAtOnce, NextEnds, Refuse, RulesDone,
                  readVars, poolVars
    <3>2. \A p \in Requests \ {q} : /\ pc'[p] = pc[p] /\ rule'[p] = rule[p]
                                    /\ todo'[p] = todo[p] /\ answer'[p] = answer[p]
      BY <2>1, <3>1
    <3>3. Len(Rules[q]) - rule'[q] = Left(q)
      BY <2>3, <3>1
    <3>4. \A j \in Jobs : JobRank(status'[j], val'[j]) <= JobRank(status[j], val[j])
      <4>1. CASE val' = val
        BY <2>7, <3>1, <4>1
      <4>2. CASE DoBody(q)
        <5>1. <<q, rule[q]>> \in Jobs /\ status[<<q, rule[q]>>] = "new"
          BY <1>1, <4>2, AtItsJob DEF DoBody
        <5>2. \E v \in {"empty", "failed"} : val' = [val EXCEPT ![<<q, rule[q]>>] = v]
          BY <4>2 DEF DoBody
        <5>3. \A j \in Jobs : val'[j] = val[j] \/ status[j] = "new"
          BY <2>1, <5>1, <5>2
        <5>4. QED
          BY <3>1, <5>3 DEF JobRank
      <4>3. QED
        BY <2>10, <4>1, <4>2 DEF BuildRequest, CallNext, RefuseAtOnce, NextEnds, Refuse
    <3>5. AnswerRank(answer'[q]) <= AnswerRank(answer[q])
      BY <2>1, <3>1 DEF AnswerRank
    <3>6. /\ Place(pc'[q], Left(q), todo'[q]) <= Place(pc[q], Left(q), todo[q])
          /\ Place(pc'[q], Left(q), todo'[q]) \in Int /\ Place(pc[q], Left(q), todo[q]) \in Int
          /\ \/ Place(pc'[q], Left(q), todo'[q]) <= Place(pc[q], Left(q), todo[q]) - 1
             \/ AnswerRank(answer'[q]) <= AnswerRank(answer[q]) - 1
      <4>1. CASE /\ pc[q] = "reading" /\ todo[q] = <<>> /\ pc' = [pc EXCEPT ![q] = "adding"]
        <5>1. /\ Place(pc[q], Left(q), todo[q])
                   = RulesLeft(Left(q)) + 2 + ReadsLeft(todo[q])
              /\ Place(pc'[q], Left(q), todo'[q]) = RulesLeft(Left(q)) + 1
          BY <2>1, <4>1 DEF Place
        <5>2. ReadsLeft(todo[q]) \in 0..3
          BY <2>2
        <5>3. QED
          BY <2>4, <5>1, <5>2
      <4>2. CASE pc[q] \in {"rules", "body", "next"} /\ pc' = [pc EXCEPT ![q] = "ended"]
        <5>1. pc'[q] = "ended"
          BY <2>1, <4>2
        <5>2. Place(pc'[q], Left(q), todo'[q]) = 0
          BY <5>1 DEF Place
        <5>3. \/ Place(pc[q], Left(q), todo[q]) = RulesLeft(Left(q))
              \/ Place(pc[q], Left(q), todo[q]) = Len(todo[q]) + 1
          BY <4>2 DEF Place
        <5> DEFINE n == Len(todo[q])
                   m == RulesLeft(Left(q))
                   x == Place(pc[q], Left(q), todo[q])
                   y == Place(pc'[q], Left(q), todo'[q])
        <5>4. n \in Nat /\ m \in Nat /\ m >= 2 /\ (x = m \/ x = n + 1) /\ y = 0
          BY <2>3, <2>4, <5>2, <5>3
        <5> HIDE DEF n, m, x, y
        <5>5. y <= x /\ y <= x - 1 /\ y \in Int /\ x \in Int
          BY <5>4
        <5>6. QED
          BY <5>5 DEF x, y
      <4>3. CASE /\ pc[q] = "rules" /\ pc' = [pc EXCEPT ![q] = "next"]
                 /\ todo' = [todo EXCEPT ![q] = NextReads]
        <5>1. pc'[q] = "next" /\ todo'[q] = NextReads
          BY <2>1, <4>3
        <5>2. RulesLeft(Left(q)) >= Len(NextReads) + 2
          BY <2>2, <2>3 DEF RulesLeft
        <5>3. QED
          BY <2>2, <2>4, <4>3, <5>1, <5>2 DEF Place
      <4>4. CASE /\ answer[q] = "none" /\ answer' = [answer EXCEPT ![q] = "refused"]
                 /\ UNCHANGED <<pc, todo>>
        <5>1. Place(pc[q], Left(q), todo[q]) \in Int
          BY <2>2, <2>3, <2>4 DEF Place
        <5>2. QED
          BY <2>1, <4>4, <5>1 DEF AnswerRank
      <4>5. QED
        BY <3>1, <4>1, <4>2, <4>3, <4>4
    <3>7. RankThen(q) < RankNow(q)
      BY <2>2, <3>3, <3>5, <3>6 DEF RankThen, RankNow
    <3>8. QED
      BY <2>6, <3>2, <3>4, <3>7
  <2>11. ASSUME NEW q \in Requests, AddJob(q) PROVE StepsLeft' < StepsLeft
    <3> DEFINE j == <<q, rule[q]>>
    <3>1. j \in Jobs /\ status[j] = "new" /\ pc[q] = "adding"
      BY <1>1, <2>11, AtItsJob DEF AddJob
    <3>2. /\ UNCHANGED <<rule, todo, answer>>
          /\ \E s \in {"body", "rules"} : pc' = [pc EXCEPT ![q] = s]
          /\ \/ UNCHANGED <<status, val>>
             \/ /\ status' = [status EXCEPT ![j] = "accepted"]
                /\ val' = [val EXCEPT ![j] = "queued"]
      BY <2>11 DEF AddJob, Pool!Accept, readVars, poolVars
    <3> HIDE DEF j
    <3>3. \A p \in Requests \ {q} : /\ pc'[p] = pc[p] /\ rule'[p] = rule[p]
                                    /\ todo'[p] = todo[p] /\ answer'[p] = answer[p]
      BY <2>1, <3>2
    <3>4. \A i \in Jobs : JobRank(status'[i], val'[i]) <= JobRank(status[i], val[i])
      BY <2>1, <3>1, <3>2 DEF JobRank
    <3>5. pc'[q] \in {"body", "rules"} /\ Len(Rules[q]) - rule'[q] = Left(q)
      BY <2>1, <2>3, <3>2
    <3>6. /\ Place(pc'[q], Left(q), todo'[q]) = RulesLeft(Left(q))
          /\ Place(pc[q], Left(q), todo[q]) = RulesLeft(Left(q)) + 1
      BY <3>1, <3>5 DEF Place
    <3>7. RankThen(q) < RankNow(q)
      BY <2>2, <2>4, <3>2, <3>5, <3>6 DEF RankThen, RankNow
    <3>8. QED
      BY <2>6, <3>3, <3>4, <3>7
  <2>12. ASSUME NEW q \in Requests, NEW k \in DOMAIN Rules[q],
                StartJob(q, k) \/ TakeValue(q, k) \/ FinishJob(q, k)
         PROVE  StepsLeft' < StepsLeft
    <3> DEFINE j == <<q, k>>
    <3>1. j \in Jobs
      BY JobPairs
    <3>2. /\ UNCHANGED <<pc, rule, todo, answer>>
          /\ \/ /\ status[j] = "accepted" /\ status' = [status EXCEPT ![j] = "running"]
                /\ \E v \in {"writing", "empty", "failed"} : val' = [val EXCEPT ![j] = v]
             \/ val[j] = "writing" /\ status' = status /\ val' = [val EXCEPT ![j] = "done"]
             \/ /\ val' = val /\ status[j] = "running"
                /\ status' = [status EXCEPT ![j] = "done"]
      BY <2>12 DEF StartJob, Do, TakeValue, FinishJob, Pool!Start, Pool!Finish, readVars, poolVars
    <3> HIDE DEF j
    <3>3. val[j] = "writing" => status[j] = "running"
      BY <1>1, <3>1 DEF WritersRun
    <3>4. /\ \A i \in Jobs : JobRank(status'[i], val'[i]) <= JobRank(status[i], val[i])
          /\ JobRank(status'[j], val'[j]) < JobRank(status[j], val[j])
      BY <2>1, <3>1, <3>2, <3>3 DEF JobRank
    <3>5. \A p \in Requests : RankThen(p) = RankNow(p)
      BY <3>2 DEF RankThen, RankNow, Left
    <3>6. \A p \in Requests : RankThen(p) <= RankNow(p)
      BY <2>5, <3>5
    <3>7. QED
      BY <1>1, <3>1, <3>4, <3>6, StepLowers
  <2>13. QED
    BY <1>1, <2>8, <2>9, <2>10, <2>11, <2>12 DEF Next
<1>2. IInv /\ IInv' /\ OneRead /\ WritersRun /\ [Next]_vars => [StepsLeft' < StepsLeft]_vars
  BY <1>1
<1>3. Init => OneRead /\ WritersRun
  BY DEF Init, OneRead, WritersRun
<1>4. QED
  BY <1>2, <1>3, OneReadStep, WritersStep, StepsLeftIsNat, Invariance, PTL DEF Spec
=============================================================================
