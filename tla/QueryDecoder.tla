---------------------------- MODULE QueryDecoder ----------------------------
(***************************************************************************)
(* query.Unmarshal of encoding/query into a struct with fields of two      *)
(* kinds: strings, and pointers with an UnmarshalQuery method. QueryFeed   *)
(* takes one character, QueryFinish is the end of the text. The texts hold *)
(* no space (a request line has none), and keys match a field exactly: in  *)
(* KeyFold they may differ in case.                                        *)
(*                                                                         *)
(*   phase      "top" before the query, "key" before and "inKey" inside a  *)
(*              key, "value" before and "inValue" inside a value, "rest"   *)
(*              when all that follows belongs to one field, "done", or     *)
(*              "outOfSync" when the decoder gives up with errPhase        *)
(*   cur        the characters of the key, the value or the rest           *)
(*   field      the field whose value is being read                        *)
(*   store      what each field was given, last                            *)
(*   failed     an error was saved                                         *)
(***************************************************************************)
EXTENDS QueryScanner

CONSTANTS
  StringFields,   \* The names of the string fields, each one character.
  PointerFields   \* The names of the fields that decode a text themselves.

KnownFields == StringFields \union PointerFields
Unset == <<>>

QueryFresh ==
  [scan |-> QueryReset, phase |-> "top", cur |-> <<>>, field |-> "",
   store |-> [f \in KnownFields |-> Unset], failed |-> FALSE]

-----------------------------------------------------------------------------
(* literalStore.                                                            *)

\* indirect stops at a pointer that is given 'n...', as if that were a null,
\* and the pointer itself cannot hold the text.
TakenForNull(dec) == dec.field \in PointerFields /\ Head(dec.cur) = "n"

StoreLiteral(dec) ==
  IF TakenForNull(dec)
  THEN [dec EXCEPT !.failed = TRUE]
  ELSE [dec EXCEPT !.store[dec.field] = dec.cur]

\* query on the field itself, for a value that begins with '?' or '&'.
BeginRest(dec, c) ==
  [dec EXCEPT !.phase = "rest", !.cur = <<c>>,
              !.failed = @ \/ dec.field \in StringFields]

\* The key has been read, and code is what followed it. A key that no field
\* has is left, and what follows it is read for a key.
EndKey(dec, code) ==
  IF dec.cur \notin {<<f>> : f \in KnownFields} THEN [dec EXCEPT !.phase = "key"]
  ELSE IF code # "paramKey" THEN [dec EXCEPT !.phase = "outOfSync"]
  ELSE [dec EXCEPT !.phase = "value", !.field = Head(dec.cur)]

QueryFeed(dec, c) ==
  LET scan  == QueryStep(dec.scan, c)
      next  == [dec EXCEPT !.scan = scan]
      starts(phase) == [next EXCEPT !.phase = phase, !.cur = <<c>>]
      grows == [next EXCEPT !.cur = Append(@, c)]
  IN CASE dec.phase = "top" ->
            IF scan.code = "literal" THEN [next EXCEPT !.failed = TRUE, !.phase = "done"]
            ELSE [next EXCEPT !.phase = "key"]
       [] dec.phase = "key" ->
            IF scan.code = "literal" THEN starts("inKey")
            ELSE [next EXCEPT !.phase = "outOfSync"]
       [] dec.phase = "inKey" ->
            IF scan.code = "continue" THEN grows ELSE EndKey(next, scan.code)
       [] dec.phase = "value" ->
            IF scan.code = "literal" THEN starts("inValue") ELSE BeginRest(next, c)
       [] dec.phase = "inValue" ->
            IF scan.code = "continue" THEN grows
            ELSE [StoreLiteral(next) EXCEPT !.phase = "key"]
       [] dec.phase = "rest" -> grows
       [] dec.phase \in {"done", "outOfSync"} -> next

\* The end of the text. The loop asks the scanner for it twice: after a value,
\* and after a key that no field has.
QueryFinish(dec) ==
  LET once  == [dec EXCEPT !.scan = QueryEOF(@)]
      twice == [once EXCEPT !.scan = QueryEOF(@)]
      ends(d) == [d EXCEPT !.phase = "done"]
  IN CASE dec.phase \in {"top", "key"} -> ends(once)
       [] dec.phase = "inKey" ->
            IF EndKey(dec, "end").phase = "key" THEN ends(twice) ELSE EndKey(once, "end")
       [] dec.phase = "value" -> ends(twice)
       [] dec.phase = "inValue" -> ends(StoreLiteral(twice))
       [] dec.phase = "rest" ->
            ends(IF dec.field \in PointerFields
                 THEN [once EXCEPT !.store[dec.field] = dec.cur] ELSE once)
       [] dec.phase \in {"done", "outOfSync"} -> dec

\* checkValid comes first: a text the scanner refuses is not decoded at all.
QueryValid(text) == FoldLeft(QueryStep, QueryReset, text).state # "error"

DecodedQuery(text) ==
  IF QueryValid(text) THEN QueryFinish(FoldLeft(QueryFeed, QueryFresh, text))
  ELSE [QueryFresh EXCEPT !.failed = TRUE]

=============================================================================
