---------------------------- MODULE QueryScanner ----------------------------
(***************************************************************************)
(* The scanner of encoding/query. It differs from the scanner of paths in  *)
(* the elements of its stack, which it reads, and in its codes. It runs    *)
(* into the end of its stack, a panic of Go, when it pops the last element *)
(* twice: the state "crashed".                                             *)
(***************************************************************************)
EXTENDS Sequences, SequencesExt

Path == INSTANCE PathScanner

QueryReset == [state |-> "beginValue", stack |-> <<"uri">>, code |-> "continue"]

Goto(s, state, code) == [s EXCEPT !.state = state, !.code = code]

PushAll(s, elements) == [s EXCEPT !.stack = @ \o elements]

PopOne(s) ==
  IF s.stack = <<>> THEN [s EXCEPT !.state = "crashed"]
  ELSE [s EXCEPT !.stack = Front(@), !.state = IF Len(s.stack) = 1 THEN "end" ELSE @]

-----------------------------------------------------------------------------
(* The state functions.                                                     *)

QueryBeginValue(s, c) ==
  IF c \in Path!Space THEN Goto(s, s.state, "skip")
  ELSE IF c = "?" THEN PushAll(Goto(s, "beginQueryOrEmpty", "query"), <<"query", "key">>)
  ELSE IF c = "&" THEN PushAll(Goto(s, "beginQueryOrEmpty", "param"), <<"key">>)
  ELSE Goto(s, "inString", "literal")

\* The end of a key or a value. An '=' turns the key on the stack into a value.
EndQueryValue(s, c) ==
  IF s.stack = <<>> THEN Goto(s, "crashed", "error")
  ELSE IF Last(s.stack) = "key" /\ c = "="
  THEN [Goto(s, "beginValue", "paramKey") EXCEPT !.stack = Append(Front(@), "value")]
  ELSE IF Last(s.stack) = "value" THEN QueryBeginValue(PopOne(s), c)
  ELSE QueryBeginValue(s, c)

BeginQueryOrEmpty(s, c) ==
  IF c \in Path!Space THEN Goto(s, s.state, "skip")
  ELSE IF c \in {"=", "&"} THEN EndQueryValue(s, c)
  ELSE Goto(s, "inString", "literal")

\* The mutant ends a value at a '?', as the scanner of paths does.
QueryInStringAsPath(s, c) ==
  IF c \in {"=", "&", "?"} THEN EndQueryValue(s, c)
  ELSE IF c = "\\" THEN Goto(s, "inEscape", "continue")
  ELSE IF c \in Path!Control THEN Goto(s, "error", "error")
  ELSE Goto(s, "inString", "continue")

QueryInString(s, c) ==
  IF c \in {"=", "&"} THEN EndQueryValue(s, c)
  ELSE IF c = "\\" THEN Goto(s, "inEscape", "continue")
  ELSE IF c \in Path!Control THEN Goto(s, "error", "error")
  ELSE Goto(s, "inString", "continue")

QueryInEscape(s, c) ==
  IF c \in {"?", "&"} THEN Goto(s, "error", "error") ELSE Path!InEscape(s, c)

QueryStep(s, c) ==
  CASE s.state = "beginValue"            -> QueryBeginValue(s, c)
    [] s.state = "beginQueryOrEmpty"     -> BeginQueryOrEmpty(s, c)
    [] s.state = "inString"              -> QueryInString(s, c)
    [] s.state = "inEscape"              -> QueryInEscape(s, c)
    [] s.state \in DOMAIN Path!AfterHex  -> Path!InHex(s, c)
    [] s.state = "end"                   -> Goto(s, "end", "end")
    [] s.state \in {"error", "crashed"}  -> s

QueryEOF(s) ==
  IF s.state \in {"error", "crashed"} THEN s ELSE [PopOne(s) EXCEPT !.code = "end"]

=============================================================================
