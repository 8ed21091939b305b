---------------------------- MODULE PathScanner ----------------------------
(***************************************************************************)
(* The scanner of encoding/path: a state machine that takes one character  *)
(* at a time and answers with a code. The text of a path is a sequence of  *)
(* characters; "nl" stands for a newline.                                  *)
(*                                                                         *)
(* A scanner is its state function, the height of its stack and the code   *)
(* of its last step. The elements of the stack are never read.             *)
(***************************************************************************)
EXTENDS Naturals, Sequences

Space == {" ", "nl"}
Control == {"nl"}
Separators == {"/", "?", "&"}
Hex == {"0", "a", "b", "f"}
Escapes == {"b", "f", "n", "r", "t", "\\", "/", "\"", "?", "&"}

\* The states behind a backslash and the ones that follow a hexadecimal digit.
AfterHex == [inU |-> "inU1", inU1 |-> "inU12", inU12 |-> "inU123", inU123 |-> "inString"]

ScannerStates ==
  {"beginValue", "beginPathOrEmpty", "inString", "inEscape", "end", "error"}
  \union DOMAIN AfterHex

Codes == {"continue", "literal", "path", "skip", "end", "error"}

\* The scanner goes to a state and answers with a code.
To(s, state, code) == [s EXCEPT !.state = state, !.code = code]

Reset == [state |-> "beginValue", depth |-> 1, code |-> "continue"]

Pop(s) ==
  LET depth == IF s.depth = 0 THEN 0 ELSE s.depth - 1
  IN [s EXCEPT !.depth = depth, !.state = IF depth = 0 THEN "end" ELSE @]

-----------------------------------------------------------------------------
(* The state functions.                                                     *)

BeginValue(s, c) ==
  IF c \in Space THEN To(s, s.state, "skip")
  ELSE IF c = "/"
  THEN [To(s, "beginPathOrEmpty", "path") EXCEPT !.depth = @ + 1]
  ELSE To(s, "inString", "literal")

EndPathValue(s, c) == BeginValue(Pop(s), c)

BeginPathOrEmpty(s, c) ==
  IF c \in Space THEN To(s, s.state, "skip")
  ELSE IF c \in Separators THEN EndPathValue(s, c)
  ELSE To(s, "inString", "literal")

InString(s, c) ==
  IF c \in Separators THEN EndPathValue(s, c)
  ELSE IF c = "\\" THEN To(s, "inEscape", "continue")
  ELSE IF c \in Control THEN To(s, "error", "error")
  ELSE To(s, "inString", "continue")

InEscape(s, c) ==
  IF c \in Escapes THEN To(s, "inString", "continue")
  ELSE IF c = "u" THEN To(s, "inU", "continue")
  ELSE To(s, "error", "error")

InHex(s, c) ==
  IF c \in Hex THEN To(s, AfterHex[s.state], "continue")
  ELSE To(s, "error", "error")

Step(s, c) ==
  CASE s.state = "beginValue"       -> BeginValue(s, c)
    [] s.state = "beginPathOrEmpty" -> BeginPathOrEmpty(s, c)
    [] s.state = "inString"         -> InString(s, c)
    [] s.state = "inEscape"         -> InEscape(s, c)
    [] s.state \in DOMAIN AfterHex  -> InHex(s, c)
    [] s.state = "end"              -> To(s, "end", "end")
    [] s.state = "error"            -> To(s, "error", "error")

\* The end of the text, which may be told several times.
EOF(s) ==
  IF s.state = "error" THEN To(s, "error", "error")
  ELSE [Pop(s) EXCEPT !.code = "end"]

=============================================================================
