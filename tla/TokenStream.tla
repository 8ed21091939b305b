---------------------------- MODULE TokenStream ----------------------------
(***************************************************************************)
(* The Decoder of encoding/path/stream.go over a stream whose text is      *)
(* given: what Token and Decode return and how they change the decoder.    *)
(*                                                                         *)
(*   at        the number of characters consumed, scanp                    *)
(*   state     tokenState, and stack, tokenStack                           *)
(*   err       the error that sticks, or "none"                            *)
(*   returned  the delimiters the caller has been given so far             *)
(*                                                                         *)
(* The text is in the buffer from the start. That the buffer slides and    *)
(* grows is left out: positions are positions of the text.                 *)
(***************************************************************************)
EXTENDS PathScanner, SequencesExt

NewDecoder ==
  [at |-> 0, state |-> "topValue", stack |-> <<>>, err |-> "none", returned |-> <<>>]

Unread(d, text) == SubSeq(text, d.at + 1, Len(text))

\* peek: skips spaces and answers with the next character, "eof" when none.
Skipped(d, text) ==
  LET solid == {i \in d.at..(Len(text) - 1) : text[i + 1] \notin Space}
  IN IF solid = {} THEN [d EXCEPT !.at = Len(text)]
     ELSE [d EXCEPT !.at = CHOOSE i \in solid : \A j \in solid : i <= j]

Ahead(d, text) == IF d.at = Len(text) THEN "eof" ELSE text[d.at + 1]

ValueAllowed(state) == state \in {"topValue", "arrayStart", "arrayValue", "objectValue"}

ValueEnd(state) ==
  CASE state \in {"arrayStart", "arrayValue"} -> "arrayComma"
    [] state = "objectValue"                  -> "objectComma"
    [] OTHER                                  -> state

\* The separators that Token elides, and the state behind each. No state
\* behind a separator takes another one.
Separator ==
  [arrayComma |-> ",", objectComma |-> ",", objectColon |-> ":"]
Behind ==
  [arrayComma |-> "arrayValue", objectComma |-> "objectKey", objectColon |-> "objectValue"]

PastSeparator(d, text) ==
  IF d.state \in DOMAIN Separator /\ Ahead(d, text) = Separator[d.state]
  THEN Skipped([d EXCEPT !.at = @ + 1, !.state = Behind[d.state]], text)
  ELSE d

-----------------------------------------------------------------------------
(* Decode.                                                                  *)

\* tokenPrepareForDecode: as for Token, but not from a comma of an object.
Prepared(d, text) ==
  IF d.state \in {"arrayComma", "objectColon"} THEN PastSeparator(Skipped(d, text), text)
  ELSE d

\* readValue: how the scanner comes to the end of a value. The end of the
\* stream is told to it as a space.
ValueRead(d, text) ==
  LET after(n) == FoldLeft(Step, Reset, SubSeq(Unread(d, text), 1, n)).code
      stops == {n \in 1..Len(Unread(d, text)) : after(n) \in {"end", "error"}}
      atEOF == Step(FoldLeft(Step, Reset, Unread(d, text)), " ").code
  IN IF stops # {}
     THEN LET n == CHOOSE n \in stops : \A m \in stops : n <= m
          IN [how |-> IF after(n) = "end" THEN "value" ELSE "syntax", len |-> n - 1]
     ELSE [how |-> IF atEOF = "end" THEN "value" ELSE "eof", len |-> Len(Unread(d, text))]

Decode(d, text) ==
  LET ready == Prepared(d, text)
      read  == ValueRead(ready, text)
  IN IF d.err # "none" THEN d
     ELSE IF ~ValueAllowed(ready.state) THEN ready
     ELSE IF read.how = "value"
     THEN [ready EXCEPT !.at = @ + read.len, !.state = ValueEnd(@)]
     ELSE [ready EXCEPT !.err = read.how]

-----------------------------------------------------------------------------
(* Token.                                                                   *)

Opened(d, c) ==
  [d EXCEPT !.at = @ + 1, !.stack = Append(@, d.state), !.returned = Append(@, c),
            !.state = IF c = "[" THEN "arrayStart" ELSE "objectStart"]

Closed(d, c) ==
  [d EXCEPT !.at = @ + 1, !.stack = Front(@), !.returned = Append(@, c),
            !.state = ValueEnd(Last(d.stack))]

\* The states in which each delimiter is accepted. The mutant closes an object
\* wherever something has begun.
AcceptedAnywhere(c) ==
  CASE c = "]" -> {"arrayStart", "arrayComma"}
    [] c = "}" -> {"objectStart", "objectComma", "arrayStart"}
    [] OTHER   -> {"topValue", "arrayStart", "arrayValue", "objectValue"}

Accepted(c) ==
  CASE c = "]" -> {"arrayStart", "arrayComma"}
    [] c = "}" -> {"objectStart", "objectComma"}
    [] OTHER   -> {"topValue", "arrayStart", "arrayValue", "objectValue"}

\* The key of an object is decoded as if it stood at the top.
Key(d, text) ==
  LET read == Decode([d EXCEPT !.state = "topValue"], text)
  IN [read EXCEPT !.state = IF read.err = "none" THEN "objectColon" ELSE d.state]

Token(dec, text) ==
  LET d == PastSeparator(Skipped(dec, text), text)
      c == Ahead(d, text)
  IN CASE c \in {"[", "{"} -> IF d.state \in Accepted(c) THEN Opened(d, c) ELSE d
       [] c \in {"]", "}"} -> IF d.state \in Accepted(c) THEN Closed(d, c) ELSE d
       [] c \in {":", ",", "eof"} -> d
       [] c = "\"" /\ d.state \in {"objectStart", "objectKey"} -> Key(d, text)
       [] OTHER -> IF ValueAllowed(d.state) THEN Decode(d, text) ELSE d

=============================================================================
