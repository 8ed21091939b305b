---------------------------- MODULE PathDecoder ----------------------------
(***************************************************************************)
(* path.Unmarshal of encoding/path, and what Node, Repo and Dir make of a  *)
(* path with it. A path, an element of it and a name are sequences of      *)
(* characters. Decoding is a fold: Feed takes one character, Finish is the *)
(* end of the text.                                                        *)
(*                                                                         *)
(*   scan   the scanner                                                    *)
(*   phase  "space" before the first character that counts, "parts" while  *)
(*          the elements are read, "done" after the last one               *)
(*   cur    the characters of the element being read                       *)
(*   parts  the elements, bufParts of the code                             *)
(***************************************************************************)
EXTENDS PathScanner, Integers, SequencesExt

Fresh == [scan |-> Reset, phase |-> "space", cur |-> <<>>, parts |-> <<>>]

\* The codes from scanEndPath on: the decoder takes them for the end.
EndCodes == {"skip", "end", "error"}

-----------------------------------------------------------------------------
(* path: one code that is not scanContinue closes an element.              *)

\* The mutant keeps the separators.
CloseEveryPart(dec, code) ==
  [dec EXCEPT !.parts = Append(@, dec.cur),
              !.phase = IF code \in EndCodes THEN "done" ELSE @]

\* A lone separator is no element, and its code is not looked at.
ClosePart(dec, code) ==
  IF dec.cur = <<"/">> THEN dec
  ELSE [dec EXCEPT !.parts = Append(@, dec.cur),
                   !.phase = IF code \in EndCodes THEN "done" ELSE @]

\* value skips spaces, and path starts at the first other character.
Feed(dec, c) ==
  LET scan == Step(dec.scan, c)
      next == [dec EXCEPT !.scan = scan]
  IN CASE dec.phase = "space" ->
            IF scan.code = "skip" THEN next
            ELSE [next EXCEPT !.phase = "parts", !.cur = <<c>>]
       [] dec.phase = "parts" ->
            IF scan.code = "continue" THEN [next EXCEPT !.cur = Append(@, c)]
            ELSE [ClosePart(next, scan.code) EXCEPT !.cur = <<c>>]
       [] dec.phase = "done" -> next

\* The end of the text: a separator just before it leaves an empty element,
\* for the loop asks the scanner once more.
Finish(dec) ==
  LET last == ClosePart(dec, "end")
  IN IF dec.phase # "parts" THEN [dec EXCEPT !.phase = "done"]
     ELSE IF last.phase = "done" THEN last
     ELSE ClosePart([last EXCEPT !.cur = <<>>], "end")

Elements(text) == Finish(FoldLeft(Feed, Fresh, text)).parts

\* checkValid: no step of the scanner is an error.
Valid(text) == FoldLeft(Step, Reset, text).state # "error"

-----------------------------------------------------------------------------
(* Index: an expression is a sum of differences, and a difference is taken *)
(* from the right. An operand is a number, "first" or "last".              *)

MaxInt16 == 32767

Number(n) == [word |-> "", n |-> n]
Word(w) == [word |-> w, n |-> 0]

\* What ParseInt makes of an operand: "first" is replaced by a character that
\* is no digit, for which it answers 0.
Operand(x, length) ==
  LET n == IF x.word = "last" THEN length ELSE x.n
  IN IF n > MaxInt16 THEN MaxInt16 ELSE n

Difference(xs, length) ==
  FoldRight(LAMBDA x, rest : Operand(x, length) - rest, xs, 0)

Eval(terms, length) ==
  FoldLeft(LAMBDA sum, xs : sum + Difference(xs, length), 0, terms)

At(n) == << <<Number(n)>> >>
TheFirst == << <<Word("first")>> >>
TheLast == << <<Word("last")>> >>
BeforeLast == << <<Word("last"), Number(1)>> >>

\* bufParts[start:end] of a field's tag: Go panics unless start <= end <= len.
InRange(parts, from, to) ==
  /\ 0 <= Eval(from, Len(parts))
  /\ Eval(from, Len(parts)) <= Eval(to, Len(parts))
  /\ Eval(to, Len(parts)) <= Len(parts)

Slice(parts, from, to) ==
  SubSeq(parts, Eval(from, Len(parts)) + 1, Eval(to, Len(parts)))

Joined(parts) ==
  IF parts = <<>> THEN <<>>
  ELSE FoldLeft(LAMBDA text, part : text \o <<"/">> \o part, Head(parts), Tail(parts))

-----------------------------------------------------------------------------
(* Repo, Dir, Node and the query of a node job. A field is given the      *)
(* elements of its tag, joined again, and decodes that text.               *)

NoName == <<>>

Field(parts, from, to) == Joined(Slice(parts, from, to))

RepoOf(text) ==
  LET parts == Elements(text)
  IN IF parts = <<>> THEN NoName ELSE Field(parts, At(0), At(1))

\* A Dir is the names from the root down to its own.
RECURSIVE DirOf(_)
DirOf(text) ==
  LET parts  == Elements(text)
      parent == DirOf(Field(parts, TheFirst, BeforeLast))
      name   == Field(parts, BeforeLast, TheLast)
      above  == IF parent[Len(parent)] = NoName THEN <<>> ELSE parent
  IN IF parts = <<>> THEN <<NoName>>
     ELSE IF above # <<>> /\ name = NoName THEN above
     ELSE Append(above, name)

EmptyNode == [repo |-> NoName, dir |-> <<>>, name |-> NoName]

\* The outcome of decoding a Node: an error of the scanner, a panic of the
\* slice of Dir, or the value.
NodeOf(text) ==
  LET parts == Elements(text)
  IN IF ~Valid(text) THEN [outcome |-> "error"]
     ELSE IF parts = <<>> THEN [outcome |-> "ok", node |-> EmptyNode]
     ELSE IF ~InRange(parts, At(1), BeforeLast) THEN [outcome |-> "panic"]
     ELSE [outcome |-> "ok",
           node |-> [repo |-> RepoOf(Field(parts, At(0), At(1))),
                     dir  |-> DirOf(Field(parts, At(1), BeforeLast)),
                     name |-> Field(parts, BeforeLast, TheLast)]]

\* The path of a request: an action and a node.
RequestOf(text) ==
  LET parts == Elements(text)
  IN IF ~Valid(text) THEN [outcome |-> "error"]
     ELSE IF parts = <<>> THEN [outcome |-> "ok", node |-> EmptyNode]
     ELSE NodeOf(Field(parts, At(1), TheLast))

=============================================================================
