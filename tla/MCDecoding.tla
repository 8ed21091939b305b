----------------------------- MODULE MCDecoding -----------------------------
(* Short texts over a few characters for each format, and every graph of   *)
(* five struct types with one name and at most three members a type. Keys  *)
(* are code points, the ones whose case is odd or that look like a letter. *)
EXTENDS Decoding

MCLetters ==
  [path   |-> {"a", "b", "/", " ", "?", "\\"},
   query  |-> {"?", "&", "=", "f", "p", "n"},
   stream |-> {"[", "]", "{", "}", ",", ":", "\"", " ", "nl"},
   key    |-> {97, 65, 107, 115, 83, 8490, 383, 91, 123, 233, 201}]
MCOddLetters ==
  [path   |-> {" ", "?", "\\"},
   query  |-> {"?", "n"},
   stream |-> {":", "\"", " ", "nl"},
   key    |-> {}]
MCMaxWeight == [path |-> 8, query |-> 8, stream |-> 5, key |-> 3]
MCStringFields == {"f"}
MCPointerFields == {"p"}
\* as, aS, aA, [A, k[, and one that is not ASCII.
MCFieldNames == << <<97, 115>>, <<97, 83>>, <<97, 65>>, <<91, 65>>, <<107, 91>>, <<233>> >>

Plainly == [kind |-> "field", name |-> "a", tagged |-> FALSE]
Tagged == [kind |-> "field", name |-> "a", tagged |-> TRUE]
Embedded(type) == [kind |-> "embed", type |-> type]

Maybe(member) == {<<>>, <<member>>}
AnyField == {<<>>, <<Plainly>>, <<Tagged>>}

MCGraphs ==
  {<<f1 \o e2 \o e3, f2 \o e4, f3 \o e5, f4 \o e6 \o e7, f5>> :
     f1 \in Maybe(Plainly), e2 \in Maybe(Embedded(2)), e3 \in Maybe(Embedded(3)),
     f2 \in AnyField, e4 \in Maybe(Embedded(4)),
     f3 \in AnyField, e5 \in Maybe(Embedded(4)),
     f4 \in Maybe(Plainly), e6 \in Maybe(Embedded(5)), e7 \in Maybe(Embedded(2)),
     f5 \in AnyField}
=============================================================================
