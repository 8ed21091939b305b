------------------------------ MODULE Decoding ------------------------------
(***************************************************************************)
(* The two encodings at work: somebody writes a text character by          *)
(* character, and the program decodes what has been written so far as a    *)
(* path or as a query, or reads it as a stream of tokens, one call after   *)
(* the other. Besides, the fields of a struct are looked for, and the      *)
(* field of a key.                                                         *)
(*                                                                         *)
(*   format   what the text is decoded as, with "key", or "fields"         *)
(*   text     the characters written so far                                *)
(*   written  the writer of a stream has closed it                         *)
(*   stream   the Decoder of a stream                                      *)
(*   graph    the struct types, for "fields"                               *)
(***************************************************************************)
EXTENDS TypeFields

CONSTANTS
  Letters,       \* For each format, the characters of its texts,
  OddLetters,    \* and the ones of them that count twice,
  MaxWeight,     \* in the bound on the length of its texts.
  StringFields,
  PointerFields,
  Graphs,        \* The struct types whose fields are looked for,
  TopType,       \* and the type that is decoded into.
  FieldNames     \* The names of fields among which a key finds its own.

VARIABLES format, text, written, stream, graph

vars == <<format, text, written, stream, graph>>

Paths == INSTANCE PathDecoder
Queries == INSTANCE QueryDecoder
Tokens == INSTANCE TokenStream
Keys == INSTANCE KeyFold

TextFormats == {"path", "query", "stream", "key"}

Weight(t) == Len(t) + Cardinality({i \in DOMAIN t : t[i] \in OddLetters[format]})

Init ==
  /\ format \in TextFormats \union {"fields"}
  /\ text = <<>>
  /\ written = FALSE
  /\ stream = Tokens!NewDecoder
  /\ graph \in IF format = "fields" THEN Graphs ELSE {<<>>}

Write(c) ==
  /\ ~written
  /\ Weight(Append(text, c)) <= MaxWeight[format]
  /\ text' = Append(text, c)
  /\ UNCHANGED <<format, written, stream, graph>>

Close ==
  /\ format = "stream"
  /\ ~written
  /\ written' = TRUE
  /\ UNCHANGED <<format, text, stream, graph>>

CallToken ==
  /\ written
  /\ stream' = Tokens!Token(stream, text)
  /\ UNCHANGED <<format, text, written, graph>>

CallDecode ==
  /\ written
  /\ stream' = Tokens!Decode(stream, text)
  /\ UNCHANGED <<format, text, written, graph>>

Next ==
  \/ \E c \in IF format \in TextFormats THEN Letters[format] ELSE {} : Write(c)
  \/ Close
  \/ CallToken
  \/ CallDecode

Spec == Init /\ [][Next]_vars

-----------------------------------------------------------------------------
(* A text cut at a separator, the reference for both encodings.            *)

Pieces(t, separator) ==
  LET isCut(i) == i \in {0, Len(t) + 1} \/ t[i] = separator
      cuts == SelectSeq([i \in 1..(Len(t) + 2) |-> i - 1], isCut)
  IN [k \in 1..(Len(cuts) - 1) |-> SubSeq(t, cuts[k] + 1, cuts[k + 1] - 1)]

Words(t) ==
  LET words == SelectSeq(Pieces(t, "/"), LAMBDA word : word # <<>>)
  IN IF t # <<>> /\ Last(t) = "/" THEN Append(words, <<>>) ELSE words

\* A path without the characters that mean something else, and without a space
\* at its start or behind a slash, where the scanner takes it for no part of an
\* element.
Plain(t) ==
  \A i \in DOMAIN t :
    /\ t[i] \notin {"?", "&", "\\", "nl"}
    /\ t[i] = " " => i > 1 /\ t[i - 1] # "/"

\* The node that the elements of a request's path name: the first one is the
\* action, and a single one behind it makes the decoder run out of bounds.
NodeOfWords(words) ==
  LET node == Tail(words)
      dirs == SubSeq(node, 2, Len(node) - 1)
  IN IF words = <<>> \/ node \in {<<>>, << <<>> >>}
     THEN [outcome |-> "ok", node |-> Paths!EmptyNode]
     ELSE IF Len(node) = 1 THEN [outcome |-> "panic"]
     ELSE [outcome |-> "ok",
           node |-> [repo |-> Head(node), name |-> Last(node),
                     dir |-> IF dirs = <<>> THEN <<Paths!NoName>> ELSE dirs]]

\* A space behind a slash: the element there is cut behind it.
SpaceBegins(elements) ==
  \E i \in DOMAIN elements : elements[i] # <<>> /\ Head(elements[i]) = " "

\* A node job decodes the elements of the request's path, whatever the slashes
\* between them, to the repository, the directories and the name they stand
\* for; each of them is joined and scanned again, which must not change it, and
\* does not unless an element begins with a space: the directory of "/a/r/ d/n"
\* is joined to " /d", of which the second scan leaves "d". Of the other valid
\* paths only one with an action and one element fails: it panics.
NodeIsThePath ==
  format = "path" =>
    /\ Plain(text) => Paths!Elements(text) = Words(text)
    /\ Paths!Valid(text) /\ ~SpaceBegins(Paths!Elements(text)) =>
         Paths!RequestOf(text) = NodeOfWords(Paths!Elements(text))

-----------------------------------------------------------------------------

IsParam(p) ==
  /\ Len(p) > 2
  /\ p[1] \in Queries!KnownFields
  /\ p[2] = "="
  /\ \A i \in 3..Len(p) : p[i] # "="
  /\ p[3] # "?"
  /\ p[1] \in PointerFields => p[3] # "n"

\* What the parameters of a query say of a field: its last value.
LastValue(params, f) ==
  LET of == SelectSeq(params, LAMBDA p : p[1] = f)
  IN IF of = <<>> THEN Queries!Unset ELSE SubSeq(Last(of), 3, Len(Last(of)))

\* Decoding a query of fields the struct has, each with a value, gives every
\* field its last value, and neither fails nor comes out of step with the
\* scanner. Only a text that begins with '&' and has a value with an '=' in it
\* can make the scanner run out of its stack, a panic, as "&p=v==" does.
QueryIsItsParams ==
  format = "query" =>
    LET query  == Queries!DecodedQuery(text)
        params == Pieces(Tail(text), "&")
    IN /\ query.scan.state = "crashed" =>
            /\ Head(text) = "&"
            /\ \E k \in DOMAIN params : Cardinality({i \in DOMAIN params[k] : params[k][i] = "="}) > 1
       /\ (/\ text # <<>>
           /\ Head(text) \in {"?", "&"}
           /\ \A k \in DOMAIN params : IsParam(params[k])) =>
            /\ query.phase = "done"
            /\ ~query.failed
            /\ \A f \in Queries!KnownFields : query.store[f] = LastValue(params, f)

-----------------------------------------------------------------------------

Opens == {"[", "{"}
Matches(open, c) == <<open, c>> \in {<<"[", "]">>, <<"{", "}">>}

\* What is open after the delimiters returned; "bad" when one does not match.
OpenAfter(returned) ==
  LET put(open, c) ==
        IF c \in Opens THEN Append(open, c)
        ELSE IF open # <<>> /\ Matches(Last(open), c) THEN Front(open)
        ELSE <<"bad">>
  IN FoldLeft(put, <<>>, returned)

\* The delimiters that Token returns are nested and matched, as stream.go:325
\* promises, whatever the text and whatever Decode is called in between, and
\* the decoder remembers as many open ones as its caller has seen.
TokensNested ==
  /\ "bad" \notin {OpenAfter(stream.returned)[i] : i \in DOMAIN OpenAfter(stream.returned)}
  /\ Len(stream.stack) = Len(OpenAfter(stream.returned))

-----------------------------------------------------------------------------
(* Go's rule for the fields of embedded structs, over every way from the   *)
(* type to a field. A way through one type twice is longer than the way    *)
(* that leaves the loop out, and never counts.                             *)

RECURSIVE Ways(_, _)
Ways(type, seen) ==
  LET embedded == {i \in DOMAIN graph[type] :
                     graph[type][i].kind = "embed" /\ graph[type][i].type \notin seen}
  IN {<<i>> : i \in DOMAIN graph[type]} \union
     UNION {{<<i>> \o way : way \in Ways(graph[type][i].type, seen \union {graph[type][i].type})} :
              i \in embedded}

AllWays == Ways(TopType, {TopType})

FieldAt(way) ==
  LET member == MemberAt(TopType, way, graph)
  IN [name |-> member.name, tagged |-> member.tagged, index |-> way]

GoFields ==
  LET fields == {FieldAt(w) : w \in {v \in AllWays : MemberAt(TopType, v, graph).kind = "field"}}
      top(name) ==
        {f \in fields : /\ f.name = name
                        /\ \A g \in fields : g.name = name => Len(f.index) <= Len(g.index)}
      chosen(name) ==
        IF \E f \in top(name) : f.tagged THEN {f \in top(name) : f.tagged} ELSE top(name)
  IN {f \in fields : chosen(f.name) = {f}}

\* A struct that embeds another one is itself embedded twice at one depth.
TwiceEmbedded ==
  \E v, w \in AllWays :
    LET a == MemberAt(TopType, v, graph) b == MemberAt(TopType, w, graph)
    IN /\ v # w
       /\ Len(v) = Len(w)
       /\ a.kind = "embed"
       /\ b.kind = "embed"
       /\ a.type = b.type
       /\ \E i \in DOMAIN graph[a.type] : graph[a.type][i].kind = "embed"

\* The field of a key by its letters: the one with this name, or else the
\* first one whose name differs from it in case only.
GoFieldOfKey(key) ==
  LET same == {i \in DOMAIN FieldNames : Keys!EqualFold(FieldNames[i], key)}
      exact == {i \in same : FieldNames[i] = key}
      candidates == IF exact # {} THEN exact ELSE same
  IN IF candidates = {} THEN Keys!NoField
     ELSE CHOOSE i \in candidates : \A j \in candidates : i <= j

\* The fields decoded into are the ones Go's rules for embedded structs leave
\* visible, tags before names. A struct below one that is embedded twice is
\* counted once only: there a field that Go calls ambiguous is decoded into.
\* A key finds the field of its name in any case, whichever of the shortcuts
\* for comparing them its name allows.
FieldsAsGo ==
  /\ format = "fields" =>
       /\ GoFields \subseteq FieldsOf(TopType, graph)
       /\ ~TwiceEmbedded => FieldsOf(TopType, graph) = GoFields
  /\ format = "key" => Keys!FieldOfKey(FieldNames, text) = GoFieldOfKey(text)

=============================================================================
