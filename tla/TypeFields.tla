----------------------------- MODULE TypeFields -----------------------------
(***************************************************************************)
(* typeFields of encoding/path/encode.go and of encoding/query/encode.go,  *)
(* which differ in the tag that names a field: the fields of a struct that *)
(* a path or a query is decoded into, embedded structs included. A graph   *)
(* gives each struct type the sequence of its members:                     *)
(*   [kind |-> "field", name, tagged]   a field, under its tag or its name *)
(*   [kind |-> "embed", type]           an embedded struct without a tag   *)
(* A field found is a record of its name, of whether the name is a tag,    *)
(* and of its index, the positions on the way to it. Members that are not  *)
(* exported or tagged "-" are no members.                                  *)
(***************************************************************************)
EXTENDS Naturals, FiniteSets, SequencesExt

\* One level of the search: the embedded structs to look into, how often each
\* type was queued for the level, the types seen and the fields found so far.
StartAt(type) ==
  [level |-> << [type |-> type, index |-> <<>>] >>,
   count |-> [t \in {type} |-> 0], visited |-> {}, found |-> <<>>,
   next |-> <<>>, nextCount |-> <<>>]

CountOf(count, type) == IF type \in DOMAIN count THEN count[type] ELSE 0

\* The mutant does not record a struct that stands several times.
AddFieldOnce(s, at, member, i) ==
  [s EXCEPT !.found = Append(@, [name |-> member.name, tagged |-> member.tagged,
                                 index |-> Append(at.index, i)])]

\* Records a field, twice when its struct stands several times on the level.
AddField(s, at, member, i) ==
  LET field == [name |-> member.name, tagged |-> member.tagged, index |-> Append(at.index, i)]
      copies == IF CountOf(s.count, at.type) > 1 THEN <<field, field>> ELSE <<field>>
  IN [s EXCEPT !.found = @ \o copies]

\* Queues an embedded struct for the next level, once, and counts it.
Embed(s, at, member, i) ==
  LET n == CountOf(s.nextCount, member.type) + 1
      entry == [type |-> member.type, index |-> Append(at.index, i)]
  IN [s EXCEPT !.nextCount = [t \in DOMAIN @ \union {member.type} |->
                                IF t = member.type THEN n ELSE @[t]],
               !.next = IF n = 1 THEN Append(@, entry) ELSE @]

ScanType(s, at, graph) ==
  LET member(t, i) ==
        IF graph[at.type][i].kind = "field" THEN AddField(t, at, graph[at.type][i], i)
        ELSE Embed(t, at, graph[at.type][i], i)
  IN IF at.type \in s.visited THEN s
     ELSE FoldLeft(member, [s EXCEPT !.visited = @ \union {at.type}],
                   [i \in DOMAIN graph[at.type] |-> i])

RECURSIVE Levels(_, _)
Levels(s, graph) ==
  LET scanned == FoldLeft(LAMBDA t, at : ScanType(t, at, graph), s, s.level)
  IN IF s.level = <<>> THEN s.found
     ELSE Levels([scanned EXCEPT !.level = scanned.next, !.count = scanned.nextCount,
                                 !.next = <<>>, !.nextCount = <<>>], graph)

-----------------------------------------------------------------------------
(* dominantField: of the fields with one name, the one that survives.      *)

Dominant(fields) ==
  LET top == {i \in DOMAIN fields :
                \A j \in DOMAIN fields : Len(fields[i].index) <= Len(fields[j].index)}
      tagged == {i \in top : fields[i].tagged}
      chosen == IF tagged = {} THEN top ELSE tagged
  IN IF Cardinality(chosen) = 1 THEN {fields[CHOOSE i \in chosen : TRUE]} ELSE {}

\* The fields of a type, in any order.
FieldsOf(type, graph) ==
  LET found == Levels(StartAt(type), graph)
      named(name) == SelectSeq(found, LAMBDA f : f.name = name)
  IN UNION {Dominant(named(name)) : name \in {found[i].name : i \in DOMAIN found}}

\* What a member is reached by, for reflection: typeByIndex.
RECURSIVE MemberAt(_, _, _)
MemberAt(type, index, graph) ==
  LET member == graph[type][Head(index)]
  IN IF Len(index) = 1 THEN member ELSE MemberAt(member.type, Tail(index), graph)

=============================================================================
