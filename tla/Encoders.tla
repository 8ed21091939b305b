------------------------------ MODULE Encoders ------------------------------
(***************************************************************************)
(* The cache of encoders in encoding/path/encode.go, with goroutines that  *)
(* marshal values of types that may contain themselves. The first to ask   *)
(* for a type puts an indirect encoder into the cache, which waits for the *)
(* real one when it is called, and builds the real one out of the encoders *)
(* of the type's elements. Nothing is locked in between, so that several   *)
(* goroutines may build the encoder of one type.                           *)
(*                                                                         *)
(* An encoder is <<g, t>>, for g builds the one of t at most once. What a  *)
(* goroutine has to encode is a sequence of jobs: [kind |-> "value", type, *)
(* depth] is a value whose encoder it must ask for, [kind |-> "call",      *)
(* encoder, depth] one with an encoder from the cache. The depth of a      *)
(* value is the number of pointers and interfaces down to the nil ones.    *)
(***************************************************************************)
EXTENDS Naturals, Sequences, FiniteSets

CONSTANTS
  Goroutines,   \* The callers of Encode,
  Types,        \* the types of their values,
  Elements,     \* of each type the types of its elements, in order,
  Nilable,      \* the types whose values may be nil, pointers and interfaces,
  Dynamic,      \* the interfaces among them: the value tells its type,
  Unsupported,  \* and the types that cannot be encoded.
  Marshalled,   \* The type each goroutine marshals a value of,
  Depth         \* and the depth of the values.

ASSUME EncodersAssumption ==
  /\ Elements \in [Types -> Seq(Types)]
  /\ Dynamic \subseteq Nilable /\ Nilable \subseteq Types /\ Unsupported \subseteq Types
  /\ Marshalled \in [Goroutines -> Types]
  /\ Depth \in Nat

VARIABLES
  cache,    \* The encoder the cache has of each type, or None.
  ready,    \* The encoders that are built, wg.Done called.
  made,     \* Of each encoder the ones of its elements, once it is built.
  frames,   \* For each goroutine, the types it is building, innermost last.
  missed,   \* The goroutines that found the cache empty.
  todo,     \* What each goroutine has to encode.
  outcome   \* "running", "ok", or "error" of each goroutine.

vars == <<cache, ready, made, frames, missed, todo, outcome>>

None == <<>>
Indirect(e) == [indirect |-> TRUE, of |-> e]
Direct(e) == [indirect |-> FALSE, of |-> e]

Push(s, x) == Append(s, x)
Top(s) == s[Len(s)]
Pop(s) == SubSeq(s, 1, Len(s) - 1)

\* The elements whose encoders are built in, an interface has none.
StaticElements(t) == IF t \in Dynamic THEN <<>> ELSE Elements[t]

Init ==
  /\ cache = [t \in Types |-> None]
  /\ ready = {}
  /\ made = [e \in Goroutines \X Types |-> None]
  /\ frames = [g \in Goroutines |-> <<>>]
  /\ missed = {}
  /\ todo = [g \in Goroutines |->
               << [kind |-> "value", type |-> Marshalled[g], depth |-> Depth] >>]
  /\ outcome = [g \in Goroutines |-> "running"]

-----------------------------------------------------------------------------
(* typeEncoder.                                                             *)

Complete(frame) == Len(frame.encoders) = Len(StaticElements(frame.type))

Asks(g) ==
  /\ outcome[g] = "running"
  /\ IF frames[g] # <<>> THEN ~Complete(Top(frames[g]))
     ELSE todo[g] # <<>> /\ Head(todo[g]).kind = "value"

Asked(g) ==
  IF frames[g] # <<>>
  THEN StaticElements(Top(frames[g]).type)[Len(Top(frames[g]).encoders) + 1]
  ELSE Head(todo[g]).type

\* typeEncoder returns an encoder to what asked for it, below the given frames.
Answer(g, fs, encoder) ==
  IF fs # <<>>
  THEN /\ frames' = [frames EXCEPT ![g] =
                       Push(Pop(fs), [Top(fs) EXCEPT !.encoders = Append(@, encoder)])]
       /\ UNCHANGED todo
  ELSE /\ frames' = [frames EXCEPT ![g] = <<>>]
       /\ todo' = [todo EXCEPT ![g][1] =
                     [kind |-> "call", encoder |-> encoder, depth |-> @.depth]]

\* The mutant waits for an indirect encoder before it takes it.
HitWhenReady(g) ==
  /\ Asks(g)
  /\ g \notin missed
  /\ cache[Asked(g)] # None
  /\ cache[Asked(g)].of \in ready
  /\ Answer(g, frames[g], cache[Asked(g)])
  /\ UNCHANGED <<cache, ready, made, missed, outcome>>

\* The cache is read under its read lock.
Hit(g) ==
  /\ Asks(g)
  /\ g \notin missed
  /\ cache[Asked(g)] # None
  /\ Answer(g, frames[g], cache[Asked(g)])
  /\ UNCHANGED <<cache, ready, made, missed, outcome>>

Miss(g) ==
  /\ Asks(g)
  /\ g \notin missed
  /\ cache[Asked(g)] = None
  /\ missed' = missed \union {g}
  /\ UNCHANGED <<cache, ready, made, frames, todo, outcome>>

\* Under the lock, whatever another goroutine has put there meanwhile.
Install(g) ==
  /\ g \in missed
  /\ missed' = missed \ {g}
  /\ cache' = [cache EXCEPT ![Asked(g)] = Indirect(<<g, Asked(g)>>)]
  /\ frames' = [frames EXCEPT ![g] = Push(@, [type |-> Asked(g), encoders |-> <<>>])]
  /\ UNCHANGED <<ready, made, todo, outcome>>

Building(g) == IF frames[g] = <<>> THEN None ELSE <<g, Top(frames[g]).type>>

Built(g) ==
  /\ frames[g] # <<>>
  /\ Complete(Top(frames[g]))
  /\ Building(g) \notin ready
  /\ made' = [made EXCEPT ![Building(g)] = Top(frames[g]).encoders]
  /\ ready' = ready \union {Building(g)}
  /\ UNCHANGED <<cache, frames, missed, todo, outcome>>

Store(g) ==
  /\ Building(g) \in ready
  /\ cache' = [cache EXCEPT ![Top(frames[g]).type] = Direct(Building(g))]
  /\ Answer(g, Pop(frames[g]), Direct(Building(g)))
  /\ UNCHANGED <<ready, made, missed, outcome>>

-----------------------------------------------------------------------------
(* The encoders at work.                                                    *)

\* The jobs that a value leaves: its elements, none when it is nil.
Below(e, depth) ==
  LET t == e[2]
      d == IF t \in Nilable THEN depth - 1 ELSE depth
  IN IF t \in Nilable /\ depth = 0 THEN <<>>
     ELSE IF t \in Dynamic
     THEN [i \in DOMAIN Elements[t] |-> [kind |-> "value", type |-> Elements[t][i], depth |-> d]]
     ELSE [i \in DOMAIN made[e] |-> [kind |-> "call", encoder |-> made[e][i], depth |-> d]]

Calls(g) == outcome[g] = "running" /\ todo[g] # <<>> /\ Head(todo[g]).kind = "call"

\* An indirect encoder waits for the real one.
Call(g) ==
  /\ Calls(g)
  /\ Head(todo[g]).encoder.indirect => Head(todo[g]).encoder.of \in ready
  /\ LET e == Head(todo[g]).encoder.of
     IN IF e[2] \in Unsupported
        THEN /\ todo' = [todo EXCEPT ![g] = <<>>]
             /\ outcome' = [outcome EXCEPT ![g] = "error"]
        ELSE /\ todo' = [todo EXCEPT ![g] = Below(e, Head(@).depth) \o Tail(@)]
             /\ UNCHANGED outcome
  /\ UNCHANGED <<cache, ready, made, frames, missed>>

Return(g) ==
  /\ outcome[g] = "running"
  /\ todo[g] = <<>>
  /\ outcome' = [outcome EXCEPT ![g] = "ok"]
  /\ UNCHANGED <<cache, ready, made, frames, missed, todo>>

Step(g) ==
  \/ Hit(g)
  \/ Miss(g)
  \/ Install(g)
  \/ Built(g)
  \/ Store(g)
  \/ Call(g)
  \/ Return(g)

Next == \E g \in Goroutines : Step(g)

\* A goroutine that is not blocked is scheduled.
FairSpec == Init /\ [][Next]_vars /\ \A g \in Goroutines : WF_vars(Step(g))

-----------------------------------------------------------------------------
\* The types in a value of a type and a depth.
RECURSIVE Holds(_, _)
Holds(t, depth) ==
  IF t \in Nilable /\ depth = 0 THEN {t}
  ELSE {t} \union UNION {Holds(Elements[t][i], IF t \in Nilable THEN depth - 1 ELSE depth) :
                           i \in DOMAIN Elements[t]}

\* Every marshal comes back, also of a type that contains itself and also when
\* several goroutines build the same encoders at the same time: an indirect
\* encoder is called only when its goroutine is going to build the real one
\* without waiting for anybody. It fails exactly when the value holds one that
\* cannot be encoded.
EncodesReturn ==
  \A g \in Goroutines :
    <>[](outcome[g] = IF Holds(Marshalled[g], Depth) \cap Unsupported # {}
                      THEN "error" ELSE "ok")

=============================================================================
