-------------------------- MODULE SequentialObject --------------------------
(***************************************************************************)
(* What an S3 file opened for writing promises: the bytes handed over for  *)
(* it reach the store one after the other, as they stand in the file,      *)
(* whatever the order of the WriteAt calls; and the object appears once,   *)
(* when all of them are there, with just these bytes. A byte is named by   *)
(* its position in the file.                                               *)
(***************************************************************************)
EXTENDS Naturals, Sequences

CONSTANT NoObject

VARIABLES
  given,     \* how many bytes were handed over, from the start of the file
  received,  \* the bytes that the store has got, in the order of their arrival
  object     \* what the visible object holds, or NoObject

vars == <<given, received, object>>

Init == given = 0 /\ received = <<>> /\ object = NoObject

\* The next bytes of the file are handed over.
Give ==
  /\ object = NoObject
  /\ given' \in Nat
  /\ given' > given
  /\ UNCHANGED <<received, object>>

\* The next byte of the file arrives.
Receive ==
  /\ object = NoObject
  /\ Len(received) < given
  /\ received' = Append(received, Len(received))
  /\ UNCHANGED <<given, object>>

\* The object appears, with every byte that was handed over.
Publish ==
  /\ object = NoObject
  /\ Len(received) = given
  /\ object' = received
  /\ UNCHANGED <<given, received>>

Next == Give \/ Receive \/ Publish

Spec == Init /\ [][Next]_vars
=============================================================================
