------------------------------ MODULE KeyFold ------------------------------
(***************************************************************************)
(* How query.Unmarshal finds the field of a key, encoding/query/fold.go.   *)
(* Names of fields and keys are sequences of code points, kept in UTF-8.   *)
(* Each field has one of four functions that compare its name s with a key *)
(* t without regard to case, the cheapest one that is right for its name.  *)
(***************************************************************************)
EXTENDS Naturals, Sequences, SequencesExt

RuneSelf == 128
Kelvin == 8490
SmallLongEss == 383

\* The bytes of a code point.
UTF8(r) ==
  IF r < RuneSelf THEN <<r>>
  ELSE IF r < 2048 THEN <<192 + r \div 64, 128 + (r % 64)>>
  ELSE <<224 + r \div 4096, 128 + ((r \div 64) % 64), 128 + (r % 64)>>

Bytes(t) == FlattenSeq([i \in DOMAIN t |-> UTF8(t[i])])

\* b without the bit that tells the case.
Masked(b) == IF (b \div 32) % 2 = 1 THEN b - 32 ELSE b

IsLetter(b) == Masked(b) \in 65..90
IsSpecial(b) == Masked(b) \in {75, 83}   \* K and S have a third form each.

-----------------------------------------------------------------------------
(* bytes.EqualFold, for the letters of ASCII and Latin-1 and the two that  *)
(* have an ASCII letter for another case.                                  *)

Lower(r) ==
  CASE r \in (65..90) \union ((192..222) \ {215}) -> r + 32
    [] r = Kelvin       -> 107
    [] r = SmallLongEss -> 115
    [] OTHER            -> r

EqualFold(s, t) ==
  Len(s) = Len(t) /\ \A i \in DOMAIN s : Lower(s[i]) = Lower(t[i])

-----------------------------------------------------------------------------

SameRune(sb, tr) ==
  IF tr < RuneSelf THEN sb = tr \/ (IsLetter(sb) /\ Masked(sb) = Masked(tr))
  ELSE \/ Masked(sb) = 83 /\ tr = SmallLongEss
       \/ Masked(sb) = 75 /\ tr = Kelvin

EqualFoldRight(s, t) ==
  Len(s) = Len(t) /\ \A i \in DOMAIN s : SameRune(s[i], t[i])

AsciiEqualFold(s, t) ==
  LET b == Bytes(t)
  IN /\ Len(s) = Len(b)
     /\ \A i \in DOMAIN s :
          s[i] = b[i] \/ (IsLetter(s[i]) /\ Masked(s[i]) = Masked(b[i]))

SimpleLetterEqualFold(s, t) ==
  LET b == Bytes(t)
  IN Len(s) = Len(b) /\ \A i \in DOMAIN s : Masked(s[i]) = Masked(b[i])

\* What foldFunc(s) returns, applied to s and t.
FoldFunc(s, t) ==
  IF \E i \in DOMAIN s : s[i] >= RuneSelf THEN EqualFold(s, t)
  ELSE IF \E i \in DOMAIN s : IsSpecial(s[i]) THEN EqualFoldRight(s, t)
  ELSE IF \E i \in DOMAIN s : ~IsLetter(s[i]) THEN AsciiEqualFold(s, t)
  ELSE SimpleLetterEqualFold(s, t)

NoField == 0

\* The number of the field that a key is decoded into: the one of its name,
\* or else the first one whose function says so.
FieldOfKey(names, key) ==
  LET exact == {i \in DOMAIN names : names[i] = key}
      folds == {i \in DOMAIN names : FoldFunc(names[i], key)}
      first(S) == CHOOSE i \in S : \A j \in S : i <= j
  IN IF exact # {} THEN first(exact)
     ELSE IF folds # {} THEN first(folds)
     ELSE NoField

=============================================================================
