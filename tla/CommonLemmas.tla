---------------------------- MODULE CommonLemmas ----------------------------
(* Facts about numbers and sequences that several proofs need.             *)
EXTENDS Integers, Sequences, WellFoundedInduction, SequenceTheorems, TLAPS

(* A nonempty set of naturals has a least element.                         *)
LEMMA LeastNat ==
  ASSUME NEW S, S \subseteq Nat, S # {}
  PROVE  \E x \in S : \A y \in S : x <= y
  <1> DEFINE R == {ss \in Nat \X Nat : ss[1] < ss[2]}
  <1>1. IsWellFoundedOn(R, Nat)
    BY NatLessThanWellFounded, Zenon DEF OpToRel
  <1>2. PICK x \in S : \A y \in S : <<y, x>> \notin R
    <2> HIDE DEF R
    <2> QED  BY <1>1, WFMin
  <1>3. ASSUME NEW y \in S, y < x PROVE FALSE
    <2>1. <<y, x>> \in R  BY <1>3
    <2> QED  BY <1>2, <2>1
  <1>4. \A y \in S : x <= y
    BY <1>3
  <1> QED  BY <1>4

(* A sequence without its last element.                                    *)
LEMMA ButLast ==
  ASSUME NEW S, NEW s \in Seq(S), s # << >>
  PROVE  /\ SubSeq(s, 1, Len(s) - 1) \in Seq(S)
         /\ Len(SubSeq(s, 1, Len(s) - 1)) = Len(s) - 1
         /\ \A i \in 1 .. (Len(s) - 1) : SubSeq(s, 1, Len(s) - 1)[i] = s[i]
  <1>1. Len(s) \in Nat \ {0}  BY EmptySeq
  <1>2. \A i \in 1 .. (Len(s) - 1) : s[i] \in S  BY <1>1, ElementOfSeq
  <1>3. Len(s) - 1 \in Int /\ 1 \in Int  BY <1>1
  <1>4. /\ SubSeq(s, 1, Len(s) - 1) \in Seq(S)
        /\ Len(SubSeq(s, 1, Len(s) - 1)) = IF 1 <= Len(s) - 1 THEN (Len(s) - 1) - 1 + 1 ELSE 0
        /\ \A i \in 1 .. ((Len(s) - 1) - 1 + 1) : SubSeq(s, 1, Len(s) - 1)[i] = s[1 + i - 1]
    BY <1>2, <1>3, SubSeqProperties
  <1>5. ASSUME NEW n \in Nat \ {0}
        PROVE  (n - 1) - 1 + 1 = n - 1 /\ (~(1 <= n - 1) => n - 1 = 0)
    OBVIOUS
  <1>6. ASSUME NEW i \in 1 .. (Len(s) - 1) PROVE SubSeq(s, 1, Len(s) - 1)[i] = s[i]
    <2>1. i \in 1 .. ((Len(s) - 1) - 1 + 1)  BY <1>1
    <2>2. SubSeq(s, 1, Len(s) - 1)[i] = s[1 + i - 1]  BY <2>1, <1>4
    <2>3. 1 + i - 1 = i  BY <1>1
    <2> QED BY <2>2, <2>3
  <1> QED BY <1>1, <1>4, <1>5, <1>6
=============================================================================
