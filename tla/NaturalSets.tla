---------------------------- MODULE NaturalSets ----------------------------
(***************************************************************************)
(* Induction over the natural numbers, on sets.  The library's schemes     *)
(* take the induction hypothesis as an operator, which no prover here can  *)
(* instantiate; a set does as well.  The recursive functions of the models *)
(* are reasoned about with these two lemmas.                               *)
(***************************************************************************)
EXTENDS Integers, TLAPS, WellFoundedInduction

(* Every nonempty set of naturals has a least element; with it induction   *)
(* is done on a set, the library's schemes being out of the provers' reach.*)
LEMMA NatLessThan ==
  \E R : IsWellFoundedOn(R, Nat) /\ \A x, y \in Nat : y < x => <<y, x>> \in R
PROOF
<1> DEFINE R == OpToRel(<, Nat)
<1>1. IsWellFoundedOn(R, Nat)
  BY NatLessThanWellFounded
<1>2. \A x, y \in Nat : y < x => <<y, x>> \in R
  BY Zenon DEF OpToRel
<1> HIDE DEF R
<1> QED
  BY <1>1, <1>2

LEMMA LeastNatural ==
  ASSUME NEW T, T \subseteq Nat, T # {}
  PROVE  \E x \in T : \A y \in T : x <= y
PROOF
<1>1. PICK R : IsWellFoundedOn(R, Nat) /\ \A x, y \in Nat : y < x => <<y, x>> \in R
  BY NatLessThan
<1>2. PICK x \in T : \A y \in T : ~ (<<y, x>> \in R)
  BY <1>1, WFMin
<1>3. ASSUME NEW y \in T
      PROVE  x <= y
  <2>1. x \in Nat /\ y \in Nat
    OBVIOUS
  <2>2. ~ (y < x)
    BY <1>1, <1>2, <2>1, Zenon
  <2> QED
    BY <2>1, <2>2
<1> QED
  BY <1>3

LEMMA SetInduction ==
  ASSUME NEW T, 0 \in T, \A n \in Nat : n \in T => n + 1 \in T
  PROVE  Nat \subseteq T
PROOF
<1> SUFFICES ASSUME Nat \ T # {}
             PROVE  FALSE
  OBVIOUS
<1>1. PICK m \in Nat \ T : \A y \in Nat \ T : m <= y
  BY LeastNatural
<1>2. m - 1 \in Nat /\ m - 1 \in T
  BY <1>1
<1> QED
  BY <1>1, <1>2

(* The same below a bound.                                                 *)
LEMMA BoundedInduction ==
  ASSUME NEW k \in Nat, NEW T, 0 \in T, \A i \in 0..(k - 1) : i \in T => i + 1 \in T
  PROVE  0..k \subseteq T
PROOF
<1> DEFINE U == {i \in Nat : i <= k => i \in T}
<1>1. 0 \in U
  OBVIOUS
<1>2. ASSUME NEW i \in Nat, i \in U
      PROVE  i + 1 \in U
  <2>1. i + 1 <= k => i \in 0..(k - 1) /\ i \in T
    BY <1>2
  <2> QED
    BY <2>1
<1> HIDE DEF U
<1>3. Nat \subseteq U
  BY <1>1, <1>2, SetInduction
<1> QED
  BY <1>3 DEF U

=============================================================================
