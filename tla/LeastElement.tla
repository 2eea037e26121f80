----------------------------- MODULE LeastElement -----------------------------
(***************************************************************************)
(* The principle behind the inductions over lists and chains in the other  *)
(* proofs: what fails for some natural number fails for a least one.       *)
(***************************************************************************)
EXTENDS FiniteSetTheorems, TLAPS

\* A set of naturals that is not empty has a least element: of the intervals from
\* 0 to its elements one has none of the others as a proper part.
LEMMA LeastNatural ==
  ASSUME NEW T, T \subseteq Nat, T # {}
  PROVE  \E n \in T : \A m \in T : n <= m
<1> DEFINE I == {0 .. n : n \in T}
           R == StrictSubsetOrdering(Nat)
           F == FiniteSubsetsOf(Nat)
<1>1. I \subseteq F /\ I # {}
  <2>1. \A n \in T : IsFiniteSet(0 .. n) /\ 0 .. n \in SUBSET Nat
    BY FS_Interval
  <2> QED BY <2>1 DEF FiniteSubsetsOf
<1>2. IsWellFoundedOn(R, F)
  BY FS_StrictSubsetOrderingWellFounded
<1>3. PICK x \in I : \A y \in I : ~ (<<y, x>> \in R)
  <2> HIDE DEF I, R, F
  <2> QED BY <1>1, <1>2, WFMin, Zenon
<1>4. PICK n \in T : x = 0 .. n
  BY <1>3
<1>5. \A m \in T : ~ (m < n)
  <2> SUFFICES ASSUME NEW m \in T, m < n PROVE FALSE
    OBVIOUS
  <2>1. 0 .. m \subseteq 0 .. n /\ 0 .. m # 0 .. n
    BY <1>4
  <2>2. <<0 .. m, 0 .. n>> \in R
    BY <2>1 DEF StrictSubsetOrdering
  <2> QED BY <1>3, <1>4, <2>2
<1> QED BY <1>5

=============================================================================
