------------------------------ MODULE Extremes ------------------------------
(***************************************************************************)
(* Sets of numbers have the extremes that the models CHOOSE from them: the *)
(* next line of a file, the last position of a table, the oldest call.     *)
(***************************************************************************)
EXTENDS Integers, FiniteSetTheorems, WellFoundedInduction, TLAPS

\* A nonempty set of numbers has a least one: among the intervals that end in it,
\* one is minimal.
LEMMA Minimum ==
    ASSUME NEW E \in SUBSET Nat, E # {}
    PROVE  \E e \in E : \A m \in E : e <= m
<1> DEFINE T == { 0..e : e \in E }
<1>1. T \subseteq FiniteSubsetsOf(Nat)
  <2> SUFFICES ASSUME NEW e \in E PROVE 0..e \in FiniteSubsetsOf(Nat)
    OBVIOUS
  <2>1. 0 \in Int /\ e \in Int /\ 0..e \in SUBSET Nat
    OBVIOUS
  <2>2. IsFiniteSet(0..e)
    BY <2>1, FS_Interval
  <2> QED
    BY <2>1, <2>2 DEF FiniteSubsetsOf
<1>2. T # {}
  OBVIOUS
<1>3. PICK x \in T : \A y \in T : ~(<<y, x>> \in StrictSubsetOrdering(Nat))
  <2> HIDE DEF T
  <2> QED
    BY <1>1, <1>2, FS_StrictSubsetOrderingWellFounded, WFMin
<1>4. PICK e \in E : x = 0..e
  OBVIOUS
<1>5. ASSUME NEW m \in E, ~(e <= m) PROVE FALSE
  <2>1. 0..m \in T
    OBVIOUS
  <2>2. 0..m \subseteq 0..e /\ 0..m # 0..e /\ 0..m \in SUBSET Nat /\ 0..e \in SUBSET Nat
    BY <1>5
  <2>3. <<0..m, 0..e>> \in StrictSubsetOrdering(Nat)
    BY <2>2 DEF StrictSubsetOrdering
  <2> QED
    BY <1>3, <1>4, <2>1, <2>3
<1> QED
  BY <1>5

\* A non-empty set of numbers with an upper bound has a greatest one.
LEMMA Maximum ==
    ASSUME NEW n \in Nat, NEW E \in SUBSET (0..n), E # {}
    PROVE  \E e \in E : \A m \in E : m <= e
<1> DEFINE D == { n - e : e \in E }
<1>1. D \in SUBSET Nat /\ D # {}
  <2>1. \A e \in E : n - e \in Nat /\ n - e \in D
    OBVIOUS
  <2> QED
    BY <2>1
<1>2. PICK d \in D : \A m \in D : d <= m
  <2> HIDE DEF D
  <2> QED
    BY <1>1, Minimum
<1>3. PICK e \in E : d = n - e
  OBVIOUS
<1>4. ASSUME NEW m \in E PROVE m <= e
  <2>1. n - m \in D
    OBVIOUS
  <2>2. n - e <= n - m
    BY <1>2, <1>3, <2>1
  <2> QED
    BY <2>2
<1> QED
  BY <1>4
=============================================================================
