------------------------------ MODULE Smallest ------------------------------
(* What stands in for induction: a set of finite sets has a smallest one,    *)
(* and so has a set of numbers.  A proof by induction on n becomes one about *)
(* the smallest n for which the claim would be false.                        *)
EXTENDS Integers, FiniteSetsExt, FiniteSetTheorems, TLAPS

LEMMA FiniteMin ==
  ASSUME NEW T, T # {}, \A A \in T : IsFiniteSet(A)
  PROVE  \E A \in T : \A B \in T : B \subseteq A => B = A
<1> DEFINE S == UNION T
           R == StrictSubsetOrdering(S)
<1>1. IsWellFoundedOn(R, FiniteSubsetsOf(S))
  BY FS_StrictSubsetOrderingWellFounded
<1>2. T \subseteq FiniteSubsetsOf(S)
  BY DEF FiniteSubsetsOf
<1>3. \A A, B \in T : (B \subseteq A /\ B # A) => <<B, A>> \in R
  BY DEF StrictSubsetOrdering
<1> HIDE DEF R
<1>4. PICK A \in T : \A B \in T : ~(<<B, A>> \in R)
  BY <1>1, <1>2, WFMin
<1> QED
  BY <1>3, <1>4

LEMMA NatMin ==
  ASSUME NEW N \in SUBSET Nat, N # {}
  PROVE  \E m \in N : \A n \in N : m <= n
<1> DEFINE T == {1 .. n : n \in N}
<1>1. PICK A \in T : \A B \in T : B \subseteq A => B = A
  <2>1. \A B \in T : IsFiniteSet(B)
    BY FS_Interval
  <2>2. T # {}
    OBVIOUS
  <2> HIDE DEF T
  <2> QED
    BY <2>1, <2>2, FiniteMin
<1>2. PICK m \in N : A = 1 .. m
  OBVIOUS
<1>3. ASSUME NEW n \in N, n < m PROVE FALSE
  <2>1. 1 .. n \in T /\ 1 .. n \subseteq 1 .. m
    BY <1>3
  <2>2. 1 .. n = 1 .. m
    BY <1>1, <1>2, <2>1
  <2> QED
    BY <1>3, <2>2
<1> QED
  BY <1>3

LEMMA NatMax ==
  ASSUME NEW n \in Nat, NEW S \in SUBSET (1 .. n), S # {}
  PROVE  \E m \in S : \A k \in S : k <= m
<1> DEFINE N == {m \in Nat : \A k \in S : k <= m}
<1>1. PICK m \in N : \A k \in N : m <= k
  <2>1. n \in N /\ N \in SUBSET Nat
    OBVIOUS
  <2> HIDE DEF N
  <2> QED
    BY <2>1, NatMin
<1>2. ASSUME m \notin S PROVE FALSE
  <2>1. \A k \in S : k <= m - 1
    BY <1>2
  <2>2. m - 1 \in Nat
    <3>1. PICK k \in S : TRUE
      OBVIOUS
    <3>2. k \in Nat /\ k >= 1 /\ k <= m - 1 /\ m \in Nat
      BY <2>1
    <3> QED
      BY <3>2
  <2>3. m - 1 \in N
    BY <2>1, <2>2
  <2> QED
    BY <1>1, <2>3
<1> QED
  BY <1>1, <1>2

(* Max and Min of a set of positions.                                        *)
LEMMA MaxIs ==
  ASSUME NEW n \in Nat, NEW S \in SUBSET (1 .. n), S # {}
  PROVE  Max(S) \in S /\ \A k \in S : k <= Max(S)
  BY NatMax DEF Max

LEMMA MinIs ==
  ASSUME NEW S \in SUBSET Nat, S # {}
  PROVE  Min(S) \in S /\ \A k \in S : Min(S) <= k
  BY NatMin DEF Min
=============================================================================
