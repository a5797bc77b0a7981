--------------------------- MODULE FiniteNaturals ---------------------------
(***************************************************************************)
(* Facts about sets of naturals that the proofs use for induction over     *)
(* data: a counterexample of least index does not exist. The provers have  *)
(* no induction rule of their own, since the one of the library takes an   *)
(* operator as a parameter; that strict inclusion of finite sets is well-  *)
(* founded is a first-order fact, and enough.                              *)
(***************************************************************************)
EXTENDS Integers, FiniteSets, FiniteSetTheorems, WellFoundedInduction, TLAPS

\* Every nonempty set of naturals has a least member: the initial intervals
\* of its members are finite sets, and strict inclusion of finite sets is
\* well-founded.
LEMMA LeastNat ==
    ASSUME NEW S \in SUBSET Nat, NEW n \in S
    PROVE  \E m \in S : \A k \in S : m <= k
<1> DEFINE T == {0 .. k : k \in S}
<1>1. T \subseteq FiniteSubsetsOf(Nat)
  <2>1. \A k \in S : IsFiniteSet(0 .. k) BY FS_Interval
  <2>2. \A k \in S : 0 .. k \in SUBSET Nat OBVIOUS
  <2> QED BY <2>1, <2>2 DEF FiniteSubsetsOf
<1>2. T # {} OBVIOUS
<1>3. IsWellFoundedOn(StrictSubsetOrdering(Nat), FiniteSubsetsOf(Nat))
  BY FS_StrictSubsetOrderingWellFounded
<1>4. PICK x \in T : \A y \in T : ~ (<<y, x>> \in StrictSubsetOrdering(Nat))
  <2> HIDE DEF T
  <2> QED BY <1>1, <1>2, <1>3, WFMin
<1>5. PICK m \in S : x = 0 .. m OBVIOUS
<1>6. ASSUME NEW k \in S, k < m PROVE FALSE
  <2>1. <<0 .. k, x>> \notin StrictSubsetOrdering(Nat) BY <1>4
  <2>2. 0 .. k \subseteq Nat /\ 0 .. m \subseteq Nat OBVIOUS
  <2>3. 0 .. k \subseteq 0 .. m /\ 0 .. k # 0 .. m BY <1>6
  <2> QED BY <2>1, <2>2, <2>3, <1>5 DEF StrictSubsetOrdering
<1> QED BY <1>6

\* Every nonempty finite set of naturals has a greatest member: one with the
\* fewest members above it.
LEMMA GreatestNat ==
    ASSUME NEW S \in SUBSET Nat, IsFiniteSet(S), NEW n \in S
    PROVE  \E m \in S : \A k \in S : k <= m
<1> DEFINE Above(h) == {k \in S : k > h}
           D == {Cardinality(Above(h)) : h \in S}
<1>1. \A h \in S : IsFiniteSet(Above(h)) /\ Cardinality(Above(h)) \in Nat
  BY FS_Subset, FS_CardinalityType
<1>2. D \in SUBSET Nat /\ Cardinality(Above(n)) \in D BY <1>1
<1>3. PICK x \in D : \A y \in D : x <= y
  <2> HIDE DEF D
  <2> QED BY <1>2, LeastNat
<1>4. PICK m \in S : x = Cardinality(Above(m)) OBVIOUS
<1>5. ASSUME NEW k \in S, k > m PROVE FALSE
  <2>0. k \in Nat /\ m \in Nat /\ \A j \in S : j \in Nat OBVIOUS
  <2>1. Above(k) \in SUBSET Above(m) /\ k \in Above(m) /\ k \notin Above(k)
    <3>1. \A j \in S : j > k => j > m BY <1>5, <2>0
    <3>2. ~ (k > k) BY <2>0
    <3> QED BY Zenon, <1>5, <3>1, <3>2
  <2>2. Cardinality(Above(m)) <= Cardinality(Above(k)) BY <1>3, <1>4
  <2> HIDE DEF Above
  <2>3. Cardinality(Above(k)) < Cardinality(Above(m))
    <3>1. /\ Cardinality(Above(k)) <= Cardinality(Above(m))
          /\ Cardinality(Above(m)) = Cardinality(Above(k)) => Above(m) = Above(k)
      BY <1>1, <2>1, FS_Subset
    <3> QED BY <1>1, <2>1, <3>1
  <2> QED BY <1>1, <2>2, <2>3
<1> QED BY <1>5

\* A finite set of naturals has a member of every rank: the least one that is
\* at least the k-th is the k-th.
LEMMA RankTaken ==
    ASSUME NEW S \in SUBSET Nat, IsFiniteSet(S), NEW k \in 1 .. Cardinality(S)
    PROVE  \E i \in S : Cardinality({j \in S : j <= i}) = k
<1> DEFINE Upto(i) == {j \in S : j <= i}
           A == {i \in S : Cardinality(Upto(i)) >= k}
<1>1. \A i \in S : IsFiniteSet(Upto(i)) /\ Cardinality(Upto(i)) \in Nat
  BY FS_Subset, FS_CardinalityType
<1>2. Cardinality(S) \in Nat /\ S # {} BY FS_CardinalityType, FS_EmptySet
<1>3. PICK g \in S : \A j \in S : j <= g BY <1>2, GreatestNat
<1>4. Upto(g) = S BY Zenon, <1>3
<1>5. A \in SUBSET Nat /\ g \in A
  <2>1. Cardinality(S) >= k BY <1>2
  <2>2. Cardinality(Upto(g)) >= k BY Zenon, <1>4, <2>1
  <2> QED BY Zenon, <2>2
<1>6. PICK i \in A : \A j \in A : i <= j
  <2> HIDE DEF A
  <2> QED BY <1>5, LeastNat
<1>7. i \in S /\ Cardinality(Upto(i)) >= k /\ i \in Upto(i) BY <1>6
<1>8. ASSUME Cardinality(Upto(i)) > k PROVE FALSE
  <2> DEFINE B == Upto(i) \ {i}
  <2>1. IsFiniteSet(B) /\ Cardinality(B) = Cardinality(Upto(i)) - 1
    <3> HIDE DEF Upto
    <3> QED BY <1>1, <1>7, FS_RemoveElement
  <2>2. Cardinality(B) >= k /\ Cardinality(B) \in Nat \ {0} BY <1>1, <1>7, <1>8, <2>1
  <2>3. B # {} BY <2>2, FS_EmptySet
  <2>4. B \in SUBSET Nat OBVIOUS
  <2>5. PICK m \in B : \A j \in B : j <= m
    <3> HIDE DEF B
    <3> QED BY <2>1, <2>3, <2>4, GreatestNat
  <2>6. m \in S /\ m < i OBVIOUS
  <2>7. Upto(m) = B
    <3>1. \A j \in S : j <= m => j <= i /\ j # i BY <2>6
    <3>2. \A j \in S : j <= i /\ j # i => j <= m BY Zenon, <2>5
    <3> QED BY Zenon, <3>1, <3>2
  <2>8. m \in A BY <2>2, <2>6, <2>7
  <2>9. i <= m BY <1>6, <2>8
  <2> QED BY <1>7, <2>6, <2>9
<1>9. Cardinality(Upto(i)) = k
  <2> DEFINE c == Cardinality(Upto(i))
  <2>1. c \in Nat /\ c >= k /\ ~ (c > k) BY Zenon, <1>1, <1>7, <1>8
  <2> HIDE DEF c
  <2>2. c = k BY <2>1
  <2> QED BY <2>2 DEF c
<1> QED BY Zenon, <1>7, <1>9
=============================================================================
