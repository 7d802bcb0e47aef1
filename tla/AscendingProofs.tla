-------------------------- MODULE AscendingProofs --------------------------
(***************************************************************************)
(* InOrder(S) lists a finite set of integers: every element once, in       *)
(* ascending order.  Rank(S, _) is one-to-one into 1..Cardinality(S), so   *)
(* by counting it is onto, and each position has its element.              *)
(***************************************************************************)
EXTENDS Ascending, FiniteSetTheorems, TLAPS

\* A part of a finite set that lacks an element is smaller.
LEMMA ProperSubsetIsSmaller ==
  ASSUME NEW B, IsFiniteSet(B), NEW A \in SUBSET B, A # B
  PROVE  Cardinality(A) < Cardinality(B)
<1>1. /\ IsFiniteSet(A) /\ Cardinality(A) <= Cardinality(B)
      /\ Cardinality(B) # Cardinality(A)
  BY FS_Subset
<1> QED
  BY <1>1, FS_CardinalityType

\* The larger of two elements has the larger rank.
LEMMA RankIsMonotone ==
  ASSUME NEW S \in SUBSET Int, IsFiniteSet(S), NEW a \in S, NEW b \in S, a < b
  PROVE  Rank(S, a) < Rank(S, b)
<1> DEFINE A == {c \in S : c <= a}
           B == {c \in S : c <= b}
<1>1. IsFiniteSet(B)
  BY FS_Subset
<1>2. A \in SUBSET B /\ b \in B /\ b \notin A
  <2>1. S \subseteq Int /\ a \in Int /\ b \in Int
    OBVIOUS
  <2>2. \A c \in S : c <= a => c <= b
    BY <2>1
  <2>3. b <= b /\ ~(b <= a)
    BY <2>1
  <2> QED
    BY <2>2, <2>3, Zenon
<1>3. Cardinality(A) < Cardinality(B)
  <2> HIDE DEF A, B
  <2> QED
    BY <1>1, <1>2, ProperSubsetIsSmaller
<1> QED
  BY <1>3 DEF Rank

\* Ranks count from one up to the number of elements.
LEMMA RankIsPosition ==
  ASSUME NEW S \in SUBSET Int, IsFiniteSet(S), NEW a \in S
  PROVE  Rank(S, a) \in 1..Cardinality(S)
<1> DEFINE A == {c \in S : c <= a}
<1>1. A \in SUBSET S /\ a \in A
  OBVIOUS
<1>2. IsFiniteSet(A) /\ Cardinality(A) <= Cardinality(S)
  BY <1>1, FS_Subset
<1>3. Cardinality(A) # 0
  BY <1>1, <1>2, FS_EmptySet
<1>4. Cardinality(A) \in Nat /\ Cardinality(S) \in Nat
  BY <1>2, FS_CardinalityType
<1> QED
  BY <1>2, <1>3, <1>4 DEF Rank

\* Every position has an element of its rank.
LEMMA EveryRankOccurs ==
  ASSUME NEW S \in SUBSET Int, IsFiniteSet(S), NEW k \in 1..Cardinality(S)
  PROVE  \E a \in S : Rank(S, a) = k
<1> DEFINE P == 1..Cardinality(S)
           f == [a \in S |-> Rank(S, a)]
<1>1. Cardinality(S) \in Nat
  BY FS_CardinalityType
<1>2. IsFiniteSet(P) /\ Cardinality(P) = Cardinality(S)
  BY <1>1, FS_Interval
<1>3. f \in [S -> P]
  BY RankIsPosition
<1>4. ASSUME NEW a \in S, NEW b \in S, f[a] = f[b]
      PROVE  a = b
  <2>1. Rank(S, a) = Rank(S, b) /\ Rank(S, a) \in P
    BY <1>4, RankIsPosition
  <2>2. ~(a < b) /\ ~(b < a)
    BY <2>1, RankIsMonotone
  <2> QED
    BY <2>2
<1>5. f \in Injection(S, P)
  BY <1>3, <1>4 DEF Injection, IsInjective
<1>6. f \in Surjection(S, P)
  BY <1>2, <1>5, FS_Injection
<1> QED
  BY <1>6 DEF Surjection

\* The sequence holds exactly the elements of the set, in ascending order.
LEMMA InOrderListsAll ==
  ASSUME NEW S \in SUBSET Int, IsFiniteSet(S)
  PROVE  /\ Cardinality(S) \in Nat
         /\ InOrder(S) \in [1..Cardinality(S) -> S]
         /\ \A a \in S : \E k \in 1..Cardinality(S) : InOrder(S)[k] = a
         /\ \A j, k \in 1..Cardinality(S) :
              j < k => InOrder(S)[j] < InOrder(S)[k]
<1> DEFINE P == 1..Cardinality(S)
<1>1. Cardinality(S) \in Nat
  BY FS_CardinalityType
<1>2. ASSUME NEW k \in P
      PROVE  InOrder(S)[k] \in S /\ Rank(S, InOrder(S)[k]) = k
  <2>1. \E a \in S : Rank(S, a) = k
    BY EveryRankOccurs
  <2> QED
    BY <2>1 DEF InOrder
<1>3. InOrder(S) \in [P -> S]
  BY <1>2 DEF InOrder
<1>4. ASSUME NEW a \in S
      PROVE  \E k \in P : InOrder(S)[k] = a
  <2>1. Rank(S, a) \in P
    BY RankIsPosition
  <2> DEFINE b == InOrder(S)[Rank(S, a)]
  <2>2. b \in S /\ Rank(S, b) = Rank(S, a)
    BY <1>2, <2>1
  <2> HIDE DEF b
  <2>3. Rank(S, a) \in Int /\ a \in Int /\ b \in Int
    BY <2>1, <2>2, <1>1
  <2>4. ~(a < b) /\ ~(b < a)
    BY <2>2, <2>3, RankIsMonotone
  <2>5. a = b
    BY <2>3, <2>4
  <2> QED
    BY <2>1, <2>5 DEF b
<1>5. ASSUME NEW j \in P, NEW k \in P, j < k
      PROVE  InOrder(S)[j] < InOrder(S)[k]
  <2> DEFINE a == InOrder(S)[j]
             b == InOrder(S)[k]
  <2>1. a \in S /\ b \in S /\ Rank(S, a) = j /\ Rank(S, b) = k
    BY <1>2
  <2> HIDE DEF a, b
  <2>2. a \in Int /\ b \in Int /\ j \in Int /\ k \in Int
    BY <1>1, <2>1
  <2>3. a # b /\ ~(b < a)
    BY <1>5, <2>1, <2>2, RankIsMonotone
  <2>4. a < b
    BY <2>2, <2>3
  <2> QED
    BY <2>4 DEF a, b
<1> QED
  BY <1>1, <1>3, <1>4, <1>5

\* Positions in a sequence are a finite set of integers.
LEMMA PositionsFinite ==
  ASSUME NEW n \in Nat, NEW S \in SUBSET (1..n)
  PROVE  IsFiniteSet(S) /\ S \in SUBSET Int
<1>1. IsFiniteSet(1..n)
  BY FS_Interval
<1>2. IsFiniteSet(S)
  BY <1>1, FS_Subset
<1> QED
  BY <1>2

\* A finite set of integers that is not empty has a least element.
LEMMA LeastExists ==
  ASSUME NEW S \in SUBSET Int, IsFiniteSet(S), S # {}
  PROVE  \E i \in S : \A j \in S : i <= j
<1> DEFINE n == Cardinality(S)
           q == InOrder(S)
<1>1. /\ n \in Nat
      /\ \A a \in S : \E k \in 1..n : q[k] = a
      /\ q \in [1..n -> S]
      /\ \A j, k \in 1..n : j < k => q[j] < q[k]
  BY InOrderListsAll
<1> HIDE DEF n, q
<1>2. 1 \in 1..n
  <2>1. PICK a \in S : TRUE
    OBVIOUS
  <2>2. PICK k \in 1..n : q[k] = a
    BY <1>1
  <2> QED
    BY <1>1, <2>2
<1>3. q[1] \in S /\ q[1] \in Int
  BY <1>1, <1>2
<1>4. ASSUME NEW j \in S
      PROVE  q[1] <= j
  <2>1. PICK k \in 1..n : q[k] = j
    BY <1>1
  <2>2. CASE k = 1
    BY <1>3, <2>1, <2>2
  <2>3. CASE 1 < k
    <3>1. q[1] < q[k]
      BY <1>1, <1>2, <2>3
    <3> QED
      BY <1>3, <2>1, <3>1
  <2> QED
    BY <1>1, <2>2, <2>3
<1>5. \A j \in S : q[1] <= j
  BY <1>4
<1> QED
  BY <1>3, <1>5, Zenon

\* The first n positions are in order as they are.
LEMMA InOrderOfInterval ==
  ASSUME NEW n \in Nat
  PROVE  /\ Cardinality(1..n) = n
         /\ InOrder(1..n) = [k \in 1..n |-> k]
<1>1. IsFiniteSet(1..n) /\ Cardinality(1..n) = n
  BY FS_Interval
<1>2. ASSUME NEW a \in 1..n
      PROVE  Rank(1..n, a) = a
  <2>1. {b \in 1..n : b <= a} = 1..a
    OBVIOUS
  <2>2. Cardinality(1..a) = a
    BY FS_Interval
  <2> QED
    BY <2>1, <2>2 DEF Rank
<1>3. ASSUME NEW k \in 1..n
      PROVE  InOrder(1..n)[k] = k
  <2>1. \A a \in 1..n : Rank(1..n, a) = k <=> a = k
    BY <1>2
  <2> QED
    BY <1>1, <2>1 DEF InOrder
<1> QED
  BY <1>1, <1>3 DEF InOrder
=============================================================================
