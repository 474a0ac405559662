-------------------------- MODULE PositionsProofs --------------------------
(***************************************************************************)
(* Elements picked from a sequence by their positions: every rank is taken *)
(* by one position, so that what is picked keeps the order, and a position *)
(* behind the others adds its element at the end.                          *)
(***************************************************************************)
EXTENDS Positions, FiniteSetTheorems, TLAPS

\* Ranks lie between 1 and the size of the set.
LEMMA RankBounds ==
    ASSUME NEW S \in SUBSET Nat, IsFiniteSet(S), NEW i \in S
    PROVE  Rank(S, i) \in 1 .. Cardinality(S)
<1> DEFINE T == {x \in S : x <= i}
<1>1. T \in SUBSET S /\ i \in T
  OBVIOUS
<1>2. IsFiniteSet(T) /\ Cardinality(T) <= Cardinality(S)
  BY <1>1, FS_Subset
<1>3. Cardinality(T) \in Nat /\ Cardinality(S) \in Nat
  BY <1>2, FS_CardinalityType
<1>4. Cardinality(T) # 0
  BY <1>1, <1>2, FS_EmptySet
<1> QED
  BY <1>2, <1>3, <1>4 DEF Rank

\* Different elements have different ranks.
LEMMA RankInjective ==
    ASSUME NEW S \in SUBSET Nat, IsFiniteSet(S),
           NEW i \in S, NEW j \in S, Rank(S, i) = Rank(S, j)
    PROVE  i = j
<1>1. ASSUME NEW a \in S, NEW b \in S, a < b
      PROVE  Rank(S, a) # Rank(S, b)
  <2> DEFINE A == {x \in S : x <= a}
             B == {x \in S : x <= b}
  <2>1. IsFiniteSet(B)
    BY FS_Subset, B \in SUBSET S
  <2>2. A \in SUBSET B
    <3>1. ASSUME NEW x \in S, x <= a
          PROVE  x <= b
      <4>1. x \in Nat /\ a \in Nat /\ b \in Nat
        OBVIOUS
      <4> QED
        BY <1>1, <3>1, <4>1
    <3> QED
      BY <3>1
  <2>3. b \in B /\ b \notin A
    BY <1>1
  <2> QED
    BY <2>1, <2>2, <2>3, FS_Subset DEF Rank
<1>2. i \in Nat /\ j \in Nat
  OBVIOUS
<1> QED
  BY <1>1, <1>2

\* Nth finds the element of a given rank.
LEMMA NthOfRank ==
    ASSUME NEW S \in SUBSET Nat, IsFiniteSet(S), NEW i \in S
    PROVE  Nth(S, Rank(S, i)) = i
<1> DEFINE P(x) == Rank(S, x) = Rank(S, i)
<1>1. \E x \in S : P(x)
  OBVIOUS
<1>2. Nth(S, Rank(S, i)) = CHOOSE x \in S : P(x)
  BY DEF Nth
<1>3. PICK n \in S : n = Nth(S, Rank(S, i)) /\ Rank(S, n) = Rank(S, i)
  BY <1>1, <1>2
<1>4. n = i
  BY <1>3, RankInjective
<1> QED
  BY <1>3, <1>4

\* Every rank is taken, by the element that Nth finds: ranking is an injection
\* into an interval of the same size, hence onto.
LEMMA RankOfNth ==
    ASSUME NEW S \in SUBSET Nat, IsFiniteSet(S), NEW j \in 1 .. Cardinality(S)
    PROVE  Nth(S, j) \in S /\ Rank(S, Nth(S, j)) = j
<1> DEFINE P(x) == Rank(S, x) = j
<1>1. Nth(S, j) = CHOOSE x \in S : P(x)
  BY DEF Nth
<1> DEFINE I == 1 .. Cardinality(S)
           f == [i \in S |-> Rank(S, i)]
<1>2. Cardinality(S) \in Nat
  BY FS_CardinalityType
<1>3. IsFiniteSet(I) /\ Cardinality(I) = Cardinality(S)
  BY <1>2, FS_Interval
<1>4. f \in Injection(S, I)
  <2>1. f \in [S -> I]
    BY RankBounds
  <2>2. \A a, b \in S : f[a] = f[b] => a = b
    BY RankInjective
  <2> QED
    BY <2>1, <2>2 DEF Injection, IsInjective
<1>5. f \in Surjection(S, I)
  BY <1>3, <1>4, FS_Injection
<1>6. \E i \in S : P(i)
  BY <1>5 DEF Surjection
<1> QED
  BY <1>1, <1>6

\* A finite set of numbers that is not empty has a least and a greatest element.
LEMMA LeastGreatest ==
    ASSUME NEW S \in SUBSET Nat, IsFiniteSet(S), S # {}
    PROVE  /\ \E a \in S : \A k \in S : a <= k
           /\ \E b \in S : \A k \in S : k <= b
<1> DEFINE c == Cardinality(S)
           a == Nth(S, 1)
           b == Nth(S, c)
<1>1. c \in Nat /\ c # 0 /\ 1 \in 1 .. c /\ c \in 1 .. c
  BY FS_CardinalityType, FS_EmptySet
<1>2. a \in S /\ b \in S /\ Rank(S, a) = 1 /\ Rank(S, b) = c
  BY <1>1, RankOfNth
<1> HIDE DEF a, b
<1>3. \A k \in S : k <= b
  <2>1. {x \in S : x <= b} = S
    BY <1>2, FS_Subset, {x \in S : x <= b} \in SUBSET S DEF Rank
  <2> QED
    BY <2>1
<1>4. \A k \in S : a <= k
  <2> SUFFICES ASSUME NEW k \in S, k < a
               PROVE  FALSE
    BY <1>2
  <2> DEFINE A == {x \in S : x <= a}
  <2>1. A \in SUBSET S /\ Cardinality(A) = 1
    BY <1>2 DEF Rank
  <2>2. IsFiniteSet(A)
    BY <2>1, FS_Subset
  <2>3. a \in A /\ k \in A /\ k # a
    <3>1. a \in Nat /\ k \in Nat
      BY <1>2
    <3> QED
      BY <1>2, <3>1
  <2> HIDE DEF A
  <2>4. \E x : A = {x}
    BY <2>1, <2>2, FS_Singleton
  <2> QED
    BY <2>3, <2>4
<1> QED
  BY <1>2, <1>3, <1>4

-----------------------------------------------------------------------------
\* What is picked is a sequence of the elements at the positions.
LEMMA PickedSequence ==
    ASSUME NEW s, NEW K \in SUBSET Nat, IsFiniteSet(K)
    PROVE  /\ Picked(s, K) \in Seq({s[k] : k \in K})
           /\ Len(Picked(s, K)) = Cardinality(K)
           /\ DOMAIN Picked(s, K) = 1 .. Cardinality(K)
           /\ \A j \in 1 .. Cardinality(K) : Picked(s, K)[j] = s[Nth(K, j)]
<1>1. Cardinality(K) \in Nat
  BY FS_CardinalityType
<1>2. \A j \in 1 .. Cardinality(K) : Nth(K, j) \in K
  BY RankOfNth
<1>3. Picked(s, K) \in [1 .. Cardinality(K) -> {s[k] : k \in K}]
  BY <1>2 DEF Picked
<1> QED
  BY <1>1, <1>3 DEF Picked

\* Nothing is picked from no position, and something from any.
LEMMA PickedNothing ==
    ASSUME NEW s, NEW K \in SUBSET Nat, IsFiniteSet(K)
    PROVE  Picked(s, K) = <<>> <=> K = {}
<1>1. K = {} => Picked(s, K) = <<>>
  BY FS_EmptySet DEF Picked
<1>2. ASSUME K # {}
      PROVE  Picked(s, K) # <<>>
  <2>1. Cardinality(K) # 0
    BY <1>2, FS_EmptySet
  <2>2. Len(Picked(s, K)) = Cardinality(K)
    BY PickedSequence
  <2> QED
    BY <2>1, <2>2
<1> QED
  BY <1>1, <1>2

\* A position behind all the others adds its element at the end.
LEMMA PickedAppend ==
    ASSUME NEW s, NEW K \in SUBSET Nat, IsFiniteSet(K),
           NEW z \in Nat, \A k \in K : k < z
    PROVE  /\ IsFiniteSet(K \cup {z})
           /\ Picked(s, K \cup {z}) = Append(Picked(s, K), s[z])
<1> DEFINE L == K \cup {z}
           c == Cardinality(K)
<1>1. z \notin K
  OBVIOUS
<1>2. L \in SUBSET Nat /\ IsFiniteSet(L) /\ Cardinality(L) = c + 1 /\ c \in Nat
  BY <1>1, FS_AddElement, FS_CardinalityType
<1>3. \A j \in 1 .. c : Nth(L, j) = Nth(K, j)
  <2> SUFFICES ASSUME NEW j \in 1 .. c
               PROVE  Nth(L, j) = Nth(K, j)
    OBVIOUS
  <2> DEFINE k == Nth(K, j)
  <2>1. k \in K /\ Rank(K, k) = j
    BY RankOfNth
  <2> HIDE DEF k
  <2>2. {x \in L : x <= k} = {x \in K : x <= k}
    BY <2>1
  <2>3. Rank(L, k) = j
    BY <2>1, <2>2 DEF Rank
  <2>4. Nth(L, j) = k
    BY <1>2, <2>1, <2>3, NthOfRank
  <2> QED
    BY <2>4 DEF k
<1>4. Nth(L, c + 1) = z
  <2>1. {x \in L : x <= z} = L
    <3>1. \A x \in L : x <= z
      OBVIOUS
    <3> QED
      BY <3>1
  <2>2. Rank(L, z) = c + 1
    BY <1>2, <2>1 DEF Rank
  <2> QED
    BY <1>2, <2>2, NthOfRank, z \in L
<1> HIDE DEF L
<1>5. /\ Picked(s, K) \in Seq({s[k] : k \in K}) /\ Len(Picked(s, K)) = c
      /\ \A j \in 1 .. c : Picked(s, K)[j] = s[Nth(K, j)]
  BY PickedSequence
<1>6. Picked(s, L) = [j \in 1 .. c + 1 |-> s[Nth(L, j)]]
  BY <1>2 DEF Picked
<1>7. Append(Picked(s, K), s[z]) = [j \in 1 .. c + 1 |-> IF j = c + 1 THEN s[z] ELSE Picked(s, K)[j]]
  BY <1>2, <1>5
<1>8. \A j \in 1 .. c + 1 : s[Nth(L, j)] = (IF j = c + 1 THEN s[z] ELSE Picked(s, K)[j])
  BY <1>2, <1>3, <1>4, <1>5
<1> QED
  BY <1>2, <1>6, <1>7, <1>8 DEF L

\* The positions of a stretch are picked in a row.
LEMMA PickedStretch ==
    ASSUME NEW s, NEW C \in SUBSET Nat, IsFiniteSet(C), NEW a \in Nat, NEW b \in Nat,
           NEW D, D = {k \in C : a <= k /\ k <= b},
           NEW A, A = {k \in C : k < a}
    PROVE  /\ IsFiniteSet(D) /\ Cardinality(A) \in Nat
           /\ Cardinality(A) + Cardinality(D) <= Cardinality(C)
           /\ \A j \in 1 .. Cardinality(D) : Picked(s, D)[j] = Picked(s, C)[Cardinality(A) + j]
<1> DEFINE off == Cardinality(A)
<1>1. D \in SUBSET C /\ A \in SUBSET C /\ D \in SUBSET Nat
  OBVIOUS
<1>2. /\ IsFiniteSet(D) /\ IsFiniteSet(A) /\ off \in Nat
      /\ Cardinality(D) \in Nat /\ Cardinality(C) \in Nat
  BY <1>1, FS_Subset, FS_CardinalityType
<1>3. ASSUME NEW T \in SUBSET D
      PROVE  IsFiniteSet(T) /\ Cardinality(A \cup T) = off + Cardinality(T)
  <2>1. A \cap T = {}
    <3>1. ASSUME NEW x \in A, x \in T
          PROVE  FALSE
      <4>1. x \in Nat /\ x < a /\ a <= x
        BY <1>3, <3>1
      <4> QED
        BY <4>1
    <3> QED
      BY <3>1
  <2>2. IsFiniteSet(T) /\ Cardinality(T) \in Nat
    BY <1>2, <1>3, FS_Subset, FS_CardinalityType
  <2>3. Cardinality(A \cup T) = Cardinality(A) + Cardinality(T) - Cardinality(A \cap T)
    BY <1>2, <2>2, FS_Union
  <2>4. Cardinality(A \cap T) = 0
    BY <2>1, FS_EmptySet
  <2> QED
    BY <1>2, <2>2, <2>3, <2>4
<1>4. off + Cardinality(D) <= Cardinality(C)
  <2>1. A \cup D \in SUBSET C
    BY <1>1
  <2>2. Cardinality(A \cup D) <= Cardinality(C)
    BY <2>1, FS_Subset
  <2> QED
    BY <1>3, <2>2
<1>5. ASSUME NEW j \in 1 .. Cardinality(D)
      PROVE  Picked(s, D)[j] = Picked(s, C)[off + j]
  <2> DEFINE k == Nth(D, j)
             T == {x \in D : x <= k}
  <2>1. k \in D /\ Rank(D, k) = j
    BY <1>1, <1>2, RankOfNth
  <2> HIDE DEF k
  <2>2. {x \in C : x <= k} = A \cup T
    <3>1. k \in Nat /\ a <= k /\ k <= b
      BY <2>1
    <3>2. ASSUME NEW x \in C
          PROVE  x <= k <=> x < a \/ (a <= x /\ x <= b /\ x <= k)
      <4>1. x \in Nat
        OBVIOUS
      <4> QED
        BY <3>1, <4>1
    <3> QED
      BY <3>2
  <2>3. Cardinality(A \cup T) = off + j
    BY <1>3, <2>1 DEF Rank
  <2>4. Rank(C, k) = off + j
    BY <2>2, <2>3 DEF Rank
  <2>5. Nth(C, off + j) = k
    BY <2>1, <2>4, NthOfRank
  <2>6. off + j \in 1 .. Cardinality(C)
    BY <1>2, <1>4
  <2>7. Picked(s, D)[j] = s[k]
    BY DEF Picked, k
  <2>8. Picked(s, C)[off + j] = s[k]
    BY <2>5, <2>6 DEF Picked
  <2> QED
    BY <2>7, <2>8
<1> QED
  BY <1>2, <1>4, <1>5
=============================================================================
