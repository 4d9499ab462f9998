---------------------------- MODULE ListProofs -----------------------------
(* What is left of a list from which elements are erased. *)
EXTENDS Lists, SequenceTheorems, FiniteSetTheorems, WellFoundedInduction, TLAPS

(* Rank numbers the positions of K from 1 to their number. *)
LEMMA RankBijective ==
    ASSUME NEW m \in Nat, NEW K \in SUBSET (1..m)
    PROVE  /\ IsFiniteSet(K) /\ Cardinality(K) \in Nat
           /\ \A i \in K : Rank(K, i) \in 1..Cardinality(K)
           /\ \A n \in 1..Cardinality(K) : \E i \in K : Rank(K, i) = n
           /\ \A i, j \in K : Rank(K, i) = Rank(K, j) => i = j
<1>1. IsFiniteSet(1..m)
  BY FS_Interval
<1>2. IsFiniteSet(K) /\ Cardinality(K) \in Nat
  BY <1>1, FS_Subset, FS_CardinalityType
<1> DEFINE Upto(i) == {j \in K : j <= i}
<1>3. ASSUME NEW i \in K
      PROVE  /\ IsFiniteSet(Upto(i)) /\ Cardinality(Upto(i)) \in Nat
             /\ Cardinality(Upto(i)) <= Cardinality(K) /\ Cardinality(Upto(i)) # 0
             /\ i \in Upto(i)
  <2>1. Upto(i) \in SUBSET K /\ i \in Upto(i)
    OBVIOUS
  <2>2. IsFiniteSet(Upto(i)) /\ Cardinality(Upto(i)) <= Cardinality(K)
    BY <1>2, <2>1, FS_Subset
  <2>3. Cardinality(Upto(i)) \in Nat
    BY <2>2, FS_CardinalityType
  <2>4. Cardinality(Upto(i)) # 0
    BY <2>1, <2>2, FS_EmptySet
  <2> QED BY <2>1, <2>2, <2>3, <2>4
<1>4. \A i \in K : Rank(K, i) \in 1..Cardinality(K)
  BY <1>2, <1>3 DEF Rank
<1>5. ASSUME NEW i \in K, NEW j \in K, i < j PROVE Rank(K, i) # Rank(K, j)
  <2>1. \A k \in K : k \in Int /\ (k <= i => k <= j)
    BY <1>5
  <2>2. Upto(i) \in SUBSET Upto(j)
    BY <2>1
  <2>3. j \notin Upto(i)
    BY <1>5, <2>1
  <2>4. Upto(i) # Upto(j)
    BY <1>3, <2>2, <2>3
  <2>5. Cardinality(Upto(i)) # Cardinality(Upto(j))
    BY <1>3, <2>2, <2>4, FS_Subset
  <2> QED BY <2>5 DEF Rank
<1>6. \A i, j \in K : Rank(K, i) = Rank(K, j) => i = j
  <2>1. SUFFICES ASSUME NEW i \in K, NEW j \in K, Rank(K, i) = Rank(K, j), i # j
                 PROVE  FALSE
    OBVIOUS
  <2>2. i < j \/ j < i
    BY <2>1
  <2> QED BY <1>5, <2>1, <2>2
<1>7. \A n \in 1..Cardinality(K) : \E i \in K : Rank(K, i) = n
  <2> DEFINE f == [i \in K |-> Rank(K, i)]
  <2>1. f \in Injection(K, 1..Cardinality(K))
    BY <1>4, <1>6 DEF Injection, IsInjective
  <2>2. IsFiniteSet(1..Cardinality(K)) /\ Cardinality(1..Cardinality(K)) = Cardinality(K)
    BY <1>2, FS_Interval
  <2>3. f \in Surjection(K, 1..Cardinality(K))
    BY <2>1, <2>2, FS_Injection
  <2> QED BY <2>3 DEF Surjection
<1> QED BY <1>2, <1>4, <1>6, <1>7

(* What stays of a list: a list of elements of it, each kept position once. *)
LEMMA OnlyKept ==
    ASSUME NEW S, NEW list \in Seq(S), NEW K \in SUBSET DOMAIN list
    PROVE  /\ Only(list, K) \in Seq(S)
           /\ \A n \in DOMAIN Only(list, K) :
                 Nth(K, n) \in K /\ Only(list, K)[n] = list[Nth(K, n)]
           /\ \A k \in K : \E n \in DOMAIN Only(list, K) : Nth(K, n) = k
           /\ \A m, n \in DOMAIN Only(list, K) : Nth(K, m) = Nth(K, n) => m = n
<1>1. DOMAIN list = 1..Len(list) /\ Len(list) \in Nat
  BY LenProperties
<1>2. K \in SUBSET (1..Len(list))
  BY <1>1
<1>3. /\ IsFiniteSet(K) /\ Cardinality(K) \in Nat
      /\ \A i \in K : Rank(K, i) \in 1..Cardinality(K)
      /\ \A n \in 1..Cardinality(K) : \E i \in K : Rank(K, i) = n
      /\ \A i, j \in K : Rank(K, i) = Rank(K, j) => i = j
  BY <1>1, <1>2, RankBijective
<1>4. \A n \in 1..Cardinality(K) : Nth(K, n) \in K /\ Rank(K, Nth(K, n)) = n
  BY <1>3 DEF Nth
<1>5. DOMAIN Only(list, K) = 1..Cardinality(K)
  BY DEF Only
<1>6. \A n \in 1..Cardinality(K) : Only(list, K)[n] = list[Nth(K, n)]
  BY DEF Only
<1>7. \A n \in 1..Cardinality(K) : list[Nth(K, n)] \in S
  BY <1>1, <1>2, <1>4, ElementOfSeq
<1>8. Only(list, K) \in Seq(S)
  BY <1>3, <1>7, IsASeq DEF Only
<1>9. \A k \in K : \E n \in 1..Cardinality(K) : Nth(K, n) = k
  BY <1>3, <1>4
<1> QED BY <1>4, <1>5, <1>6, <1>8, <1>9

(* A list of which every element stays is the list. *)
LEMMA OnlyAll ==
    ASSUME NEW S, NEW list \in Seq(S), NEW K, K = DOMAIN list
    PROVE  Only(list, K) = list
<1>1. PICK m \in Nat : K = 1..m /\ Len(list) = m
  BY LenProperties
<1>2. Cardinality(K) = m
  <2>1. 1 \in Int /\ m \in Int
    BY <1>1
  <2>2. Cardinality(1..m) = IF 1 > m THEN 0 ELSE m - 1 + 1
    BY <2>1, FS_Interval
  <2> QED BY <1>1, <2>2
<1>3. ASSUME NEW i \in 1..m PROVE Rank(K, i) = i
  <2>1. {j \in K : j <= i} = 1..i
    BY <1>1
  <2>2. 1 \in Int /\ i \in Int
    OBVIOUS
  <2>3. Cardinality(1..i) = IF 1 > i THEN 0 ELSE i - 1 + 1
    BY <2>2, FS_Interval
  <2>4. Cardinality(1..i) = i
    BY <1>1, <2>3
  <2> QED BY <2>1, <2>4 DEF Rank
<1>4. ASSUME NEW n \in 1..m PROVE Nth(K, n) = n
  BY <1>1, <1>3 DEF Nth
<1>5. DOMAIN Only(list, K) = 1..m /\ \A n \in 1..m : Only(list, K)[n] = list[n]
  BY <1>2, <1>4 DEF Only
<1>6. Only(list, K) = [n \in 1..m |-> list[n]]
  BY <1>2, <1>4 DEF Only
<1>7. list = [n \in DOMAIN list |-> list[n]]
  BY SeqDef
<1> QED BY <1>1, <1>6, <1>7

(* What stays of a list stays in its order. *)
LEMMA NthOrdered ==
    ASSUME NEW m \in Nat, NEW K \in SUBSET (1..m),
           NEW a \in 1..Cardinality(K), NEW b \in 1..Cardinality(K)
    PROVE  a <= b <=> Nth(K, a) <= Nth(K, b)
<1>1. /\ IsFiniteSet(K) /\ Cardinality(K) \in Nat
      /\ \A n \in 1..Cardinality(K) : \E i \in K : Rank(K, i) = n
      /\ \A i, j \in K : Rank(K, i) = Rank(K, j) => i = j
  BY RankBijective
<1>2. \A n \in 1..Cardinality(K) : Nth(K, n) \in K /\ Rank(K, Nth(K, n)) = n
  BY <1>1 DEF Nth
<1>3. ASSUME NEW i \in K, NEW j \in K, i <= j PROVE Rank(K, i) <= Rank(K, j)
  <2> DEFINE Upto(k) == {l \in K : l <= k}
  <2>1. \A l \in K : l <= i => l <= j
    BY <1>3
  <2>2. Upto(i) \in SUBSET Upto(j) /\ Upto(j) \in SUBSET K
    BY <2>1
  <2>3. IsFiniteSet(Upto(j))
    BY <1>1, <2>2, FS_Subset
  <2>4. Cardinality(Upto(i)) <= Cardinality(Upto(j))
    BY <2>2, <2>3, FS_Subset
  <2> QED BY <2>4 DEF Rank
<1>4. Nth(K, a) \in K /\ Nth(K, b) \in K /\ Rank(K, Nth(K, a)) = a /\ Rank(K, Nth(K, b)) = b
  BY <1>2
<1>5. Nth(K, a) <= Nth(K, b) => a <= b
  BY <1>3, <1>4
<1>6. Nth(K, b) <= Nth(K, a) => b <= a
  BY <1>3, <1>4
<1>7. Nth(K, a) \in Int /\ Nth(K, b) \in Int /\ a \in Int /\ b \in Int
  <2>1. \A k \in K : k \in Int
    OBVIOUS
  <2>2. Nth(K, a) \in Int /\ Nth(K, b) \in Int
    BY <1>4, <2>1
  <2>3. Cardinality(K) \in Nat
    BY <1>1
  <2>4. a \in Int /\ b \in Int
    BY <2>3
  <2> QED BY <2>2, <2>4
<1>8. a <= b => Nth(K, a) <= Nth(K, b)
  <2>1. CASE Nth(K, a) <= Nth(K, b)
    BY <2>1
  <2>2. CASE ~(Nth(K, a) <= Nth(K, b))
    <3>1. Nth(K, b) <= Nth(K, a)
      BY <1>7, <2>2
    <3>2. b <= a
      BY <1>6, <3>1
    <3>3. SUFFICES ASSUME a <= b PROVE FALSE
      OBVIOUS
    <3>4. a = b
      BY <1>7, <3>2, <3>3
    <3> QED BY <1>7, <2>2, <3>4
  <2> QED BY <2>1, <2>2
<1> QED BY <1>5, <1>8

(* A set of positions that is not empty has a first one. *)
LEMMA FirstIsLeast ==
    ASSUME NEW S \in SUBSET (Nat \ {0})
    PROVE  /\ S # {} => First(S) \in S /\ \A m \in S : First(S) <= m
           /\ S = {} => First(S) = 0
<1> SUFFICES ASSUME S # {} PROVE First(S) \in S /\ \A m \in S : First(S) <= m
  BY DEF First
<1>1. PICK s \in S : TRUE
  OBVIOUS
<1>2. PICK R : R = OpToRel(<, Nat)
  OBVIOUS
<1>3. IsWellFoundedOn(R, Nat)
  BY <1>2, NatLessThanWellFounded
<1>4. PICK i \in S : \A m \in S : ~(<<m, i>> \in R)
  BY <1>1, <1>3, WFMin
<1>5. \A m \in S : ~(m < i)
  BY <1>2, <1>4 DEF OpToRel
<1>6. \A m \in S : i <= m
  BY <1>5
<1> QED BY <1>6 DEF First
=============================================================================
