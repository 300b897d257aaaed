--------------------------- MODULE RetentionFacts ---------------------------
(***************************************************************************)
(* Keeping the newest m of a collection. The worker's job table and the    *)
(* browser's observations are both pruned by counting, for each element,   *)
(* those that came after it; what is left is the newest m, and no more     *)
(* than must goes, whatever set and order the elements have.               *)
(***************************************************************************)
EXTENDS FiniteSetTheorems, TLAPS

\* after[a] holds the elements of E that come after a, in a strict total order.
Orders(after, E) ==
  /\ after \in [E -> SUBSET E]
  /\ \A a \in E : a \notin after[a]
  /\ \A a \in E, b \in E : b \in after[a] => after[b] \subseteq after[a]
  /\ \A a \in E, b \in E : a # b => b \in after[a] \/ a \in after[b]

\* Counting what comes after an element gives a natural number.
LEMMA AfterIsCounted ==
  ASSUME NEW E, IsFiniteSet(E), NEW after, Orders(after, E), NEW a \in E
  PROVE  /\ after[a] \in SUBSET E
         /\ IsFiniteSet(after[a])
         /\ Cardinality(after[a]) \in Nat
         /\ Cardinality(after[a]) < Cardinality(E)
<1>1. after[a] \in SUBSET E /\ after[a] # E
  BY DEF Orders
<1>2. /\ IsFiniteSet(after[a]) /\ Cardinality(after[a]) \in Nat
      /\ Cardinality(after[a]) <= Cardinality(E) /\ Cardinality(after[a]) # Cardinality(E)
  BY <1>1, FS_Subset, FS_CardinalityType
<1>3. Cardinality(E) \in Nat
  BY FS_CardinalityType
<1> QED BY <1>1, <1>2, <1>3

\* What comes later has less after it.
LEMMA LaterHasLess ==
  ASSUME NEW E, IsFiniteSet(E), NEW after, Orders(after, E), NEW a \in E, NEW b \in after[a]
  PROVE  Cardinality(after[b]) < Cardinality(after[a])
<1>1. b \in E /\ after[b] \in SUBSET after[a] /\ after[b] # after[a]
  BY DEF Orders
<1>2. Cardinality(after[b]) <= Cardinality(after[a])
      /\ Cardinality(after[b]) # Cardinality(after[a])
  BY <1>1, AfterIsCounted, FS_Subset
<1> QED BY <1>1, <1>2, AfterIsCounted

\* The elements with fewer than m after them are m, when there are as many.
LEMMA NewestAreCounted ==
  ASSUME NEW E, IsFiniteSet(E), NEW after, Orders(after, E), NEW m \in Nat,
         m <= Cardinality(E)
  PROVE  Cardinality({a \in E : Cardinality(after[a]) < m}) = m
<1> DEFINE n == Cardinality(E)
           rank == [a \in E |-> Cardinality(after[a])]
           K == {a \in E : Cardinality(after[a]) < m}
           count == [a \in K |-> Cardinality(after[a])]
<1>1. n \in Nat
  BY FS_CardinalityType
<1>2. \A a \in E : Cardinality(after[a]) \in 0 .. n - 1
  BY <1>1, AfterIsCounted
<1>3. \A a \in E, b \in E : Cardinality(after[a]) = Cardinality(after[b]) => a = b
  <2>1. ASSUME NEW a \in E, NEW b \in after[a]
        PROVE  Cardinality(after[b]) # Cardinality(after[a])
    BY <2>1, LaterHasLess, AfterIsCounted DEF Orders
  <2> QED BY <2>1 DEF Orders
<1>4. rank \in Injection(E, 0 .. n - 1)
  BY <1>2, <1>3 DEF Injection, IsInjective
<1>5. IsFiniteSet(0 .. n - 1) /\ Cardinality(0 .. n - 1) = n
  <2> HIDE DEF n
  <2> QED BY <1>1, FS_Interval
<1>6. rank \in Surjection(E, 0 .. n - 1)
  BY <1>4, <1>5, FS_Injection
<1>7. IsFiniteSet(K)
  BY FS_Subset
<1>8. count \in Bijection(K, 0 .. m - 1)
  <2>1. count \in [K -> 0 .. m - 1]
    BY <1>2
  <2>2. \A a \in K, b \in K : count[a] = count[b] => a = b
    BY <1>3
  <2>3. ASSUME NEW t \in 0 .. m - 1 PROVE \E a \in K : count[a] = t
    <3>1. t \in 0 .. n - 1
      BY <1>1
    <3>2. PICK a \in E : rank[a] = t
      BY <1>6, <3>1 DEF Surjection
    <3> QED BY <3>2
  <2> QED BY <2>1, <2>2, <2>3 DEF Bijection, Injection, IsInjective, Surjection
<1>9. IsFiniteSet(0 .. m - 1) /\ Cardinality(0 .. m - 1) = m
  BY FS_Interval
<1> QED BY <1>7, <1>8, <1>9, FS_Bijection DEF ExistsBijection

\* When an element has m or more after it, the newest m are all after it.
LEMMA NewestRemain ==
  ASSUME NEW E, IsFiniteSet(E), NEW after, Orders(after, E), NEW m \in Nat,
         NEW b \in E, m <= Cardinality(after[b])
  PROVE  /\ Cardinality({a \in E : Cardinality(after[a]) < m}) = m
         /\ {a \in E : Cardinality(after[a]) < m} \subseteq after[b]
<1>1. Cardinality(E) \in Nat /\ m <= Cardinality(E)
  BY AfterIsCounted, FS_CardinalityType
<1>2. ASSUME NEW a \in E, Cardinality(after[a]) < m PROVE a \in after[b]
  <2>1. a # b
    BY <1>2, AfterIsCounted
  <2>2. b \in after[a] => Cardinality(after[b]) < Cardinality(after[a])
    BY LaterHasLess
  <2>3. b \notin after[a]
    BY <1>2, <2>2, AfterIsCounted
  <2> QED BY <2>1, <2>3 DEF Orders
<1> QED BY <1>1, <1>2, NewestAreCounted
=============================================================================
