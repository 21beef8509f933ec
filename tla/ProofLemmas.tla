---------------------------- MODULE ProofLemmas ----------------------------
(***************************************************************************)
(* Facts about numbers, finite sets and sequences that the proofs of more  *)
(* than one component need.                                                *)
(***************************************************************************)
EXTENDS Integers, Sequences, FiniteSets, FiniteSetTheorems, SequenceTheorems,
        WellFoundedInduction, TLAPS

\* A set of naturals that is not empty has a least element.
LEMMA LeastNatural ==
    ASSUME NEW S \in SUBSET Nat, S # {}
    PROVE  \E x \in S : \A y \in S : x <= y
<1> DEFINE less == {p \in Nat \X Nat : p[1] < p[2]}
<1>1. IsWellFoundedOn(less, Nat)
  BY NatLessThanWellFounded, Zenon DEF OpToRel
<1>2. PICK x \in S : \A y \in S : <<y, x>> \notin less
  <2> HIDE DEF less
  <2> QED
    BY <1>1, WFMin
<1>3. \A y \in S : ~(y < x)
  BY <1>2
<1> QED
  BY <1>3

\* A bounded one has a greatest.
LEMMA GreatestNatural ==
    ASSUME NEW n \in Nat, NEW S \in SUBSET (0..n), S # {}
    PROVE  \E x \in S : \A y \in S : y <= x
<1> DEFINE T == {n - x : x \in S}
<1>1. T \in SUBSET Nat /\ T # {}
  <2>1. PICK x \in S : TRUE
    OBVIOUS
  <2>2. n - x \in T
    OBVIOUS
  <2>3. \A y \in S : n - y \in Nat
    OBVIOUS
  <2> QED
    BY <2>2, <2>3
<1>2. PICK t \in T : \A y \in T : t <= y
  <2> HIDE DEF T
  <2> QED
    BY <1>1, LeastNatural
<1>3. PICK x \in S : t = n - x
  OBVIOUS
<1>4. \A y \in S : n - x <= n - y
  BY <1>2, <1>3
<1> QED
  BY <1>4

\* The values of the variable of a loop with n rounds,
Loops(V, base, step, n) ==
    \E f \in [0..n -> V] :
        f[0] = base /\ \A i \in 1..n : f[i] = step[<<i, f[i - 1]>>]

\* which are computed one after the other.
LEMMA LoopValues ==
    ASSUME NEW V, NEW base \in V, NEW step \in [Nat \X V -> V], NEW n \in Nat
    PROVE  Loops(V, base, step, n)
<1> DEFINE Is(f, k) == /\ f \in [0..k -> V]
                       /\ f[0] = base
                       /\ \A i \in 1..k : f[i] = step[<<i, f[i - 1]>>]
           bad == {k \in Nat : ~ \E f : Is(f, k)}
<1>1. SUFFICES bad = {}
  BY DEF Loops
<1>2. SUFFICES ASSUME bad # {}
               PROVE  FALSE
  OBVIOUS
<1>3. PICK k \in bad : \A j \in bad : k <= j
  <2>1. bad \in SUBSET Nat
    OBVIOUS
  <2> HIDE DEF bad
  <2> QED
    BY <1>2, <2>1, LeastNatural
<1>4. k # 0
  <2>1. Is([i \in 0..0 |-> base], 0)
    OBVIOUS
  <2> HIDE DEF Is
  <2> QED
    BY <2>1
<1>5. k \in Nat /\ k - 1 \in Nat /\ k - 1 \notin bad
  BY <1>3, <1>4
<1>6. PICK f : Is(f, k - 1)
  BY <1>5
<1> DEFINE g == [i \in 0..k |-> IF i = k THEN step[<<k, f[k - 1]>>] ELSE f[i]]
<1>7. \A i \in 0..k : i # k => i \in 0..(k - 1) /\ g[i] = f[i]
  BY <1>5
<1>8. g \in [0..k -> V]
  <2>1. f[k - 1] \in V
    BY <1>5, <1>6
  <2>2. step[<<k, f[k - 1]>>] \in V
    BY <1>5, <2>1
  <2> QED
    BY <1>6, <1>7, <2>2
<1>9. g[0] = base
  BY <1>4, <1>5, <1>6
<1>10. ASSUME NEW i \in 1..k
       PROVE  g[i] = step[<<i, g[i - 1]>>]
  <2>1. g[i - 1] = f[i - 1]
    BY <1>5, <1>7
  <2>2. CASE i = k
    <3>1. g[k] = step[<<k, f[k - 1]>>]
      BY <1>5
    <3>2. f[k - 1] = g[k - 1]
      BY <2>1, <2>2
    <3> HIDE DEF g
    <3> QED
      BY <2>2, <3>1, <3>2, Zenon
  <2>3. CASE i # k
    BY <1>5, <1>6, <1>7, <2>1, <2>3
  <2> QED
    BY <2>2, <2>3
<1>11. Is(g, k)
  <2> HIDE DEF g
  <2> QED
    BY <1>8, <1>9, <1>10
<1> HIDE DEF Is
<1> QED
  BY <1>3, <1>11

\* A set of positive numbers with a bound is finite.
LEMMA FiniteInterval ==
    ASSUME NEW n \in Nat, NEW S \in SUBSET (1..n)
    PROVE  IsFiniteSet(S) /\ Cardinality(S) \in Nat
<1>1. IsFiniteSet(1..n)
  BY FS_Interval
<1> QED
  BY <1>1, FS_Subset, FS_CardinalityType

\* A subset has no more elements,
LEMMA FewerElements ==
    ASSUME NEW S, IsFiniteSet(S), NEW T \in SUBSET S
    PROVE  /\ IsFiniteSet(T) /\ Cardinality(T) \in Nat /\ Cardinality(S) \in Nat
           /\ Cardinality(T) <= Cardinality(S)
BY FS_Subset, FS_CardinalityType

\* one that misses an element has fewer,
LEMMA OneElementLess ==
    ASSUME NEW S, IsFiniteSet(S), NEW x \in S, NEW T \in SUBSET (S \ {x})
    PROVE  /\ IsFiniteSet(T) /\ Cardinality(T) \in Nat /\ Cardinality(S) \in Nat
           /\ Cardinality(T) + 1 <= Cardinality(S)
<1>1. IsFiniteSet(S \ {x}) /\ Cardinality(S \ {x}) = Cardinality(S) - 1
  BY FS_RemoveElement
<1>2. Cardinality(T) \in Nat /\ Cardinality(T) <= Cardinality(S \ {x}) /\ IsFiniteSet(T)
  BY <1>1, FewerElements
<1>3. Cardinality(S) \in Nat
  BY FS_CardinalityType
<1> QED
  BY <1>1, <1>2, <1>3

\* and a set with one more element has at most one more.
LEMMA OneElementMore ==
    ASSUME NEW S, IsFiniteSet(S), NEW x, NEW T \in SUBSET (S \cup {x})
    PROVE  /\ IsFiniteSet(T) /\ Cardinality(T) \in Nat /\ Cardinality(S) \in Nat
           /\ Cardinality(T) <= Cardinality(S) + 1
<1>1. Cardinality(S) \in Nat
  BY FS_CardinalityType
<1>2. /\ IsFiniteSet(S \cup {x})
      /\ Cardinality(S \cup {x})
            = IF x \in S THEN Cardinality(S) ELSE Cardinality(S) + 1
  BY FS_AddElement
<1>3. Cardinality(S \cup {x}) <= Cardinality(S) + 1
  BY <1>1, <1>2
<1>4. /\ IsFiniteSet(T) /\ Cardinality(T) \in Nat /\ Cardinality(S \cup {x}) \in Nat
      /\ Cardinality(T) <= Cardinality(S \cup {x})
  BY <1>2, FewerElements
<1> QED
  BY <1>1, <1>3, <1>4

\* What two sets cover has no more elements than both.
LEMMA CoveredByTwo ==
    ASSUME NEW A, IsFiniteSet(A), NEW B, IsFiniteSet(B), NEW S \in SUBSET (A \cup B)
    PROVE  /\ IsFiniteSet(S) /\ Cardinality(S) \in Nat
           /\ Cardinality(A) \in Nat /\ Cardinality(B) \in Nat
           /\ Cardinality(S) <= Cardinality(A) + Cardinality(B)
<1>1. /\ IsFiniteSet(A \cup B)
      /\ Cardinality(A \cup B) = Cardinality(A) + Cardinality(B) - Cardinality(A \cap B)
  BY FS_Union
<1>2. Cardinality(A \cap B) \in Nat
  BY FS_Subset, FS_CardinalityType
<1>3. Cardinality(A) \in Nat /\ Cardinality(B) \in Nat
  BY FS_CardinalityType
<1>4. /\ IsFiniteSet(S) /\ Cardinality(S) \in Nat /\ Cardinality(A \cup B) \in Nat
      /\ Cardinality(S) <= Cardinality(A \cup B)
  BY <1>1, FewerElements
<1> QED
  BY <1>1, <1>2, <1>3, <1>4

\* A set with an element is not of size zero.
LEMMA SomeElement ==
    ASSUME NEW S, IsFiniteSet(S), NEW x \in S
    PROVE  Cardinality(S) \in Nat /\ 1 <= Cardinality(S)
BY FS_EmptySet, FS_CardinalityType
=============================================================================
