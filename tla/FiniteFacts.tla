---------------------------- MODULE FiniteFacts ----------------------------
(***************************************************************************)
(* Facts that the proofs of several components rest on: induction as       *)
(* least counterexamples, loops as functions over the steps taken, and     *)
(* sums.  MapThenSumSet adds in the order CHOOSE gives, by a function over *)
(* the subsets of its index set; here that function is shown to count      *)
(* units, a unit <<i, t>> for each t below the value at i, so that sums    *)
(* are compared as finite sets are.                                        *)
(***************************************************************************)
EXTENDS Integers, FiniteSets, FiniteSetTheorems, TLAPS

Units(f, I) == {u \in I \X Nat : u[2] < f[u[1]]}

Pick(s) == CHOOSE x \in s : TRUE

\* What the fold of the community modules computes over the subsets of I.
SumsOver(sum, f, I) ==
    sum = [s \in SUBSET I |-> IF s = {} THEN 0 ELSE f[Pick(s)] + sum[s \ {Pick(s)}]]

-----------------------------------------------------------------------------
(* Minimal elements *)

LEMMA LeastSubset ==
    ASSUME NEW I, IsFiniteSet(I), NEW Bad, Bad \subseteq SUBSET I, Bad # {}
    PROVE  \E T \in Bad : \A U \in Bad : U \subseteq T => U = T
<1> DEFINE R == StrictSubsetOrdering(I)
<1>1. Bad \subseteq FiniteSubsetsOf(I) /\ IsWellFoundedOn(R, FiniteSubsetsOf(I))
  BY FS_FiniteSubsetsOfFinite, FS_StrictSubsetOrderingWellFounded
<1> HIDE DEF R
<1>2. PICK T \in Bad : \A U \in Bad : ~ (<<U, T>> \in R)
  BY <1>1, WFMin
<1>3. ASSUME NEW U \in Bad, U \subseteq T, U # T PROVE FALSE
  <2>1. <<U, T>> \in R
    BY <1>3 DEF R, StrictSubsetOrdering
  <2> QED  BY <1>2, <2>1
<1> QED  BY <1>3

LEMMA LeastNumber ==
    ASSUME NEW Bad, Bad \subseteq Nat, Bad # {}
    PROVE  \E m \in Bad : \A k \in Bad : m <= k
<1>1. PICK n \in Bad : TRUE
  OBVIOUS
<1> DEFINE I == 0 .. n
           below == {0 .. k : k \in {k \in Bad : k <= n}}
<1>2. IsFiniteSet(I)
  BY FS_Interval
<1>3. below \subseteq SUBSET I /\ below # {}
  BY <1>1
<1>4. PICK T \in below : \A U \in below : U \subseteq T => U = T
  <2> HIDE DEF below, I
  <2> QED  BY <1>2, <1>3, LeastSubset
<1>5. PICK m \in Bad : m <= n /\ T = 0 .. m
  BY <1>4
<1>6. ASSUME NEW k \in Bad, k < m PROVE FALSE
  <2>1. 0 .. k \in below /\ 0 .. k \subseteq 0 .. m
    BY <1>5, <1>6
  <2>2. 0 .. k = 0 .. m
    BY <1>4, <1>5, <2>1
  <2>3. m \in 0 .. m /\ m \notin 0 .. k
    BY <1>6
  <2> QED  BY <2>2, <2>3
<1> QED  BY <1>6

-----------------------------------------------------------------------------
(* Loops *)

LEMMA Upward ==
    ASSUME NEW n \in Nat, NEW Good, 0 \in Good, \A i \in 1 .. n : i - 1 \in Good => i \in Good
    PROVE  \A i \in 0 .. n : i \in Good
<1> DEFINE Bad == {i \in 0 .. n : i \notin Good}
<1>1. SUFFICES ASSUME Bad # {} PROVE FALSE
  OBVIOUS
<1>2. PICK m \in Bad : \A k \in Bad : m <= k
  <2>1. Bad \subseteq Nat
    OBVIOUS
  <2> HIDE DEF Bad
  <2> QED  BY <1>1, <2>1, LeastNumber
<1>3. m \in 1 .. n /\ m - 1 \in 0 .. n /\ m - 1 < m
  BY <1>2
<1>4. m - 1 \in Good
  BY <1>2, <1>3
<1> QED  BY <1>2, <1>3, <1>4

\* A loop over 1 .. n from start has a result after every step.
Loop(f, n, start, step) ==
    DOMAIN f = 0 .. n /\ f[0] = start /\ \A i \in 1 .. n : f[i] = step[i][f[i - 1]]

LEMMA LoopExists ==
    ASSUME NEW n \in Nat, NEW X, NEW start \in X, NEW step \in [1 .. n -> [X -> X]]
    PROVE  \E f \in [0 .. n -> X] : Loop(f, n, start, step)
<1> DEFINE Good == {m \in 0 .. n : \E f \in [0 .. m -> X] : Loop(f, m, start, step)}
<1>1. 0 \in Good
  <2>1. [i \in 0 .. 0 |-> start] \in [0 .. 0 -> X]
    OBVIOUS
  <2>2. Loop([i \in 0 .. 0 |-> start], 0, start, step)
    BY DEF Loop
  <2> QED  BY <2>1, <2>2
<1>2. ASSUME NEW m \in 1 .. n, m - 1 \in Good PROVE m \in Good
  <2>1. PICK f \in [0 .. (m - 1) -> X] : Loop(f, m - 1, start, step)
    BY <1>2
  <2>2. f[m - 1] \in X /\ step[m] \in [X -> X]
    OBVIOUS
  <2>3. PICK last : last = step[m][f[m - 1]]
    OBVIOUS
  <2>4. last \in X
    BY <2>2, <2>3
  <2>5. PICK g : g = [i \in 0 .. m |-> IF i = m THEN last ELSE f[i]]
    OBVIOUS
  <2>6. g \in [0 .. m -> X]
    <3>1. \A i \in 0 .. m : i # m => i \in 0 .. (m - 1)
      OBVIOUS
    <3> QED  BY <2>4, <2>5, <3>1
  <2>7. \A i \in 1 .. m : g[i] = step[i][g[i - 1]]
    <3> SUFFICES ASSUME NEW i \in 1 .. m PROVE g[i] = step[i][g[i - 1]]
      OBVIOUS
    <3>1. i - 1 \in 0 .. m /\ i - 1 # m /\ i \in 0 .. m
      OBVIOUS
    <3>2. g[i - 1] = f[i - 1]
      BY <2>5, <3>1
    <3>3. CASE i = m
      BY <2>3, <2>5, <3>1, <3>2, <3>3
    <3>4. CASE i # m
      <4>1. i \in 1 .. (m - 1)
        BY <3>4
      <4>2. f[i] = step[i][f[i - 1]]
        BY <2>1, <4>1 DEF Loop
      <4> QED  BY <2>5, <3>1, <3>2, <3>4, <4>2
    <3> QED  BY <3>3, <3>4
  <2>8. g[0] = start
    <3>1. f[0] = start
      BY <2>1 DEF Loop
    <3>2. 0 \in 0 .. m /\ 0 # m
      OBVIOUS
    <3> QED  BY <2>5, <3>1, <3>2
  <2>9. Loop(g, m, start, step)
    BY <2>6, <2>7, <2>8 DEF Loop
  <2> QED  BY <2>6, <2>9
<1>3. n \in Good
  <2> HIDE DEF Good
  <2>1. \A m \in 1 .. n : m - 1 \in Good => m \in Good
    BY <1>2
  <2>2. \A m \in 0 .. n : m \in Good
    BY <1>1, <2>1, Upward
  <2> QED  BY <2>2
<1> QED  BY <1>3

-----------------------------------------------------------------------------
(* Units *)

LEMMA UnitsOfOne ==
    ASSUME NEW I, NEW f, NEW x \in I, f[x] \in Nat
    PROVE  IsFiniteSet(Units(f, {x})) /\ Cardinality(Units(f, {x})) = f[x]
<1> DEFINE T == 0 .. (f[x] - 1)
<1>1. IsFiniteSet(T) /\ Cardinality(T) = f[x]
  BY SMTT(30), FS_Interval
<1>2. IsFiniteSet({x}) /\ Cardinality({x}) = 1
  BY FS_Singleton
<1>3. Units(f, {x}) = {x} \X T
  BY DEF Units
<1> HIDE DEF T
<1>4. IsFiniteSet({x} \X T) /\ Cardinality({x} \X T) = 1 * f[x]
  BY <1>1, <1>2, FS_Product
<1>5. \A n \in Nat : 1 * n = n
  OBVIOUS
<1> QED  BY <1>3, <1>4, <1>5

LEMMA UnitsFinite ==
    ASSUME NEW I, IsFiniteSet(I), NEW f, \A i \in I : f[i] \in Nat
    PROVE  IsFiniteSet(Units(f, I)) /\ Cardinality(Units(f, I)) \in Nat
<1> DEFINE g == [i \in I |-> Units(f, {i})]
           S == {g[i] : i \in I}
<1>1. g \in Surjection(I, S)
  BY DEF Surjection
<1>2. IsFiniteSet(S)
  <2> HIDE DEF g, S
  <2> QED  BY <1>1, FS_Surjection
<1>3. \A T \in S : IsFiniteSet(T)
  <2>1. \A i \in I : g[i] = Units(f, {i}) /\ IsFiniteSet(Units(f, {i}))
    BY UnitsOfOne
  <2> QED  BY <2>1
<1>4. Units(f, I) = UNION S
  <2>1. \A i \in I : g[i] = Units(f, {i})
    OBVIOUS
  <2>2. UNION S \subseteq Units(f, I)
    BY <2>1 DEF Units
  <2>3. ASSUME NEW u \in Units(f, I) PROVE u \in UNION S
    <3>1. u[1] \in I /\ u \in Units(f, {u[1]})
      BY DEF Units
    <3> QED  BY <2>1, <3>1
  <2> QED  BY <2>2, <2>3
<1> HIDE DEF S
<1>5. IsFiniteSet(UNION S)
  BY <1>2, <1>3, FS_UNION
<1> QED  BY <1>4, <1>5, FS_CardinalityType

\* Units of disjoint index sets add up.
LEMMA UnitsSplit ==
    ASSUME NEW I, IsFiniteSet(I), NEW f, \A i \in I : f[i] \in Nat, NEW J \in SUBSET I
    PROVE  /\ Cardinality(Units(f, I)) = Cardinality(Units(f, J)) + Cardinality(Units(f, I \ J))
           /\ Cardinality(Units(f, J)) <= Cardinality(Units(f, I))
           /\ Cardinality(Units(f, J)) \in Nat
<1>1. IsFiniteSet(J) /\ IsFiniteSet(I \ J)
  BY FS_Subset
<1>2. /\ IsFiniteSet(Units(f, J)) /\ IsFiniteSet(Units(f, I \ J))
      /\ Cardinality(Units(f, J)) \in Nat /\ Cardinality(Units(f, I \ J)) \in Nat
  BY <1>1, UnitsFinite
<1>3. Units(f, I) = Units(f, J) \cup Units(f, I \ J) /\ Units(f, J) \cap Units(f, I \ J) = {}
  BY DEF Units
<1>4. Cardinality(Units(f, J) \cap Units(f, I \ J)) = 0
  BY <1>3, FS_EmptySet
<1> DEFINE a == Units(f, J)
           b == Units(f, I \ J)
<1> HIDE DEF a, b
<1>5. IsFiniteSet(a) /\ IsFiniteSet(b) /\ Cardinality(a) \in Nat /\ Cardinality(b) \in Nat
  BY <1>2 DEF a, b
<1>6. Cardinality(a \cap b) = 0 /\ Units(f, I) = a \cup b
  BY <1>3, <1>4 DEF a, b
<1>7. Cardinality(a \cup b) = Cardinality(a) + Cardinality(b) - Cardinality(a \cap b)
  BY <1>5, FS_Union
<1>8. Cardinality(a \cup b) = Cardinality(a) + Cardinality(b) /\ Cardinality(a) <= Cardinality(a \cup b)
  BY <1>5, <1>6, <1>7
<1> QED  BY <1>5, <1>6, <1>8 DEF a, b

LEMMA UnitsRemove ==
    ASSUME NEW I, IsFiniteSet(I), NEW f, \A i \in I : f[i] \in Nat, NEW x \in I
    PROVE  Cardinality(Units(f, I)) = f[x] + Cardinality(Units(f, I \ {x}))
<1>1. {x} \in SUBSET I /\ f[x] \in Nat
  OBVIOUS
<1>2. Cardinality(Units(f, I)) = Cardinality(Units(f, {x})) + Cardinality(Units(f, I \ {x}))
  BY <1>1, UnitsSplit
<1>3. Cardinality(Units(f, {x})) = f[x]
  BY <1>1, UnitsOfOne
<1> QED  BY <1>2, <1>3

-----------------------------------------------------------------------------
(* Sums *)

LEMMA SumsOverCounts ==
    ASSUME NEW I, IsFiniteSet(I), NEW f, \A i \in I : f[i] \in Nat, NEW sum, SumsOver(sum, f, I)
    PROVE  sum[I] = Cardinality(Units(f, I))
<1> DEFINE Bad == {s \in SUBSET I : sum[s] # Cardinality(Units(f, s))}
<1>1. SUFFICES ASSUME Bad # {} PROVE FALSE
  OBVIOUS
<1>2. PICK T \in Bad : \A U \in Bad : U \subseteq T => U = T
  <2>1. Bad \subseteq SUBSET I
    OBVIOUS
  <2> HIDE DEF Bad
  <2> QED  BY <1>1, <2>1, LeastSubset
<1>3. T \in SUBSET I /\ IsFiniteSet(T)
  BY FS_Subset
<1>4. T # {}
  <2>1. sum[{}] = 0
    BY DEF SumsOver
  <2>2. Units(f, {}) = {}
    BY DEF Units
  <2> QED  BY <2>1, <2>2, FS_EmptySet
<1>5. PICK x : x = Pick(T)
  OBVIOUS
<1>6. x \in T
  BY <1>4, <1>5 DEF Pick
<1>7. sum[T] = f[x] + sum[T \ {x}]
  BY <1>3, <1>4, <1>5 DEF SumsOver
<1>8. T \ {x} \notin Bad
  BY <1>2, <1>6
<1>9. sum[T \ {x}] = Cardinality(Units(f, T \ {x}))
  BY <1>3, <1>8
<1>10. Cardinality(Units(f, T)) = f[x] + Cardinality(Units(f, T \ {x}))
  BY <1>3, <1>6, UnitsRemove
<1> QED  BY <1>7, <1>9, <1>10

LEMMA SumsOverExists ==
    ASSUME NEW I, IsFiniteSet(I), NEW f, \A i \in I : f[i] \in Nat
    PROVE  SumsOver([s \in SUBSET I |-> Cardinality(Units(f, s))], f, I)
<1> DEFINE g == [s \in SUBSET I |-> Cardinality(Units(f, s))]
           h == [s \in SUBSET I |-> IF s = {} THEN 0 ELSE f[Pick(s)] + g[s \ {Pick(s)}]]
<1>1. ASSUME NEW s \in SUBSET I PROVE g[s] = h[s]
  <2>1. CASE s = {}
    <3>1. Units(f, {}) = {}
      BY DEF Units
    <3> QED  BY <2>1, <3>1, FS_EmptySet
  <2>2. CASE s # {}
    <3>1. PICK x : x = Pick(s)
      OBVIOUS
    <3>2. x \in s /\ IsFiniteSet(s)
      BY <2>2, <3>1, FS_Subset DEF Pick
    <3>3. Cardinality(Units(f, s)) = f[x] + Cardinality(Units(f, s \ {x}))
      BY <3>2, UnitsRemove
    <3>4. g[s \ {x}] = Cardinality(Units(f, s \ {x})) /\ g[s] = Cardinality(Units(f, s))
      OBVIOUS
    <3>5. h[s] = f[x] + g[s \ {x}]
      BY <2>2, <3>1
    <3> QED  BY <3>3, <3>4, <3>5
  <2> QED  BY <2>1, <2>2
<1>2. g = h
  BY <1>1
<1> QED  BY <1>2 DEF SumsOver
=============================================================================
