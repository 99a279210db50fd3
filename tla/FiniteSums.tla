------------------------------ MODULE FiniteSums ------------------------------
(***************************************************************************)
(* Facts that proofs about several components rest on: the least of some   *)
(* numbers, SumFunctionOnSet on finite sets (the counters of the contract, *)
(* the amounts of batches), and a step that is applied again and again     *)
(* (the way up a hash tree).                                               *)
(***************************************************************************)
EXTENDS Integers, FiniteSets, Functions, FiniteSetTheorems, WellFoundedInduction, TLAPS

\* A set of natural numbers has a least element: the form of induction that
\* the proofs use.
LEMMA LeastNumber ==
  ASSUME NEW T, T \subseteq Nat, T # {}
  PROVE  \E n \in T : \A m \in T : n <= m
<1>1. PICK n \in T : \A m \in T : ~(<<m, n>> \in OpToRel(<, Nat))
  BY NatLessThanWellFounded, WFMin, Zenon
<1>2. ASSUME NEW m \in T PROVE n <= m
  <2>1. ~(m < n)
    BY <1>1, Zenon DEF OpToRel
  <2> QED BY <2>1
<1> QED BY <1>2

-----------------------------------------------------------------------------

Pick(s) == CHOOSE x \in s : TRUE

SameOn(f, g, S) == \A x \in S : f[x] = g[x]

Summable(f, S) == IsFiniteSet(S) /\ \A x \in S : f[x] \in Int

\* g gives the sum of f over every set of D, which has the subsets of its sets.
AddsUp(g, f, D) ==
  g = [s \in D |-> IF s = {} THEN 0 ELSE f[Pick(s)] + g[s \ {Pick(s)}]]

Sums(f, S) == CHOOSE g : AddsUp(g, f, SUBSET S)

LEMMA SumIsSums ==
  ASSUME NEW f, NEW S
  PROVE  SumFunctionOnSet(f, S) = Sums(f, S)[S]
BY DEF SumFunctionOnSet, FoldFunctionOnSet, MapThenFoldSet, Sums, AddsUp, Pick

LEMMA PickOne ==
  ASSUME NEW s, IsFiniteSet(s), s # {}
  PROVE  /\ Pick(s) \in s /\ Cardinality(s) \in Nat \ {0}
         /\ IsFiniteSet(s \ {Pick(s)}) /\ Cardinality(s \ {Pick(s)}) = Cardinality(s) - 1
<1>1. Pick(s) \in s
  BY DEF Pick
<1>2. Cardinality(s) \in Nat /\ Cardinality(s) # 0
  BY FS_CardinalityType, FS_EmptySet
<1> QED BY <1>1, <1>2, FS_RemoveElement

LEMMA SumsExist ==
  ASSUME NEW f, NEW S, Summable(f, S)
  PROVE  \E g \in [SUBSET S -> Int] : AddsUp(g, f, SUBSET S)
<1> DEFINE Small(n) == {s \in SUBSET S : Cardinality(s) <= n}
           Added(n) == \E g \in [Small(n) -> Int] : AddsUp(g, f, Small(n))
<1>1. \A s \in SUBSET S : IsFiniteSet(s) /\ Cardinality(s) \in Nat
  BY FS_Subset, FS_CardinalityType DEF Summable
<1>2. Added(0)
  <2>1. \A s \in Small(0) : s = {}
    BY <1>1, FS_EmptySet
  <2> DEFINE g == [s \in Small(0) |-> 0]
  <2>2. g \in [Small(0) -> Int] /\ AddsUp(g, f, Small(0))
    BY <2>1 DEF AddsUp
  <2> QED BY <2>2
<1>3. ASSUME NEW n \in Nat, n # 0, Added(n - 1) PROVE Added(n)
  <2>1. PICK g \in [Small(n - 1) -> Int] : AddsUp(g, f, Small(n - 1))
    BY <1>3
  <2> DEFINE h == [s \in Small(n) |-> IF s = {} THEN 0 ELSE f[Pick(s)] + g[s \ {Pick(s)}]]
  <2>2. ASSUME NEW s \in Small(n), s # {}
        PROVE  s \ {Pick(s)} \in Small(n - 1) /\ s \ {Pick(s)} \in Small(n) /\ Pick(s) \in S
    <3>1. /\ Pick(s) \in s /\ Cardinality(s) \in Nat
          /\ Cardinality(s \ {Pick(s)}) = Cardinality(s) - 1
      BY <1>1, <2>2, PickOne
    <3> QED BY <3>1
  <2>3. h \in [Small(n) -> Int]
    <3> HIDE DEF Small
    <3> QED BY <2>1, <2>2 DEF Small, Summable
  <2>4. ASSUME NEW t \in Small(n - 1) PROVE g[t] = h[t]
    <3>1. t \in Small(n)
      BY <1>1
    <3>2. g[t] = IF t = {} THEN 0 ELSE f[Pick(t)] + g[t \ {Pick(t)}]
      BY <2>1 DEF AddsUp
    <3> HIDE DEF Small
    <3> QED BY <3>1, <3>2
  <2>5. AddsUp(h, f, Small(n))
    <3>1. ASSUME NEW s \in Small(n)
          PROVE  h[s] = IF s = {} THEN 0 ELSE f[Pick(s)] + h[s \ {Pick(s)}]
      <4> HIDE DEF Small
      <4>1. h[s] = IF s = {} THEN 0 ELSE f[Pick(s)] + g[s \ {Pick(s)}]
        OBVIOUS
      <4> QED BY <4>1, <2>2, <2>4
    <3> HIDE DEF Small
    <3>2. h = [s \in Small(n) |-> IF s = {} THEN 0 ELSE f[Pick(s)] + h[s \ {Pick(s)}]]
      <4> DEFINE k == [s \in Small(n) |-> IF s = {} THEN 0 ELSE f[Pick(s)] + h[s \ {Pick(s)}]]
      <4>1. \A s \in Small(n) : h[s] = k[s]
        BY <3>1
      <4> QED BY <4>1
    <3> QED BY <3>2 DEF AddsUp
  <2> HIDE DEF h, Small
  <2> QED BY <2>3, <2>5
<1>4. \A n \in Nat : Added(n)
  <2> DEFINE T == {n \in Nat : ~Added(n)}
  <2> HIDE DEF Added
  <2>1. SUFFICES ASSUME T # {} PROVE FALSE
    OBVIOUS
  <2>2. PICK n \in T : \A m \in T : n <= m
    BY <2>1, LeastNumber
  <2>3. n # 0 /\ n \in Nat
    BY <1>2
  <2>4. n - 1 \in Nat /\ n - 1 \notin T
    BY <2>2, <2>3
  <2> QED BY <2>3, <2>4, <1>3
<1>5. Cardinality(S) \in Nat /\ Small(Cardinality(S)) = SUBSET S
  BY <1>1, FS_Subset
<1>6. Added(Cardinality(S))
  BY <1>4, <1>5
<1> HIDE DEF Small
<1> QED BY <1>5, <1>6

LEMMA SumsAddUp ==
  ASSUME NEW f, NEW S, Summable(f, S)
  PROVE  \A s \in SUBSET S :
           /\ Sums(f, S)[s] \in Int
           /\ Sums(f, S)[s] = IF s = {} THEN 0 ELSE f[Pick(s)] + Sums(f, S)[s \ {Pick(s)}]
<1> DEFINE g == Sums(f, S)
<1>1. PICK h \in [SUBSET S -> Int] : AddsUp(h, f, SUBSET S)
  BY SumsExist
<1>2. AddsUp(g, f, SUBSET S)
  BY <1>1 DEF Sums
<1> HIDE DEF g
<1>3. \A s \in SUBSET S : g[s] = IF s = {} THEN 0 ELSE f[Pick(s)] + g[s \ {Pick(s)}]
  BY <1>2 DEF AddsUp
<1>4. \A s \in SUBSET S : g[s] \in Int
  <2> DEFINE T == {Cardinality(s) : s \in {s \in SUBSET S : g[s] \notin Int}}
  <2>1. \A s \in SUBSET S : IsFiniteSet(s) /\ Cardinality(s) \in Nat
    BY FS_Subset, FS_CardinalityType DEF Summable
  <2>2. SUFFICES ASSUME T # {} PROVE FALSE
    OBVIOUS
  <2>3. T \subseteq Nat
    BY <2>1
  <2>4. PICK n \in T : \A m \in T : n <= m
    BY <2>2, <2>3, LeastNumber
  <2>5. PICK s \in SUBSET S : g[s] \notin Int /\ Cardinality(s) = n
    OBVIOUS
  <2>6. s # {}
    <3>1. s = {} => g[s] = 0
      BY <1>3
    <3> QED BY <3>1, <2>5
  <2>7. /\ Pick(s) \in s /\ n \in Nat \ {0} /\ Cardinality(s \ {Pick(s)}) = n - 1
        /\ s \ {Pick(s)} \in SUBSET S
    BY <2>1, <2>5, <2>6, PickOne
  <2>8. g[s \ {Pick(s)}] \in Int
    BY <2>4, <2>7
  <2>9. f[Pick(s)] \in Int
    BY <2>7 DEF Summable
  <2>10. g[s] = f[Pick(s)] + g[s \ {Pick(s)}]
    BY <2>6, <1>3
  <2> QED BY <2>5, <2>8, <2>9, <2>10
<1> QED BY <1>3, <1>4 DEF g

-----------------------------------------------------------------------------
(***************************************************************************)
(* What the proofs use: a sum is an integer, an element can be taken out,  *)
(* and only the values on the set count.                                   *)
(***************************************************************************)

LEMMA SumIsInt ==
  ASSUME NEW f, NEW S, Summable(f, S)
  PROVE  SumFunctionOnSet(f, S) \in Int
BY SumIsSums, SumsAddUp

LEMMA SumOfNone == ASSUME NEW f PROVE SumFunctionOnSet(f, {}) = 0
<1>1. Summable(f, {})
  BY FS_EmptySet DEF Summable
<1> QED BY <1>1, SumIsSums, SumsAddUp

\* In whatever order the elements are picked
LEMMA AnyElementFirst ==
  ASSUME NEW f, NEW S, Summable(f, S)
  PROVE  \A s \in SUBSET S : \A x \in s : Sums(f, S)[s] = f[x] + Sums(f, S)[s \ {x}]
<1> DEFINE g == Sums(f, S)
           Any(s) == \A x \in s : g[s] = f[x] + g[s \ {x}]
           T == {Cardinality(s) : s \in {s \in SUBSET S : ~Any(s)}}
<1>1. \A s \in SUBSET S :
        g[s] \in Int /\ g[s] = IF s = {} THEN 0 ELSE f[Pick(s)] + g[s \ {Pick(s)}]
  BY SumsAddUp
<1>2. \A s \in SUBSET S : IsFiniteSet(s) /\ Cardinality(s) \in Nat
  BY FS_Subset, FS_CardinalityType DEF Summable
<1> HIDE DEF g
<1>3. SUFFICES ASSUME T # {} PROVE FALSE
  BY DEF g
<1>4. T \subseteq Nat
  BY <1>2
<1>5. PICK n \in T : \A m \in T : n <= m
  BY <1>3, <1>4, LeastNumber
<1>6. PICK s \in SUBSET S : ~Any(s) /\ Cardinality(s) = n
  BY <1>5
<1>7. PICK x \in s : g[s] # f[x] + g[s \ {x}]
  BY <1>6
<1> DEFINE y == Pick(s)
<1>8. y \in s /\ g[s] = f[y] + g[s \ {y}] /\ y # x /\ n \in Nat
  BY <1>1, <1>2, <1>4, <1>6, <1>7, PickOne
<1> HIDE DEF y
<1>9. ASSUME NEW z \in s PROVE Any(s \ {z})
  <2>1. Cardinality(s \ {z}) = n - 1 /\ s \ {z} \in SUBSET S
    BY <1>2, <1>6, FS_RemoveElement
  <2> QED BY <2>1, <1>5, <1>8
<1>10. g[s \ {y}] = f[x] + g[(s \ {y}) \ {x}]
  BY <1>8, <1>9
<1>11. g[s \ {x}] = f[y] + g[(s \ {x}) \ {y}]
  BY <1>8, <1>9
<1>12. (s \ {y}) \ {x} = (s \ {x}) \ {y}
  OBVIOUS
<1>13. g[(s \ {x}) \ {y}] \in Int /\ f[x] \in Int /\ f[y] \in Int
  BY <1>1, <1>8 DEF Summable
<1>14. g[(s \ {x}) \ {y}] = g[(s \ {y}) \ {x}]
  BY <1>12
<1> QED BY <1>7, <1>8, <1>10, <1>11, <1>13, <1>14

LEMMA SumsRecur ==
  ASSUME NEW f, NEW S, Summable(f, S)
  PROVE  \A s \in SUBSET S :
           Sums(f, S)[s] = IF s = {} THEN 0 ELSE f[Pick(s)] + Sums(f, S)[s \ {Pick(s)}]
BY SumsAddUp

\* Two functions that agree on a set have the same sum, whatever else is added up.
LEMMA SameSums ==
  ASSUME NEW f, NEW g, NEW S, NEW R, Summable(f, S), IsFiniteSet(R), R \subseteq S, SameOn(f, g, R)
  PROVE  Sums(f, S)[R] = Sums(g, R)[R]
<1> DEFINE a == Sums(f, S)
           b == Sums(g, R)
           T == {Cardinality(s) : s \in {s \in SUBSET R : a[s] # b[s]}}
<1>1. \A s \in SUBSET S : a[s] = IF s = {} THEN 0 ELSE f[Pick(s)] + a[s \ {Pick(s)}]
  BY SumsRecur
<1>2. \A s \in SUBSET R : b[s] = IF s = {} THEN 0 ELSE g[Pick(s)] + b[s \ {Pick(s)}]
  <2>1. Summable(g, R)
    BY DEF Summable, SameOn
  <2> QED BY <2>1, SumsRecur
<1>3. \A s \in SUBSET R : IsFiniteSet(s) /\ Cardinality(s) \in Nat
  BY FS_Subset, FS_CardinalityType
<1> HIDE DEF a, b
<1>4. SUFFICES ASSUME T # {} PROVE FALSE
  BY DEF a, b
<1>5. T \subseteq Nat
  BY <1>3
<1>6. PICK n \in T : \A m \in T : n <= m
  BY <1>4, <1>5, LeastNumber
<1>7. PICK s \in SUBSET R : a[s] # b[s] /\ Cardinality(s) = n
  BY <1>6
<1>8. s # {}
  <2>1. s = {} => a[s] = b[s]
    BY <1>1, <1>2
  <2> QED BY <2>1, <1>7
<1>9. /\ Pick(s) \in s /\ Cardinality(s \ {Pick(s)}) = n - 1 /\ n \in Nat \ {0}
      /\ s \ {Pick(s)} \in SUBSET R
  BY <1>3, <1>7, <1>8, PickOne
<1>10. a[s \ {Pick(s)}] = b[s \ {Pick(s)}]
  BY <1>6, <1>9
<1>11. a[s] = f[Pick(s)] + a[s \ {Pick(s)}] /\ b[s] = g[Pick(s)] + b[s \ {Pick(s)}]
  BY <1>1, <1>2, <1>8
<1>12. g[Pick(s)] = f[Pick(s)]
  BY <1>9 DEF SameOn
<1> QED BY <1>7, <1>10, <1>11, <1>12

LEMMA SumTakesOut ==
  ASSUME NEW f, NEW S, Summable(f, S), NEW x \in S
  PROVE  /\ SumFunctionOnSet(f, S) = f[x] + SumFunctionOnSet(f, S \ {x})
         /\ SumFunctionOnSet(f, S \ {x}) \in Int
<1>1. IsFiniteSet(S \ {x}) /\ S \ {x} \subseteq S
  BY FS_RemoveElement DEF Summable
<1>2. Sums(f, S)[S] = f[x] + Sums(f, S)[S \ {x}]
  BY AnyElementFirst
<1>3. Summable(f, S \ {x})
  BY <1>1 DEF Summable
<1>4. Sums(f, S)[S \ {x}] = Sums(f, S \ {x})[S \ {x}]
  <2>1. SameOn(f, f, S \ {x})
    BY DEF SameOn
  <2> QED BY <1>1, <2>1, SameSums
<1> QED BY <1>2, <1>3, <1>4, SumIsSums, SumIsInt

LEMMA SumAgrees ==
  ASSUME NEW f, NEW g, NEW S, Summable(f, S), SameOn(f, g, S)
  PROVE  SumFunctionOnSet(f, S) = SumFunctionOnSet(g, S)
<1>1. IsFiniteSet(S)
  BY DEF Summable
<1> QED BY <1>1, SameSums, SumIsSums

\* Zeros add up to zero.
LEMMA SumIsZero ==
  ASSUME NEW S, IsFiniteSet(S), NEW f, \A x \in S : f[x] = 0
  PROVE  SumFunctionOnSet(f, S) = 0
<1> DEFINE T == {Cardinality(s) : s \in {s \in SUBSET S : SumFunctionOnSet(f, s) # 0}}
<1>1. \A s \in SUBSET S : IsFiniteSet(s) /\ Cardinality(s) \in Nat
  BY FS_Subset, FS_CardinalityType
<1>2. SUFFICES ASSUME T # {} PROVE FALSE
  OBVIOUS
<1>3. T \subseteq Nat
  BY <1>1
<1>4. PICK n \in T : \A m \in T : n <= m
  BY <1>2, <1>3, LeastNumber
<1>5. PICK s \in SUBSET S : SumFunctionOnSet(f, s) # 0 /\ Cardinality(s) = n
  BY <1>4
<1>6. PICK x \in s : TRUE
  BY <1>5, SumOfNone
<1>7. Cardinality(s \ {x}) = n - 1 /\ n \in Nat /\ s \ {x} \in SUBSET S
  BY <1>1, <1>3, <1>5, FS_RemoveElement
<1>8. SumFunctionOnSet(f, s \ {x}) = 0
  BY <1>4, <1>7
<1>9. Summable(f, s)
  BY <1>1 DEF Summable
<1>10. SumFunctionOnSet(f, s) = f[x] + SumFunctionOnSet(f, s \ {x})
  BY <1>9, SumTakesOut
<1> QED BY <1>5, <1>8, <1>10

\* One count goes up.
LEMMA SumGoesUp ==
  ASSUME NEW S, IsFiniteSet(S), NEW f \in [S -> Int], NEW x \in S, NEW d \in Int,
         NEW g \in [S -> Int], g[x] = f[x] + d, \A y \in S \ {x} : g[y] = f[y]
  PROVE  SumFunction(g) = SumFunction(f) + d /\ SumFunction(f) \in Int
<1>1. Summable(f, S) /\ Summable(g, S) /\ Summable(f, S \ {x})
  BY FS_RemoveElement DEF Summable
<1>2. SumFunctionOnSet(f, S \ {x}) = SumFunctionOnSet(g, S \ {x})
  BY <1>1, SumAgrees DEF SameOn
<1>3. SumFunctionOnSet(f, S) = f[x] + SumFunctionOnSet(f, S \ {x}) /\ SumFunctionOnSet(f, S \ {x}) \in Int
  BY <1>1, SumTakesOut
<1>4. SumFunctionOnSet(g, S) = g[x] + SumFunctionOnSet(g, S \ {x})
  BY <1>1, SumTakesOut
<1>5. SumFunction(f) = SumFunctionOnSet(f, S) /\ SumFunction(g) = SumFunctionOnSet(g, S)
  BY DEF SumFunction
<1> QED BY <1>2, <1>3, <1>4, <1>5


-----------------------------------------------------------------------------
(***************************************************************************)
(* A number to which a step is applied again and again                     *)
(***************************************************************************)

Iterates(g, base, step, n) == g = [l \in 0..n |-> IF l = 0 THEN base ELSE step[g[l-1]]]

LEMMA IteratesExist ==
  ASSUME NEW base \in Nat, NEW step \in [Nat -> Nat]
  PROVE  \A n \in Nat : \E g \in [0..n -> Nat] : Iterates(g, base, step, n)
<1> DEFINE Missing == {n \in Nat : ~\E g \in [0..n -> Nat] : Iterates(g, base, step, n)}
<1>1. SUFFICES ASSUME Missing # {} PROVE FALSE
  OBVIOUS
<1>2. PICK n \in Nat : n \in Missing /\ \A m \in Missing : n <= m
  <2>1. Missing \subseteq Nat
    OBVIOUS
  <2> HIDE DEF Missing
  <2> QED BY <1>1, <2>1, LeastNumber
<1>3. CASE n = 0
  <2> DEFINE g == [l \in 0..0 |-> base]
  <2>1. g = [l \in 0..0 |-> IF l = 0 THEN base ELSE step[g[l-1]]] /\ g \in [0..0 -> Nat]
    OBVIOUS
  <2> HIDE DEF g
  <2> QED BY <1>2, <1>3, <2>1 DEF Iterates
<1>4. CASE n # 0
  <2>1. n - 1 \in Nat /\ n - 1 \notin Missing
    <3> HIDE DEF Missing
    <3> QED BY <1>2, <1>4
  <2>2. PICK h \in [0..(n-1) -> Nat] : Iterates(h, base, step, n - 1)
    BY <2>1
  <2> DEFINE last == step[h[n-1]]
             g == [l \in 0..n |-> IF l = n THEN last ELSE h[l]]
             f == [l \in 0..n |-> IF l = 0 THEN base ELSE step[g[l-1]]]
  <2>3. \A l \in 0..(n - 1) : h[l] = IF l = 0 THEN base ELSE step[h[l-1]]
    BY <2>2 DEF Iterates
  <2>4. last \in Nat /\ \A l \in 0..(n - 1) : h[l] \in Nat
    <3>1. n - 1 \in 0..(n - 1)
      BY <2>1
    <3>2. h[n - 1] \in Nat
      BY <3>1
    <3> QED BY <3>2
  <2>5. ASSUME NEW l \in 0..n PROVE g[l] = f[l]
    <3>1. CASE l = n
      <4>1. g[n] = last /\ g[n-1] = h[n-1]
        BY <2>1
      <4>2. f[n] = step[g[n-1]]
        BY <1>4, <2>1
      <4> QED BY <3>1, <4>1, <4>2
    <3>2. CASE l # n /\ l # 0
      <4>1. g[l] = h[l] /\ g[l-1] = h[l-1] /\ l \in 0..(n - 1)
        BY <2>1, <3>2
      <4>2. f[l] = step[g[l-1]]
        BY <3>2
      <4> QED BY <2>3, <3>2, <4>1, <4>2
    <3>3. CASE l # n /\ l = 0
      <4>1. g[0] = h[0] /\ h[0] = base /\ f[0] = base
        BY <2>1, <2>3, <3>3
      <4> QED BY <3>3, <4>1
    <3> QED BY <3>1, <3>2, <3>3
  <2>6. g = f
    <3>1. g = [l \in 0..n |-> g[l]] /\ f = [l \in 0..n |-> f[l]]
      OBVIOUS
    <3> HIDE DEF g, f
    <3> QED BY <2>5, <3>1
  <2>7. g \in [0..n -> Nat]
    <3> HIDE DEF last
    <3>1. \A l \in 0..n : l # n => l \in 0..(n - 1)
      BY <2>1
    <3> QED BY <2>4, <3>1
  <2>8. Iterates(g, base, step, n)
    <3> HIDE DEF g
    <3> QED BY <2>6 DEF Iterates
  <2> HIDE DEF g
  <2> QED BY <1>2, <2>7, <2>8
<1> QED BY <1>3, <1>4
=============================================================================
