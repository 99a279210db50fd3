------------------------- MODULE MerkleTree32_proofs -------------------------
(***************************************************************************)
(* Proofs about MerkleTree32, for a tree of any height, any writers and    *)
(* values, batches of any size and any number of transactions and faults.  *)
(***************************************************************************)
EXTENDS MerkleTree32, FiniteSums, SequenceTheorems

-----------------------------------------------------------------------------
(***************************************************************************)
(* The recursive functions of the specification exist: each goes up the    *)
(* levels from a value at 0 and a step, named by its kind.                 *)
(***************************************************************************)

\* A step of generate_proof and verify: the hash with its sibling
Climb(leaf, l, x) ==
  LET k == IndexAt(leaf)[l - 1]
  IN IF k % 2 = 1 THEN <<Stored(l - 1, k - 1), x>> ELSE <<x, Stored(l - 1, k + 1)>>

StepOf(kind, leaf, l, x) ==
  CASE kind = "twice" -> 2 * x
    [] kind = "half"  -> x \div 2
    [] kind = "pair"  -> <<x, x>>
    [] kind = "climb" -> Climb(leaf, l, x)
    [] kind = "level" -> [k \in 0 .. TwoTo[Height - l] - 1 |-> <<x[2 * k], x[2 * k + 1]>>]
    [] kind = "down"  -> x[1 + (IndexAt(leaf)[Height - l] % 2)]

Goes(g, kind, leaf, base, n) ==
  g = [l \in 0 .. n |-> IF l = 0 THEN base ELSE StepOf(kind, leaf, l, g[l - 1])]

LEMMA HeightIsPositive == Height \in Nat /\ Height # 0 /\ Height - 1 \in Nat
BY TreeAssumption

LEMMA RecursionExists ==
  ASSUME NEW kind, NEW leaf, NEW base
  PROVE  \A n \in Nat : \E g : Goes(g, kind, leaf, base, n)
<1> DEFINE Missing == {n \in Nat : ~\E g : Goes(g, kind, leaf, base, n)}
<1>1. SUFFICES ASSUME Missing # {} PROVE FALSE
  OBVIOUS
<1>2. PICK n \in Missing : \A m \in Missing : n <= m
  BY <1>1, LeastNumber
<1>3. CASE n = 0
  <2> DEFINE g == [l \in 0 .. 0 |-> base]
  <2>1. g = [l \in 0 .. 0 |-> IF l = 0 THEN base ELSE StepOf(kind, leaf, l, g[l - 1])]
    OBVIOUS
  <2> HIDE DEF g
  <2> QED BY <1>2, <1>3, <2>1 DEF Goes
<1>4. CASE n # 0
  <2>1. n \in Nat /\ n - 1 \in Nat /\ n - 1 \notin Missing
    BY <1>2, <1>4
  <2>2. PICK h : Goes(h, kind, leaf, base, n - 1)
    BY <2>1
  <2> DEFINE g == [l \in 0 .. n |-> IF l = n THEN StepOf(kind, leaf, n, h[n - 1]) ELSE h[l]]
             f == [l \in 0 .. n |-> IF l = 0 THEN base ELSE StepOf(kind, leaf, l, g[l - 1])]
  <2>3. \A l \in 0 .. n - 1 : h[l] = IF l = 0 THEN base ELSE StepOf(kind, leaf, l, h[l - 1])
    BY <2>2 DEF Goes
  <2>4. ASSUME NEW l \in 0 .. n PROVE g[l] = f[l]
    <3>1. CASE l = n
      <4>1. g[n] = StepOf(kind, leaf, n, h[n - 1]) /\ g[n - 1] = h[n - 1]
        BY <2>1
      <4>2. f[n] = StepOf(kind, leaf, n, g[n - 1])
        BY <1>4, <2>1
      <4> QED BY <3>1, <4>1, <4>2
    <3>2. CASE l # n /\ l # 0
      <4>1. g[l] = h[l] /\ g[l - 1] = h[l - 1] /\ l \in 0 .. n - 1
        BY <2>1, <3>2
      <4>2. f[l] = StepOf(kind, leaf, l, g[l - 1])
        BY <3>2
      <4> QED BY <2>3, <3>2, <4>1, <4>2
    <3>3. CASE l # n /\ l = 0
      <4>1. g[0] = h[0] /\ h[0] = base /\ f[0] = base
        BY <2>1, <2>3, <3>3
      <4> QED BY <3>3, <4>1
    <3> QED BY <3>1, <3>2, <3>3
  <2>5. g = f
    <3>1. g = [l \in 0 .. n |-> g[l]] /\ f = [l \in 0 .. n |-> f[l]]
      OBVIOUS
    <3> HIDE DEF g, f
    <3> QED BY <2>4, <3>1
  <2>6. Goes(g, kind, leaf, base, n)
    <3> HIDE DEF g
    <3> QED BY <2>5 DEF Goes
  <2> QED BY <1>2, <2>6
<1> QED BY <1>3, <1>4

LEMMA TwoToRecursion ==
  TwoTo[0] = 1 /\ \A n \in 1 .. Height : TwoTo[n] = 2 * TwoTo[n - 1]
<1>1. PICK g : Goes(g, "twice", 0, 1, Height)
  BY RecursionExists, HeightIsPositive
<1>2. g = [n \in 0 .. Height |-> IF n = 0 THEN 1 ELSE 2 * g[n - 1]]
  BY <1>1 DEF Goes, StepOf
<1>3. TwoTo = [n \in 0 .. Height |-> IF n = 0 THEN 1 ELSE 2 * TwoTo[n - 1]]
  BY <1>2 DEF TwoTo
<1> QED BY <1>3, HeightIsPositive

LEMMA ZeroHashRecursion ==
  /\ ZeroHash[0] = EmptyLeaf
  /\ \A l \in 1 .. Height : ZeroHash[l] = <<ZeroHash[l - 1], ZeroHash[l - 1]>>
<1>1. PICK g : Goes(g, "pair", 0, EmptyLeaf, Height)
  BY RecursionExists, HeightIsPositive
<1>2. g = [l \in 0 .. Height |-> IF l = 0 THEN EmptyLeaf ELSE <<g[l - 1], g[l - 1]>>]
  BY <1>1 DEF Goes, StepOf
<1>3. ZeroHash = [l \in 0 .. Height |-> IF l = 0 THEN EmptyLeaf ELSE <<ZeroHash[l - 1], ZeroHash[l - 1]>>]
  BY <1>2 DEF ZeroHash
<1>4. ZeroHash[0] = EmptyLeaf
  BY <1>3, HeightIsPositive
<1>5. ASSUME NEW l \in 1 .. Height PROVE ZeroHash[l] = <<ZeroHash[l - 1], ZeroHash[l - 1]>>
  <2>1. l \in 0 .. Height /\ l # 0
    OBVIOUS
  <2> QED BY <1>3, <2>1
<1> QED BY <1>4, <1>5

LEMMA IndexRecursion ==
  ASSUME NEW leaf
  PROVE  /\ IndexAt(leaf)[0] = leaf
         /\ \A l \in 1 .. Height : IndexAt(leaf)[l] = IndexAt(leaf)[l - 1] \div 2
<1>1. PICK g : Goes(g, "half", leaf, leaf, Height)
  BY RecursionExists, HeightIsPositive
<1>2. g = [l \in 0 .. Height |-> IF l = 0 THEN leaf ELSE g[l - 1] \div 2]
  BY <1>1 DEF Goes, StepOf
<1> DEFINE f == IndexAt(leaf)
<1>3. f = [l \in 0 .. Height |-> IF l = 0 THEN leaf ELSE f[l - 1] \div 2]
  BY <1>2 DEF IndexAt
<1> HIDE DEF f
<1>4. f[0] = leaf
  BY <1>3, HeightIsPositive
<1>5. ASSUME NEW l \in 1 .. Height PROVE f[l] = f[l - 1] \div 2
  <2>1. l \in 0 .. Height /\ l # 0
    OBVIOUS
  <2> QED BY <1>3, <2>1
<1> QED BY <1>4, <1>5 DEF f

\* The functions that other definitions choose, for a step that is named
Going(kind, leaf, base) == CHOOSE g : Goes(g, kind, leaf, base, Height)

LEMMA GoingRecursion ==
  ASSUME NEW kind, NEW leaf, NEW base
  PROVE  LET g == Going(kind, leaf, base)
         IN g[0] = base /\ \A l \in 1 .. Height : g[l] = StepOf(kind, leaf, l, g[l - 1])
<1>1. \E g : Goes(g, kind, leaf, base, Height)
  BY RecursionExists, HeightIsPositive
<1>2. Goes(Going(kind, leaf, base), kind, leaf, base, Height)
  BY <1>1 DEF Going
<1> HIDE DEF Going
<1> QED BY <1>2, HeightIsPositive DEF Goes

-----------------------------------------------------------------------------
(***************************************************************************)
(* Indexes                                                                 *)
(***************************************************************************)

LEMMA TwoToType == \A n \in 0 .. Height : TwoTo[n] \in Nat \ {0}
<1> DEFINE Bad == {n \in 0 .. Height : TwoTo[n] \notin Nat \ {0}}
<1>1. SUFFICES ASSUME Bad # {} PROVE FALSE
  OBVIOUS
<1>2. Bad \subseteq Nat
  BY HeightIsPositive
<1>3. PICK n \in Bad : \A m \in Bad : n <= m
  BY <1>1, <1>2, LeastNumber
<1>4. CASE n = 0
  BY <1>3, <1>4, TwoToRecursion
<1>5. CASE n # 0
  <2>1. n \in 1 .. Height /\ n - 1 \in 0 .. Height /\ n - 1 \notin Bad
    BY <1>3, <1>5, HeightIsPositive
  <2>2. TwoTo[n] = 2 * TwoTo[n - 1] /\ TwoTo[n - 1] \in Nat \ {0}
    BY <2>1, TwoToRecursion
  <2>3. TwoTo[n] \in Nat \ {0}
    BY <2>2
  <2> QED BY <1>3, <2>3
<1> QED BY <1>4, <1>5

\* The nodes of a level, from 0
Level(l) == 0 .. TwoTo[Height - l] - 1

LEMMA LevelAbove ==
  ASSUME NEW l \in 1 .. Height
  PROVE  /\ TwoTo[Height - (l - 1)] = 2 * TwoTo[Height - l]
         /\ TwoTo[Height - l] \in Nat \ {0}
         /\ \A k \in Level(l - 1) : k \div 2 \in Level(l)
         /\ \A k \in Level(l) : 2 * k \in Level(l - 1) /\ 2 * k + 1 \in Level(l - 1)
<1>1. Height - (l - 1) \in 1 .. Height /\ Height - (l - 1) - 1 = Height - l /\ Height - l \in 0 .. Height
  BY HeightIsPositive
<1>2. TwoTo[Height - (l - 1)] = 2 * TwoTo[Height - l] /\ TwoTo[Height - l] \in Nat \ {0}
  BY <1>1, TwoToRecursion, TwoToType
<1> DEFINE w == TwoTo[Height - l]
<1>3. Level(l - 1) = 0 .. 2 * w - 1 /\ Level(l) = 0 .. w - 1 /\ w \in Nat \ {0}
  BY <1>2 DEF Level
<1> HIDE DEF w
<1> QED BY <1>2, <1>3

LEMMA TopLevel == Level(Height) = {0} /\ Level(0) = 0 .. Capacity - 1
<1>1. Height - Height = 0 /\ Height - 0 = Height
  BY HeightIsPositive
<1> QED BY <1>1, TwoToRecursion DEF Level, Capacity

LEMMA IndexInLevel ==
  ASSUME NEW leaf \in 0 .. Capacity - 1
  PROVE  \A l \in 0 .. Height : IndexAt(leaf)[l] \in Level(l)
<1> DEFINE Bad == {l \in 0 .. Height : IndexAt(leaf)[l] \notin Level(l)}
<1>1. SUFFICES ASSUME Bad # {} PROVE FALSE
  OBVIOUS
<1>2. Bad \subseteq Nat
  BY HeightIsPositive
<1>3. PICK l \in Bad : \A m \in Bad : l <= m
  BY <1>1, <1>2, LeastNumber
<1>4. CASE l = 0
  BY <1>3, <1>4, IndexRecursion, TopLevel
<1>5. CASE l # 0
  <2>1. l \in 1 .. Height /\ l - 1 \in 0 .. Height /\ l - 1 \notin Bad
    BY <1>3, <1>5, HeightIsPositive
  <2>2. IndexAt(leaf)[l - 1] \in Level(l - 1) /\ IndexAt(leaf)[l] = IndexAt(leaf)[l - 1] \div 2
    BY <2>1, IndexRecursion
  <2>3. IndexAt(leaf)[l] \in Level(l)
    BY <2>1, <2>2, LevelAbove
  <2> QED BY <1>3, <2>3
<1> QED BY <1>4, <1>5

\* The node of a level on the path of a leaf
At(leaf, l) == <<l, IndexAt(leaf)[l]>>

LEMMA PositionsAre ==
  \A l, k : <<l, k>> \in Positions <=> l \in 0 .. Height /\ k \in Level(l)
BY DEF Positions, Level

LEMMA AffectedAre ==
  ASSUME NEW us
  PROVE  \A p : p \in AffectedPaths(us) <=> \E i \in DOMAIN us, l \in 1 .. Height : p = At(us[i].leaf, l)
BY DEF AffectedPaths, At

LEMMA AffectedInTree ==
  ASSUME NEW us \in Seq(Update), WithinCapacity(us)
  PROVE  /\ \A i \in DOMAIN us : us[i].leaf \in 0 .. Capacity - 1
         /\ \A i \in DOMAIN us : \A l \in 0 .. Height : IndexAt(us[i].leaf)[l] \in Level(l)
         /\ \A i \in DOMAIN us : \A l \in 1 .. Height : At(us[i].leaf, l) \in AffectedPaths(us)
         /\ \A p \in AffectedPaths(us) : \E l \in 1 .. Height : \E k \in Level(l) : p = <<l, k>>
<1>1. Capacity \in Nat \ {0}
  BY TwoToType, HeightIsPositive DEF Capacity
<1>2. ASSUME NEW i \in DOMAIN us PROVE us[i].leaf \in 0 .. Capacity - 1
  <2>1. us[i] \in Update
    BY ElementOfSeq, LenProperties
  <2> QED BY <1>1, <2>1 DEF WithinCapacity, Update
<1>3. ASSUME NEW i \in DOMAIN us PROVE \A l \in 0 .. Height : IndexAt(us[i].leaf)[l] \in Level(l)
  BY <1>2, IndexInLevel
<1>4. ASSUME NEW i \in DOMAIN us, NEW l \in 1 .. Height PROVE At(us[i].leaf, l) \in AffectedPaths(us)
  BY AffectedAre
<1>5. ASSUME NEW p \in AffectedPaths(us) PROVE \E l \in 1 .. Height : \E k \in Level(l) : p = <<l, k>>
  <2>1. PICK i \in DOMAIN us, l \in 1 .. Height : p = At(us[i].leaf, l)
    BY AffectedAre
  <2>2. l \in 0 .. Height
    OBVIOUS
  <2>3. IndexAt(us[i].leaf)[l] \in Level(l)
    BY <1>3, <2>2
  <2> QED BY <2>1, <2>3 DEF At
<1> QED BY <1>2, <1>3, <1>4, <1>5

\* Above a node to recompute there is another, up to the top.
LEMMA AffectedGoUp ==
  ASSUME NEW us \in Seq(Update), WithinCapacity(us)
  PROVE  /\ \A i \in DOMAIN us : <<1, us[i].leaf \div 2>> \in AffectedPaths(us)
         /\ us # <<>> => <<Height, 0>> \in AffectedPaths(us)
         /\ \A l \in 1 .. Height - 1 : \A k :
              <<l, k>> \in AffectedPaths(us) => <<l + 1, k \div 2>> \in AffectedPaths(us)
<1>1. ASSUME NEW i \in DOMAIN us PROVE <<1, us[i].leaf \div 2>> \in AffectedPaths(us)
  <2>1. 1 \in 1 .. Height /\ 1 - 1 = 0
    BY HeightIsPositive
  <2>2. IndexAt(us[i].leaf)[1] = us[i].leaf \div 2
    BY <2>1, IndexRecursion
  <2>3. At(us[i].leaf, 1) \in AffectedPaths(us)
    BY <2>1, AffectedInTree
  <2> QED BY <2>2, <2>3 DEF At
<1>2. ASSUME us # <<>> PROVE <<Height, 0>> \in AffectedPaths(us)
  <2>1. 1 \in DOMAIN us
    BY <1>2, LenProperties, EmptySeq
  <2>2. Height \in 1 .. Height /\ Height \in 0 .. Height
    BY HeightIsPositive
  <2>3. At(us[1].leaf, Height) \in AffectedPaths(us)
    BY <2>1, <2>2, AffectedInTree
  <2>4. IndexAt(us[1].leaf)[Height] \in Level(Height)
    BY <2>1, <2>2, AffectedInTree
  <2> QED BY <2>3, <2>4, TopLevel DEF At
<1>3. ASSUME NEW l \in 1 .. Height - 1, NEW k, <<l, k>> \in AffectedPaths(us)
      PROVE  <<l + 1, k \div 2>> \in AffectedPaths(us)
  <2>1. PICK i \in DOMAIN us, m \in 1 .. Height : <<l, k>> = At(us[i].leaf, m)
    BY <1>3, AffectedAre
  <2>2. m = l /\ k = IndexAt(us[i].leaf)[l]
    BY <2>1 DEF At
  <2>3. l + 1 \in 1 .. Height /\ (l + 1) - 1 = l
    BY HeightIsPositive
  <2>4. IndexAt(us[i].leaf)[l + 1] = k \div 2
    BY <2>2, <2>3, IndexRecursion
  <2>5. At(us[i].leaf, l + 1) \in AffectedPaths(us)
    BY <2>3, AffectedInTree
  <2> QED BY <2>4, <2>5 DEF At
<1> QED BY <1>1, <1>2, <1>3

-----------------------------------------------------------------------------
(***************************************************************************)
(* What a transaction has done                                             *)
(***************************************************************************)

LeavesPut(t) == {<<0, t.updates[i].leaf>> : i \in 1 .. t.put}
Computed(t) == AffectedPaths(t.updates) \ t.todo

\* t has the fields of a transaction; and those of an open one.
TxFields == {"open", "updates", "put", "todo", "read", "own"}
IsTx(t) == t.open \in BOOLEAN /\ t = [f \in TxFields |-> t[f]]
IsRow(t, us, put, todo, read, own) ==
  /\ IsTx(t) /\ t.open
  /\ t.updates = us /\ t.put = put /\ t.todo = todo /\ t.read = read /\ t.own = own

Asked(t) ==
  /\ t.updates \in Seq(Update) /\ t.updates # <<>>
  /\ WithinCapacity(t.updates)
  /\ t.put \in 0 .. Len(t.updates)

\* From the leaves upwards, one level after the other
Climbing(t) ==
  /\ t.todo \subseteq AffectedPaths(t.updates)
  /\ t.put < Len(t.updates) => t.todo = AffectedPaths(t.updates) /\ t.read = {}
  /\ \A n \in Computed(t), m \in t.todo : n[1] <= m[1]
  /\ t.read = {} \/ \E r \in t.read : t.read = {r} /\ r.node \in t.todo
  /\ \A r \in t.read : \A m \in t.todo : r.node[1] <= m[1]

Written(t) ==
  /\ DOMAIN t.own \ {TreeState} = LeavesPut(t) \cup Computed(t)
  /\ TreeState \in DOMAIN t.own =>
       /\ t.put = Len(t.updates) /\ t.read = {} /\ t.todo = {}
       /\ t.own[TreeState] = t.own[<<Height, 0>>]

TxOK(t) == IsTx(t) /\ (IF t.open THEN Asked(t) /\ Climbing(t) /\ Written(t) ELSE t = Idle)

TreeInv ==
  /\ DOMAIN nodes \subseteq Positions
  /\ tx = [w \in Writers |-> tx[w]] /\ \A w \in Writers : TxOK(tx[w])
  /\ started \in 0 .. MaxUpdates /\ faults \in 0 .. MaxFaults

-----------------------------------------------------------------------------
(***************************************************************************)
(* One step of a transaction                                               *)
(***************************************************************************)

Begun(s, us) == WithinCapacity(us) /\ IsRow(s, us, 0, AffectedPaths(us), {}, NoRows)

LeafPut(t, s) ==
  LET u == t.updates[t.put + 1]
  IN /\ t.put < Len(t.updates)
     /\ IsRow(s, t.updates, t.put + 1, t.todo, t.read, With(t.own, <<0, u.leaf>>, u.value))

ChildrenRead(t, s, r) ==
  /\ t.put = Len(t.updates) /\ t.read = {}
  /\ r.node \in t.todo /\ \A m \in t.todo : r.node[1] <= m[1]
  /\ IsRow(s, t.updates, t.put, t.todo, {r}, t.own)

ParentPut(t, s, r) ==
  /\ r \in t.read
  /\ IsRow(s, t.updates, t.put, t.todo \ {r.node}, {}, With(t.own, r.node, r.hash))

RootPut(t, s) ==
  /\ t.put = Len(t.updates) /\ t.read = {} /\ t.todo = {} /\ TreeState \notin DOMAIN t.own
  /\ IsRow(s, t.updates, t.put, t.todo, t.read, With(t.own, TreeState, t.own[<<Height, 0>>]))

Moves(w, s) == w \in Writers /\ tx' = [v \in Writers |-> IF v = w THEN s ELSE tx[v]]

LEMMA BatchesAreSeqs == \A us \in Batches : us \in Seq(Update) /\ us # <<>>
BY DEF Batches

LEMMA WithIs ==
  ASSUME NEW f, NEW p, NEW h
  PROVE  /\ DOMAIN With(f, p, h) = DOMAIN f \cup {p}
         /\ With(f, p, h)[p] = h
         /\ \A q \in DOMAIN f : q # p => With(f, p, h)[q] = f[q]
BY DEF With

LEMMA ApartFromTreeState ==
  /\ \A l \in 0 .. Height : \A k : <<l, k>> # TreeState
  /\ \A us \in Seq(Update) : WithinCapacity(us) => TreeState \notin AffectedPaths(us)
<1>1. ASSUME NEW l \in 0 .. Height, NEW k PROVE <<l, k>> # TreeState
  BY HeightIsPositive DEF TreeState
<1>2. ASSUME NEW us \in Seq(Update), WithinCapacity(us), TreeState \in AffectedPaths(us) PROVE FALSE
  <2>1. PICK l \in 1 .. Height : \E k \in Level(l) : TreeState = <<l, k>>
    BY <1>2, AffectedInTree
  <2> QED BY <1>1, <2>1
<1> QED BY <1>1, <1>2

LEMMA TxBegun ==
  ASSUME NEW us, NEW todo, NEW s,
         s = [Idle EXCEPT !.open = TRUE, !.updates = us, !.todo = todo]
  PROVE  IsRow(s, us, 0, todo, {}, NoRows)
<1>1. s.open = TRUE /\ s.updates = us /\ s.todo = todo /\ s.put = 0 /\ s.read = {} /\ s.own = NoRows
  BY DEF Idle
<1>2. s = [f \in TxFields |-> s[f]]
  BY DEF Idle, TxFields
<1> QED BY <1>1, <1>2 DEF IsRow, IsTx

LEMMA TxPuts ==
  ASSUME NEW t, IsTx(t), t.open, NEW put, NEW own, NEW s, s = [t EXCEPT !.own = own, !.put = put]
  PROVE  IsRow(s, t.updates, put, t.todo, t.read, own)
BY DEF IsTx, TxFields, IsRow

LEMMA TxReads ==
  ASSUME NEW t, IsTx(t), t.open, NEW read, NEW s, s = [t EXCEPT !.read = read]
  PROVE  IsRow(s, t.updates, t.put, t.todo, read, t.own)
BY DEF IsTx, TxFields, IsRow

LEMMA TxComputes ==
  ASSUME NEW t, IsTx(t), t.open, NEW own, NEW read, NEW todo, NEW s,
         s = [t EXCEPT !.own = own, !.read = read, !.todo = todo]
  PROVE  IsRow(s, t.updates, t.put, todo, read, own)
BY DEF IsTx, TxFields, IsRow

LEMMA TxWrites ==
  ASSUME NEW t, IsTx(t), t.open, NEW own, NEW s, s = [t EXCEPT !.own = own]
  PROVE  IsRow(s, t.updates, t.put, t.todo, t.read, own)
BY DEF IsTx, TxFields, IsRow

LEMMA BegunOK ==
  ASSUME NEW s, NEW us \in Batches, Begun(s, us)
  PROVE  TxOK(s)
<1>1. us \in Seq(Update) /\ us # <<>> /\ Len(us) \in Nat
  BY BatchesAreSeqs, LenProperties
<1>2. s.open /\ s.updates = us /\ s.put = 0 /\ s.todo = AffectedPaths(us) /\ s.read = {} /\ s.own = NoRows
  BY DEF Begun, IsRow
<1>3. IsTx(s)
  BY <1>2 DEF Begun, IsRow
<1>4. Asked(s)
  BY <1>1, <1>2 DEF Asked, Begun
<1>5. Climbing(s)
  BY <1>2 DEF Climbing, Computed
<1>6. Written(s)
  <2>1. DOMAIN s.own = {} /\ LeavesPut(s) = {} /\ Computed(s) = {}
    BY <1>2 DEF NoRows, LeavesPut, Computed
  <2> QED BY <2>1 DEF Written
<1> QED BY <1>2, <1>3, <1>4, <1>5, <1>6 DEF TxOK

LEMMA LeafPutOK ==
  ASSUME NEW t, NEW s, TxOK(t), t.open, LeafPut(t, s)
  PROVE  TxOK(s)
<1> DEFINE leaf == t.updates[t.put + 1].leaf
<1>1. Asked(t) /\ Climbing(t) /\ Written(t)
  BY DEF TxOK
<1>2. t.put \in Nat /\ Len(t.updates) \in Nat /\ t.put < Len(t.updates)
  BY <1>1, LenProperties DEF Asked, LeafPut
<1>3. /\ s.open /\ s.updates = t.updates /\ s.put = t.put + 1 /\ s.todo = t.todo /\ s.read = t.read
      /\ s.own = With(t.own, <<0, leaf>>, t.updates[t.put + 1].value)
  BY DEF LeafPut, IsRow
<1>4. IsTx(s)
  BY <1>3 DEF LeafPut, IsRow
<1>5. Asked(s)
  BY <1>1, <1>2, <1>3 DEF Asked
<1>6. s.todo = AffectedPaths(s.updates) /\ s.read = {} /\ t.read = {}
  BY <1>1, <1>2, <1>3 DEF Climbing
<1>7. Climbing(s)
  BY <1>6 DEF Climbing, Computed
<1>8. Written(s)
  <2>1. DOMAIN s.own = DOMAIN t.own \cup {<<0, leaf>>}
    BY <1>3 DEF With
  <2>2. <<0, leaf>> # TreeState /\ TreeState \notin DOMAIN t.own
    BY <1>1, <1>2, ApartFromTreeState, HeightIsPositive DEF Written
  <2>3. LeavesPut(s) = LeavesPut(t) \cup {<<0, leaf>>}
    <3>1. 1 .. s.put = (1 .. t.put) \cup {t.put + 1}
      BY <1>2, <1>3
    <3> QED BY <1>3, <3>1 DEF LeavesPut
  <2>4. Computed(s) = Computed(t)
    BY <1>3 DEF Computed
  <2> QED BY <1>1, <2>1, <2>2, <2>3, <2>4 DEF Written
<1> QED BY <1>3, <1>4, <1>5, <1>7, <1>8 DEF TxOK

LEMMA ChildrenReadOK ==
  ASSUME NEW t, NEW s, NEW r, TxOK(t), t.open, ChildrenRead(t, s, r)
  PROVE  TxOK(s)
<1>1. Asked(t) /\ Climbing(t) /\ Written(t)
  BY DEF TxOK
<1>2. /\ s.open /\ s.updates = t.updates /\ s.put = t.put /\ s.todo = t.todo /\ s.read = {r}
      /\ s.own = t.own
  BY DEF ChildrenRead, IsRow
<1>3. t.put = Len(t.updates) /\ r.node \in t.todo /\ \A m \in t.todo : r.node[1] <= m[1]
  BY DEF ChildrenRead
<1>4. IsTx(s) /\ Asked(s)
  BY <1>1, <1>2 DEF Asked, ChildrenRead, IsRow
<1>5. Computed(s) = Computed(t) /\ LeavesPut(s) = LeavesPut(t)
  BY <1>2 DEF Computed, LeavesPut
<1>6. ~(s.put < Len(s.updates))
  BY <1>1, <1>2, <1>3, LenProperties DEF Asked
<1>7. Climbing(s)
  BY <1>1, <1>2, <1>3, <1>5, <1>6 DEF Climbing
<1>8. Written(s)
  BY <1>1, <1>2, <1>3, <1>5 DEF Written
<1> QED BY <1>2, <1>4, <1>7, <1>8 DEF TxOK

LEMMA ParentPutOK ==
  ASSUME NEW t, NEW s, NEW r, TxOK(t), t.open, ParentPut(t, s, r)
  PROVE  TxOK(s)
<1>1. Asked(t) /\ Climbing(t) /\ Written(t)
  BY DEF TxOK
<1>2. /\ s.open /\ s.updates = t.updates /\ s.put = t.put /\ s.todo = t.todo \ {r.node}
      /\ s.read = {} /\ s.own = With(t.own, r.node, r.hash)
  BY DEF ParentPut, IsRow
<1>3. r \in t.read /\ r.node \in t.todo /\ \A m \in t.todo : r.node[1] <= m[1]
  BY <1>1 DEF Climbing, ParentPut
<1>4. t.put = Len(t.updates) /\ r.node \in AffectedPaths(t.updates) /\ r.node # TreeState
  <2>1. r.node \in AffectedPaths(t.updates)
    BY <1>1, <1>3 DEF Climbing
  <2>2. t.put = Len(t.updates)
    BY <1>1, <1>3, LenProperties DEF Climbing, Asked
  <2> QED BY <1>1, <2>1, <2>2, ApartFromTreeState DEF Asked
<1>5. IsTx(s) /\ Asked(s)
  BY <1>1, <1>2 DEF Asked, ParentPut, IsRow
<1>6. Computed(s) = Computed(t) \cup {r.node} /\ LeavesPut(s) = LeavesPut(t)
  BY <1>2, <1>4 DEF Computed, LeavesPut
<1>7. Climbing(s)
  <2>1. ~(s.put < Len(s.updates))
    BY <1>1, <1>2, <1>4, LenProperties DEF Asked
  <2>2. \A n \in Computed(s), m \in s.todo : n[1] <= m[1]
    BY <1>1, <1>2, <1>3, <1>6 DEF Climbing
  <2> QED BY <1>1, <1>2, <2>1, <2>2 DEF Climbing
<1>8. Written(s)
  <2>1. TreeState \notin DOMAIN t.own
    BY <1>1, <1>3 DEF Written
  <2>2. DOMAIN s.own = DOMAIN t.own \cup {r.node}
    BY <1>2 DEF With
  <2> QED BY <1>1, <1>4, <1>6, <2>1, <2>2 DEF Written
<1> QED BY <1>2, <1>5, <1>7, <1>8 DEF TxOK

\* The top is computed when nothing is left to compute.
LEMMA TopIsComputed ==
  ASSUME NEW t, TxOK(t), t.open, t.todo = {}
  PROVE  <<Height, 0>> \in Computed(t) /\ <<Height, 0>> \in DOMAIN t.own /\ <<Height, 0>> # TreeState
<1>1. <<Height, 0>> \in Computed(t)
  BY AffectedGoUp DEF TxOK, Asked, Computed
<1>2. <<Height, 0>> # TreeState
  BY ApartFromTreeState, HeightIsPositive
<1> QED BY <1>1, <1>2 DEF TxOK, Written

LEMMA RootPutOK ==
  ASSUME NEW t, NEW s, TxOK(t), t.open, RootPut(t, s)
  PROVE  TxOK(s)
<1>1. Asked(t) /\ Climbing(t) /\ Written(t)
  BY DEF TxOK
<1>2. /\ s.open /\ s.updates = t.updates /\ s.put = t.put /\ s.todo = t.todo
      /\ s.read = t.read /\ s.own = With(t.own, TreeState, t.own[<<Height, 0>>])
  BY DEF RootPut, IsRow
<1>3. t.put = Len(t.updates) /\ t.read = {} /\ t.todo = {} /\ TreeState \notin DOMAIN t.own
  BY DEF RootPut
<1>4. IsTx(s) /\ Asked(s) /\ Climbing(s)
  BY <1>1, <1>2 DEF Asked, RootPut, IsRow, Climbing, Computed
<1>5. Written(s)
  <2>1. DOMAIN s.own = DOMAIN t.own \cup {TreeState}
    BY <1>2 DEF With
  <2>2. Computed(s) = Computed(t) /\ LeavesPut(s) = LeavesPut(t)
    BY <1>2 DEF Computed, LeavesPut
  <2>3. s.own[TreeState] = s.own[<<Height, 0>>]
    BY <1>2, <1>3, TopIsComputed DEF With
  <2> QED BY <1>1, <1>2, <1>3, <2>1, <2>2, <2>3 DEF Written
<1> QED BY <1>2, <1>4, <1>5 DEF TxOK

LEMMA IdleOK == TxOK(Idle)
BY DEF TxOK, IsTx, Idle, TxFields

-----------------------------------------------------------------------------
(***************************************************************************)
(* Actions are such steps.                                                 *)
(***************************************************************************)

LEMMA Fields ==
  ASSUME TreeInv, NEW w \in Writers
  PROVE  /\ tx = [v \in Writers |-> tx[v]] /\ TxOK(tx[w]) /\ IsTx(tx[w])
         /\ tx[w].open => Asked(tx[w]) /\ Climbing(tx[w]) /\ Written(tx[w])
BY DEF TreeInv, TxOK

LEMMA OwnInTree ==
  ASSUME TreeInv, NEW w \in Writers, tx[w].open
  PROVE  DOMAIN tx[w].own \ {TreeState} \subseteq Positions /\ tx[w].todo \subseteq Positions
<1> DEFINE us == tx[w].updates
<1>1. Asked(tx[w]) /\ Climbing(tx[w]) /\ Written(tx[w])
  BY Fields
<1>2. us \in Seq(Update) /\ WithinCapacity(us) /\ Len(us) \in Nat /\ DOMAIN us = 1 .. Len(us)
  BY <1>1, LenProperties DEF Asked
<1>3. AffectedPaths(us) \subseteq Positions
  <2>1. ASSUME NEW p \in AffectedPaths(us) PROVE p \in Positions
    <3>1. PICK l \in 1 .. Height : \E k \in Level(l) : p = <<l, k>>
      BY <1>2, AffectedInTree
    <3>2. l \in 0 .. Height
      OBVIOUS
    <3> QED BY <3>1, <3>2, PositionsAre
  <2> QED BY <2>1
<1>4. LeavesPut(tx[w]) \subseteq Positions
  <2>1. ASSUME NEW i \in 1 .. tx[w].put PROVE <<0, us[i].leaf>> \in Positions
    <3>1. i \in DOMAIN us
      BY <1>1, <1>2 DEF Asked
    <3>2. us[i].leaf \in Level(0)
      BY <1>2, <3>1, AffectedInTree, TopLevel
    <3>3. 0 \in 0 .. Height
      BY HeightIsPositive
    <3> QED BY <3>2, <3>3, PositionsAre
  <2> QED BY <2>1 DEF LeavesPut
<1> QED BY <1>1, <1>3, <1>4 DEF Climbing, Written, Computed

LEMMA BeginMoves ==
  ASSUME TreeInv, NEW w \in Writers, NEW us \in Batches, Begin(w, us)
  PROVE  Moves(w, tx'[w]) /\ Begun(tx'[w], us)
<1>1. tx = [v \in Writers |-> tx[v]]
  BY Fields
<1>2. tx' = [tx EXCEPT ![w] = [Idle EXCEPT !.open = TRUE, !.updates = us, !.todo = AffectedPaths(us)]]
  BY DEF Begin
<1>3. tx'[w] = [Idle EXCEPT !.open = TRUE, !.updates = us, !.todo = AffectedPaths(us)] /\ Moves(w, tx'[w])
  BY <1>1, <1>2 DEF Moves
<1>4. IsRow(tx'[w], us, 0, AffectedPaths(us), {}, NoRows)
  BY <1>3, TxBegun
<1> QED BY <1>3, <1>4 DEF Begun, Begin

LEMMA PutLeafMoves ==
  ASSUME TreeInv, NEW w \in Writers, PutLeaf(w)
  PROVE  tx[w].open /\ Moves(w, tx'[w]) /\ LeafPut(tx[w], tx'[w])
<1> DEFINE t == tx[w]
           u == t.updates[t.put + 1]
<1>1. tx = [v \in Writers |-> tx[v]] /\ IsTx(t)
  BY Fields
<1>2. t.open /\ t.put < Len(t.updates)
      /\ tx' = [tx EXCEPT ![w].own = With(@, <<0, u.leaf>>, u.value), ![w].put = @ + 1]
  BY DEF PutLeaf, Ready
<1>3. tx'[w] = [t EXCEPT !.own = With(t.own, <<0, u.leaf>>, u.value), !.put = t.put + 1] /\ Moves(w, tx'[w])
  BY <1>1, <1>2 DEF Moves
<1>4. IsRow(tx'[w], t.updates, t.put + 1, t.todo, t.read, With(t.own, <<0, u.leaf>>, u.value))
  BY <1>1, <1>2, <1>3, TxPuts
<1> QED BY <1>2, <1>3, <1>4 DEF LeafPut

\* What ReadChildren reads for a node
ChildrenOf(w, n) ==
  [node |-> n, hash |-> <<NodeHash(w, <<n[1] - 1, 2 * n[2] + 0>>), NodeHash(w, <<n[1] - 1, 2 * n[2] + 1>>)>>]

LEMMA ReadChildrenMoves ==
  ASSUME TreeInv, NEW w \in Writers, NEW n, ReadChildren(w, n)
  PROVE  tx[w].open /\ Moves(w, tx'[w]) /\ ChildrenRead(tx[w], tx'[w], ChildrenOf(w, n))
<1> DEFINE t == tx[w]
           r == ChildrenOf(w, n)
<1>1. tx = [v \in Writers |-> tx[v]] /\ IsTx(t)
  BY Fields
<1>2. t.open /\ tx' = [tx EXCEPT ![w].read = {r}]
  BY DEF ReadChildren, ChildrenOf
<1>3. t.put = Len(t.updates) /\ t.read = {} /\ n \in t.todo /\ (\A m \in t.todo : n[1] <= m[1]) /\ r.node = n
  BY DEF ReadChildren, ChildrenOf
<1> HIDE DEF r
<1>4. tx'[w] = [t EXCEPT !.read = {r}] /\ Moves(w, tx'[w])
  BY <1>1, <1>2 DEF Moves
<1>5. IsRow(tx'[w], t.updates, t.put, t.todo, {r}, t.own)
  BY <1>1, <1>2, <1>4, TxReads
<1>6. ChildrenRead(t, tx'[w], r)
  BY <1>3, <1>5 DEF ChildrenRead
<1> QED BY <1>2, <1>4, <1>6 DEF r

LEMMA PutParentMoves ==
  ASSUME TreeInv, NEW w \in Writers, PutParent(w)
  PROVE  tx[w].open /\ \E r \in tx[w].read : Moves(w, tx'[w]) /\ ParentPut(tx[w], tx'[w], r)
<1> DEFINE t == tx[w]
<1>1. tx = [v \in Writers |-> tx[v]] /\ IsTx(t)
  BY Fields
<1>2. PICK r \in t.read : tx' = [tx EXCEPT ![w].own = With(@, r.node, r.hash), ![w].read = {},
                                           ![w].todo = @ \ {r.node}]
  BY DEF PutParent
<1>3. t.open
  BY DEF PutParent, Ready
<1>4. /\ tx'[w] = [t EXCEPT !.own = With(t.own, r.node, r.hash), !.read = {}, !.todo = t.todo \ {r.node}]
      /\ Moves(w, tx'[w])
  BY <1>1, <1>2 DEF Moves
<1>5. IsRow(tx'[w], t.updates, t.put, t.todo \ {r.node}, {}, With(t.own, r.node, r.hash))
  BY <1>1, <1>3, <1>4, TxComputes
<1> QED BY <1>3, <1>4, <1>5 DEF ParentPut

LEMMA PutRootMoves ==
  ASSUME TreeInv, NEW w \in Writers, PutRoot(w)
  PROVE  tx[w].open /\ Moves(w, tx'[w]) /\ RootPut(tx[w], tx'[w])
<1> DEFINE t == tx[w]
<1>1. tx = [v \in Writers |-> tx[v]] /\ IsTx(t)
  BY Fields
<1>2. t.open /\ tx' = [tx EXCEPT ![w].own = With(@, TreeState, @[<<Height, 0>>])]
  BY DEF PutRoot, Ready
<1>3. t.put = Len(t.updates) /\ t.read = {} /\ t.todo = {} /\ TreeState \notin DOMAIN t.own
  BY DEF PutRoot, AllComputed
<1>4. tx'[w] = [t EXCEPT !.own = With(t.own, TreeState, t.own[<<Height, 0>>])] /\ Moves(w, tx'[w])
  BY <1>1, <1>2 DEF Moves
<1>5. IsRow(tx'[w], t.updates, t.put, t.todo, t.read, With(t.own, TreeState, t.own[<<Height, 0>>]))
  BY <1>1, <1>2, <1>4, TxWrites
<1> QED BY <1>2, <1>3, <1>4, <1>5 DEF RootPut

\* A transaction ends: committed, failed, or the victim of a deadlock.
Ends(w) == Commit(w) \/ Fail(w) \/ DeadlockVictim(w)

LEMMA EndMoves ==
  ASSUME TreeInv, NEW w \in Writers, Ends(w)
  PROVE  Moves(w, tx'[w]) /\ tx'[w] = Idle
<1>1. tx = [v \in Writers |-> tx[v]]
  BY Fields
<1>2. tx' = [tx EXCEPT ![w] = Idle]
  BY DEF Ends, Commit, Fail, DeadlockVictim
<1> QED BY <1>1, <1>2 DEF Moves

\* Every step is one of these.
LEMMA NextIs ==
  ASSUME Next
  PROVE  \E w \in Writers :
           \/ \E us \in Batches : Begin(w, us)
           \/ PutLeaf(w) \/ (\E n : ReadChildren(w, n)) \/ PutParent(w) \/ PutRoot(w)
           \/ Ends(w)
BY DEF Next, Statement, Ends

LEMMA MovedOK ==
  ASSUME TreeInv, NEW w, NEW s, Moves(w, s), TxOK(s)
  PROVE  tx' = [v \in Writers |-> tx'[v]] /\ \A v \in Writers : TxOK(tx'[v])
<1>1. \A v \in Writers : tx'[v] = IF v = w THEN s ELSE tx[v]
  BY DEF Moves
<1>2. \A v \in Writers : TxOK(tx'[v])
  BY <1>1, Fields
<1> QED BY <1>2 DEF Moves

LEMMA TreeStep ==
  ASSUME TreeInv, [Next]_vars
  PROVE  TreeInv'
<1>1. CASE UNCHANGED vars
  BY <1>1 DEF TreeInv, vars, TxOK
<1>2. CASE Next
  <2>1. PICK w \in Writers :
           \/ \E us \in Batches : Begin(w, us)
           \/ PutLeaf(w) \/ (\E n : ReadChildren(w, n)) \/ PutParent(w) \/ PutRoot(w)
           \/ Ends(w)
    BY <1>2, NextIs
  <2>2. Moves(w, tx'[w]) /\ TxOK(tx'[w])
    <3>1. CASE \E us \in Batches : Begin(w, us)
      BY <3>1, BeginMoves, BegunOK
    <3>2. CASE PutLeaf(w)
      BY <3>2, PutLeafMoves, LeafPutOK, Fields
    <3>3. CASE \E n : ReadChildren(w, n)
      BY <3>3, ReadChildrenMoves, ChildrenReadOK, Fields
    <3>4. CASE PutParent(w)
      BY <3>4, PutParentMoves, ParentPutOK, Fields
    <3>5. CASE PutRoot(w)
      BY <3>5, PutRootMoves, RootPutOK, Fields
    <3>6. CASE Ends(w)
      BY <3>6, EndMoves, IdleOK
    <3> QED BY <2>1, <3>1, <3>2, <3>3, <3>4, <3>5, <3>6
  <2>3. tx' = [v \in Writers |-> tx'[v]] /\ \A v \in Writers : TxOK(tx'[v])
    BY <2>2, MovedOK
  <2>4. DOMAIN nodes' \subseteq Positions
    <3>1. CASE nodes' = nodes
      BY <3>1 DEF TreeInv
    <3>2. CASE Commit(w)
      <4>1. tx[w].open /\ DOMAIN nodes' = DOMAIN nodes \cup (DOMAIN tx[w].own \ {TreeState})
        BY <3>2 DEF Commit, Merged
      <4>2. DOMAIN tx[w].own \ {TreeState} \subseteq Positions
        BY <4>1, OwnInTree
      <4> QED BY <4>1, <4>2 DEF TreeInv
    <3> QED BY <2>1, <3>1, <3>2 DEF Begin, PutLeaf, ReadChildren, PutParent, PutRoot, Ends, Fail, DeadlockVictim
  <2>5. started' \in 0 .. MaxUpdates /\ faults' \in 0 .. MaxFaults
    <3>1. MaxUpdates \in Nat /\ MaxFaults \in Nat /\ started \in 0 .. MaxUpdates /\ faults \in 0 .. MaxFaults
      BY TreeAssumption DEF TreeInv
    <3>2. CASE UNCHANGED <<started, faults>>
      BY <3>1, <3>2
    <3>3. CASE \E us \in Batches : Begin(w, us)
      <4>1. started < MaxUpdates /\ started' = started + 1 /\ faults' = faults
        BY <3>3 DEF Begin
      <4> QED BY <3>1, <4>1
    <3>4. CASE Fail(w)
      <4>1. faults < MaxFaults /\ faults' = faults + 1 /\ started' = started
        BY <3>4 DEF Fail
      <4> QED BY <3>1, <4>1
    <3> QED BY <2>1, <3>2, <3>3, <3>4 DEF PutLeaf, ReadChildren, PutParent, PutRoot, Ends, Commit, DeadlockVictim
  <2> QED BY <2>3, <2>4, <2>5 DEF TreeInv, TxOK, Asked, Climbing, Written
<1> QED BY <1>1, <1>2

LEMMA TreeInit == Init => TreeInv
<1> SUFFICES ASSUME Init PROVE TreeInv
  OBVIOUS
<1>1. DOMAIN nodes \subseteq Positions
  <2>1. DOMAIN nodes = {<<0, 0>>}
    BY DEF Init, With, NoRows
  <2>2. 0 \in 0 .. Height /\ 0 \in Level(0)
    BY TopLevel, TwoToType, HeightIsPositive DEF Capacity
  <2> QED BY <2>1, <2>2, PositionsAre
<1> QED BY <1>1, IdleOK, TreeAssumption DEF Init, TreeInv

\* The inductive invariant of the tree and its transactions, for the code as a whole
THEOREM TreeInvariant == Spec => []TreeInv
<1>1. TreeInv /\ [Next]_vars => TreeInv'
  BY TreeStep
<1> QED BY <1>1, TreeInit, PTL DEF Spec

LEMMA TypesFollow == TreeInv => TypeOK
<1> SUFFICES ASSUME TreeInv PROVE TypeOK
  OBVIOUS
<1>1. ASSUME NEW w \in Writers
      PROVE  /\ DOMAIN tx[w].own \subseteq Positions \cup {TreeState}
             /\ tx[w].todo \subseteq Positions
             /\ Cardinality(tx[w].read) <= 1
  <2>1. CASE tx[w].open
    <3>1. tx[w].read = {} \/ \E r \in tx[w].read : tx[w].read = {r}
      BY <2>1, Fields DEF Climbing
    <3>2. Cardinality(tx[w].read) <= 1
      <4>1. CASE tx[w].read = {}
        BY <4>1, FS_EmptySet
      <4>2. CASE tx[w].read # {}
        <5>1. PICK r \in tx[w].read : tx[w].read = {r}
          BY <3>1, <4>2
        <5>2. Cardinality({r}) = 1
          BY FS_Singleton
        <5> QED BY <5>1, <5>2
      <4> QED BY <4>1, <4>2
    <3> QED BY <2>1, <3>2, OwnInTree
  <2>2. CASE ~tx[w].open
    <3>1. tx[w] = Idle
      BY <2>2, Fields DEF TxOK
    <3> QED BY <3>1, FS_EmptySet DEF Idle, NoRows
  <2> QED BY <2>1, <2>2
<1> QED BY <1>1 DEF TypeOK, TreeInv

\* Transactions write and lock rows of the tree only, and read one pair of
\* nodes at a time, in any interleaving and whatever fails.
THEOREM TypeCorrect == Spec => []TypeOK
BY TreeInvariant, TypesFollow, PTL

-----------------------------------------------------------------------------
(***************************************************************************)
(* The tree of a transaction's own rows                                    *)
(***************************************************************************)

\* The side of its parent on which the path of a leaf comes to level l
Side(leaf, l) == 1 + (IndexAt(leaf)[l - 1] % 2)

\* The leaves that own holds are the last ones put
LeavesHold(t) ==
  \A i \in 1 .. t.put :
    (\A j \in 1 .. t.put : j > i => t.updates[j].leaf # t.updates[i].leaf) =>
      t.own[<<0, t.updates[i].leaf>>] = t.updates[i].value

\* Every computed node holds the node below it of every path through it.
Linked(t) ==
  \A i \in DOMAIN t.updates, l \in 1 .. Height :
    LET leaf == t.updates[i].leaf
    IN /\ At(leaf, l) \notin t.todo => t.own[At(leaf, l)][Side(leaf, l)] = t.own[At(leaf, l - 1)]
       /\ \A r \in t.read : r.node = At(leaf, l) => r.hash[Side(leaf, l)] = t.own[At(leaf, l - 1)]

LEMMA PutAll ==
  ASSUME NEW t, TxOK(t), t.open
  PROVE  /\ t.updates \in Seq(Update) /\ WithinCapacity(t.updates)
         /\ DOMAIN t.updates = 1 .. Len(t.updates) /\ Len(t.updates) \in Nat
         /\ t.put \in 0 .. Len(t.updates)
         /\ 1 .. t.put \subseteq DOMAIN t.updates
         /\ \A i \in 1 .. t.put : <<0, t.updates[i].leaf>> \in DOMAIN t.own
         /\ \A i \in 1 .. t.put : <<0, t.updates[i].leaf>> # TreeState
         /\ t.todo # AffectedPaths(t.updates) \/ t.read # {} => t.put = Len(t.updates)
         /\ \A p \in Computed(t) : p \in DOMAIN t.own /\ p # TreeState
         /\ \A p \in Computed(t) \cup t.todo : p \in AffectedPaths(t.updates)
<1>1. Asked(t) /\ Climbing(t) /\ Written(t)
  BY DEF TxOK
<1>2. /\ t.updates \in Seq(Update) /\ WithinCapacity(t.updates) /\ t.put \in 0 .. Len(t.updates)
      /\ DOMAIN t.updates = 1 .. Len(t.updates) /\ Len(t.updates) \in Nat
  BY <1>1, LenProperties DEF Asked
<1>3. 1 .. t.put \subseteq DOMAIN t.updates
  BY <1>2
<1>4. \A i \in 1 .. t.put : <<0, t.updates[i].leaf>> \in DOMAIN t.own
  BY <1>1 DEF Written, LeavesPut
<1>5. \A i \in 1 .. t.put : <<0, t.updates[i].leaf>> # TreeState
  BY ApartFromTreeState, HeightIsPositive
<1>6. t.todo # AffectedPaths(t.updates) \/ t.read # {} => t.put = Len(t.updates)
  BY <1>1, <1>2 DEF Climbing
<1>7. \A p \in Computed(t) : p \in DOMAIN t.own /\ p # TreeState
  BY <1>1 DEF Written
<1>8. \A p \in Computed(t) \cup t.todo : p \in AffectedPaths(t.updates)
  BY <1>1 DEF Climbing, Computed
<1> QED BY <1>2, <1>3, <1>4, <1>5, <1>6, <1>7, <1>8

\* Below the levels that are still to be computed, a path is written.
LEMMA BelowIsOwn ==
  ASSUME NEW t, TxOK(t), t.open, t.put = Len(t.updates),
         NEW i \in DOMAIN t.updates, NEW l \in 1 .. Height, \A m \in t.todo : l <= m[1]
  PROVE  At(t.updates[i].leaf, l - 1) \in DOMAIN t.own /\ At(t.updates[i].leaf, l - 1) # TreeState
<1> DEFINE leaf == t.updates[i].leaf
<1>1. CASE l = 1
  <2>1. At(leaf, l - 1) = <<0, leaf>>
    BY <1>1, IndexRecursion DEF At
  <2> QED BY <2>1, PutAll
<1>2. CASE l # 1
  <2>1. l - 1 \in 1 .. Height /\ ~(l <= l - 1)
    BY <1>2, HeightIsPositive
  <2>2. At(leaf, l - 1) \in AffectedPaths(t.updates)
    BY <2>1, AffectedInTree, PutAll
  <2>3. At(leaf, l - 1) \notin t.todo
    BY <2>1 DEF At
  <2>4. At(leaf, l - 1) \in Computed(t)
    BY <2>2, <2>3 DEF Computed
  <2> QED BY <2>4, PutAll
<1> QED BY <1>1, <1>2

\* A computed node of a path has the levels still to be computed above it.
LEMMA ComputedIsBelow ==
  ASSUME NEW t, TxOK(t), t.open, NEW i \in DOMAIN t.updates, NEW l \in 1 .. Height,
         At(t.updates[i].leaf, l) \notin t.todo
  PROVE  /\ At(t.updates[i].leaf, l) \in Computed(t) /\ t.put = Len(t.updates)
         /\ \A m \in t.todo : l <= m[1]
<1>1. At(t.updates[i].leaf, l) \in Computed(t)
  BY PutAll, AffectedInTree DEF Computed
<1>2. t.todo # AffectedPaths(t.updates)
  BY <1>1 DEF Computed
<1>3. \A m \in t.todo : At(t.updates[i].leaf, l)[1] <= m[1]
  BY <1>1 DEF TxOK, Climbing
<1> QED BY <1>1, <1>2, <1>3, PutAll DEF At

OwnTree(t) == LeavesHold(t) /\ Linked(t)

LEMMA BegunHolds ==
  ASSUME NEW s, NEW us \in Batches, Begun(s, us)
  PROVE  OwnTree(s)
<1>1. s.updates = us /\ s.put = 0 /\ s.todo = AffectedPaths(us) /\ s.read = {} /\ us \in Seq(Update)
  BY BatchesAreSeqs DEF Begun, IsRow
<1>2. LeavesHold(s)
  BY <1>1 DEF LeavesHold
<1>3. Linked(s)
  BY <1>1, AffectedAre DEF Linked
<1> QED BY <1>2, <1>3 DEF OwnTree

LEMMA LeafPutHolds ==
  ASSUME NEW t, NEW s, TxOK(t), t.open, OwnTree(t), LeafPut(t, s)
  PROVE  OwnTree(s)
<1> DEFINE us == t.updates
           u == us[t.put + 1]
<1>1. s.updates = us /\ s.put = t.put + 1 /\ s.todo = t.todo /\ s.read = t.read
      /\ s.own = With(t.own, <<0, u.leaf>>, u.value) /\ t.put < Len(us)
  BY DEF LeafPut, IsRow
<1>2. t.put \in Nat /\ 1 .. s.put = (1 .. t.put) \cup {t.put + 1}
  BY <1>1, PutAll
<1>3. ASSUME NEW i \in 1 .. s.put, \A j \in 1 .. s.put : j > i => us[j].leaf # us[i].leaf
      PROVE  s.own[<<0, us[i].leaf>>] = us[i].value
  <2>1. CASE i = t.put + 1
    BY <1>1, <2>1 DEF With
  <2>2. CASE i \in 1 .. t.put
    <3>1. t.put + 1 > i /\ t.put + 1 \in 1 .. s.put
      BY <1>2, <2>2
    <3>2. u.leaf # us[i].leaf
      BY <1>3, <3>1
    <3>3. \A j \in 1 .. t.put : j > i => us[j].leaf # us[i].leaf
      BY <1>2, <1>3
    <3>4. t.own[<<0, us[i].leaf>>] = us[i].value /\ <<0, us[i].leaf>> \in DOMAIN t.own
      BY <2>2, <3>3, PutAll DEF OwnTree, LeavesHold
    <3> QED BY <1>1, <3>2, <3>4 DEF With
  <2> QED BY <1>2, <2>1, <2>2
<1>4. LeavesHold(s)
  BY <1>1, <1>3 DEF LeavesHold
<1>5. s.todo = AffectedPaths(us) /\ s.read = {}
  BY <1>1, PutAll DEF TxOK, Climbing
<1>6. Linked(s)
  BY <1>1, <1>5, AffectedAre DEF Linked
<1> QED BY <1>4, <1>6 DEF OwnTree

\* The pair that is read holds the nodes below of every path through it.
ReadLinks(t, r) ==
  \A i \in DOMAIN t.updates, l \in 1 .. Height :
    LET leaf == t.updates[i].leaf
    IN r.node = At(leaf, l) => r.hash[Side(leaf, l)] = t.own[At(leaf, l - 1)]

LEMMA ChildrenReadHolds ==
  ASSUME NEW t, NEW s, NEW r, TxOK(t), t.open, OwnTree(t), ChildrenRead(t, s, r), ReadLinks(t, r)
  PROVE  OwnTree(s)
<1>1. s.updates = t.updates /\ s.put = t.put /\ s.todo = t.todo /\ s.read = {r} /\ s.own = t.own
  BY DEF ChildrenRead, IsRow
<1>2. LeavesHold(s)
  BY <1>1 DEF OwnTree, LeavesHold
<1>3. Linked(s)
  BY <1>1 DEF OwnTree, Linked, ReadLinks
<1> QED BY <1>2, <1>3 DEF OwnTree

LEMMA ParentPutHolds ==
  ASSUME NEW t, NEW s, NEW r, TxOK(t), t.open, OwnTree(t), ParentPut(t, s, r)
  PROVE  OwnTree(s)
<1> DEFINE us == t.updates
<1>1. /\ s.updates = us /\ s.put = t.put /\ s.todo = t.todo \ {r.node} /\ s.read = {}
      /\ s.own = With(t.own, r.node, r.hash) /\ r \in t.read
  BY DEF ParentPut, IsRow
<1>2. r.node \in t.todo /\ r.node \in AffectedPaths(us) /\ t.put = Len(us) /\ \A m \in t.todo : r.node[1] <= m[1]
  <2>1. r.node \in t.todo /\ \A m \in t.todo : r.node[1] <= m[1]
    BY <1>1 DEF TxOK, Climbing
  <2> QED BY <1>1, <2>1, PutAll
<1>3. PICK d \in 1 .. Height : \E k \in Level(d) : r.node = <<d, k>>
  BY <1>2, PutAll, AffectedInTree
<1>4. r.node[1] = d
  BY <1>3
<1>5. \A p \in DOMAIN t.own : p # r.node => s.own[p] = t.own[p]
  BY <1>1 DEF With
<1>6. s.own[r.node] = r.hash
  BY <1>1 DEF With
<1>7. LeavesHold(s)
  <2>1. ASSUME NEW i \in 1 .. t.put PROVE s.own[<<0, us[i].leaf>>] = t.own[<<0, us[i].leaf>>]
    <3>1. <<0, us[i].leaf>> # r.node
      BY <1>3
    <3> QED BY <1>5, <3>1, PutAll
  <2> QED BY <1>1, <2>1 DEF OwnTree, LeavesHold
<1>8. ASSUME NEW i \in DOMAIN us, NEW l \in 1 .. Height, At(us[i].leaf, l) \notin s.todo
      PROVE  s.own[At(us[i].leaf, l)][Side(us[i].leaf, l)] = s.own[At(us[i].leaf, l - 1)]
  <2> DEFINE leaf == us[i].leaf
  <2>1. CASE At(leaf, l) = r.node
    <3>1. l = d
      BY <1>4, <2>1 DEF At
    <3>2. r.hash[Side(leaf, l)] = t.own[At(leaf, l - 1)]
      BY <1>1, <2>1 DEF OwnTree, Linked
    <3>3. At(leaf, l - 1) \in DOMAIN t.own
      BY <1>2, <1>4, <3>1, BelowIsOwn
    <3>4. At(leaf, l - 1) # r.node
      BY <1>3, <3>1 DEF At
    <3> QED BY <1>5, <1>6, <2>1, <3>2, <3>3, <3>4
  <2>2. CASE At(leaf, l) # r.node
    <3>1. At(leaf, l) \notin t.todo
      BY <1>1, <1>8, <2>2
    <3>2. At(leaf, l) \in DOMAIN t.own /\ \A m \in t.todo : l <= m[1]
      BY <3>1, ComputedIsBelow, PutAll
    <3>3. t.own[At(leaf, l)][Side(leaf, l)] = t.own[At(leaf, l - 1)]
      BY <3>1 DEF OwnTree, Linked
    <3>4. At(leaf, l - 1) \in DOMAIN t.own
      BY <1>2, <3>2, BelowIsOwn
    <3>5. l <= d
      BY <1>2, <1>4, <3>2
    <3>6. At(leaf, l - 1) # r.node
      BY <1>3, <3>5 DEF At
    <3> QED BY <1>5, <2>2, <3>2, <3>3, <3>4, <3>6
  <2> QED BY <2>1, <2>2
<1>9. Linked(s)
  BY <1>1, <1>8 DEF Linked
<1> QED BY <1>7, <1>9 DEF OwnTree

LEMMA RootPutHolds ==
  ASSUME NEW t, NEW s, TxOK(t), t.open, OwnTree(t), RootPut(t, s)
  PROVE  OwnTree(s)
<1> DEFINE us == t.updates
<1>1. /\ s.updates = us /\ s.put = t.put /\ s.todo = t.todo /\ s.read = t.read
      /\ s.own = With(t.own, TreeState, t.own[<<Height, 0>>]) /\ t.put = Len(us) /\ t.todo = {} /\ t.read = {}
  BY DEF RootPut, IsRow
<1>2. \A p \in DOMAIN t.own : p # TreeState => s.own[p] = t.own[p]
  BY <1>1 DEF With
<1>3. LeavesHold(s)
  <2>1. ASSUME NEW i \in 1 .. t.put PROVE s.own[<<0, us[i].leaf>>] = t.own[<<0, us[i].leaf>>]
    BY <1>2, PutAll
  <2> QED BY <1>1, <2>1 DEF OwnTree, LeavesHold
<1>4. ASSUME NEW i \in DOMAIN us, NEW l \in 1 .. Height
      PROVE  s.own[At(us[i].leaf, l)][Side(us[i].leaf, l)] = s.own[At(us[i].leaf, l - 1)]
  <2> DEFINE leaf == us[i].leaf
  <2>1. At(leaf, l) \notin t.todo /\ \A m \in t.todo : l <= m[1]
    BY <1>1
  <2>2. At(leaf, l) \in DOMAIN t.own /\ At(leaf, l) # TreeState
    BY <2>1, ComputedIsBelow, PutAll
  <2>3. At(leaf, l - 1) \in DOMAIN t.own /\ At(leaf, l - 1) # TreeState
    BY <1>1, <2>1, BelowIsOwn
  <2>4. t.own[At(leaf, l)][Side(leaf, l)] = t.own[At(leaf, l - 1)]
    BY <2>1 DEF OwnTree, Linked
  <2> QED BY <1>2, <2>2, <2>3, <2>4
<1>5. Linked(s)
  BY <1>1, <1>4 DEF Linked
<1> QED BY <1>3, <1>5 DEF OwnTree

LEMMA OwnIsSeen ==
  ASSUME NEW w, NEW p \in DOMAIN tx[w].own
  PROVE  NodeHash(w, p) = tx[w].own[p]
BY DEF NodeHash, Merged

LEMMA HalfAndRest ==
  ASSUME NEW a \in Nat
  PROVE  \/ a % 2 = 0 /\ a = 2 * (a \div 2) + 0
         \/ a % 2 = 1 /\ a = 2 * (a \div 2) + 1
OBVIOUS

LEMMA ReadLinksPath ==
  ASSUME NEW w, TxOK(tx[w]), tx[w].open, NEW n, NEW s, ChildrenRead(tx[w], s, ChildrenOf(w, n))
  PROVE  ReadLinks(tx[w], ChildrenOf(w, n))
<1> DEFINE t == tx[w]
           r == ChildrenOf(w, n)
<1>1. SUFFICES ASSUME NEW i \in DOMAIN t.updates, NEW l \in 1 .. Height, r.node = At(t.updates[i].leaf, l)
               PROVE  r.hash[Side(t.updates[i].leaf, l)] = t.own[At(t.updates[i].leaf, l - 1)]
  BY DEF ReadLinks
<1> DEFINE leaf == t.updates[i].leaf
           a == IndexAt(leaf)[l - 1]
           k == a \div 2
<1>2. t.put = Len(t.updates) /\ (\A m \in t.todo : r.node[1] <= m[1]) /\ r.node = n
  BY DEF ChildrenRead, ChildrenOf
<1>3. n = <<l, k>> /\ n[1] = l /\ n[2] = k
  <2>1. n = <<l, IndexAt(leaf)[l]>>
    BY <1>1, <1>2 DEF At
  <2>2. IndexAt(leaf)[l] = k
    BY IndexRecursion
  <2> HIDE DEF k
  <2> QED BY <2>1, <2>2
<1>4. <<l - 1, a>> \in DOMAIN t.own
  BY <1>2, <1>3, BelowIsOwn DEF At
<1>5. a \in Nat
  <2>1. l - 1 \in 0 .. Height /\ TwoTo[Height - (l - 1)] \in Nat
    BY LevelAbove, HeightIsPositive
  <2>2. a \in Level(l - 1)
    BY <2>1, AffectedInTree, PutAll
  <2> QED BY <2>1, <2>2 DEF Level
<1>6. r.hash = <<NodeHash(w, <<l - 1, 2 * k + 0>>), NodeHash(w, <<l - 1, 2 * k + 1>>)>>
  BY <1>3 DEF ChildrenOf
<1>7. r.hash[1 + (a % 2)] = NodeHash(w, <<l - 1, a>>)
  <2> HIDE DEF r, a
  <2>1. CASE a % 2 = 0 /\ a = 2 * (a \div 2) + 0
    BY <1>6, <2>1
  <2>2. CASE a % 2 = 1 /\ a = 2 * (a \div 2) + 1
    <3>1. 1 + (a % 2) = 2 /\ 2 * k + 1 = a
      BY <2>2
    <3> QED BY <1>6, <3>1
  <2> QED BY <1>5, <2>1, <2>2, HalfAndRest
<1> QED BY <1>4, <1>7, OwnIsSeen DEF Side, At

LEMMA LeafUnderGoes ==
  ASSUME NEW h, NEW leaf
  PROVE  LeafUnder(h, leaf) = Going("down", leaf, h)[Height]
BY DEF LeafUnder, Going, Goes, StepOf

\* What an own root commits to: down a path, one node after the other
LEMMA DownIsOwn ==
  ASSUME NEW t, TxOK(t), t.open, OwnTree(t), t.put = Len(t.updates), t.todo = {},
         NEW i \in DOMAIN t.updates
  PROVE  LeafUnder(t.own[<<Height, 0>>], t.updates[i].leaf) = t.own[<<0, t.updates[i].leaf>>]
<1> DEFINE leaf == t.updates[i].leaf
           down == Going("down", leaf, t.own[<<Height, 0>>])
           Bad == {n \in 0 .. Height : down[n] # t.own[At(leaf, Height - n)]}
<1>1. /\ down[0] = t.own[<<Height, 0>>]
      /\ \A n \in 1 .. Height : down[n] = down[n - 1][1 + (IndexAt(leaf)[Height - n] % 2)]
  <2>1. down[0] = t.own[<<Height, 0>>] /\ \A n \in 1 .. Height : down[n] = StepOf("down", leaf, n, down[n - 1])
    BY GoingRecursion
  <2> HIDE DEF down
  <2> QED BY <2>1 DEF StepOf
<1> HIDE DEF down
<1>2. Bad = {}
  <2>1. SUFFICES ASSUME Bad # {} PROVE FALSE
    OBVIOUS
  <2>2. Bad \subseteq Nat
    BY HeightIsPositive
  <2>3. PICK n \in Bad : \A m \in Bad : n <= m
    BY <2>1, <2>2, LeastNumber
  <2>4. CASE n = 0
    <3>1. Height \in 0 .. Height /\ Height - 0 = Height
      BY HeightIsPositive
    <3>2. IndexAt(leaf)[Height] = 0
      BY <3>1, PutAll, AffectedInTree, TopLevel
    <3> QED BY <1>1, <2>3, <2>4, <3>1, <3>2 DEF At
  <2>5. CASE n # 0
    <3>1. n \in 1 .. Height /\ n - 1 \in 0 .. Height /\ n - 1 \notin Bad
      BY <2>3, <2>5, HeightIsPositive
    <3>2. Height - (n - 1) \in 1 .. Height /\ (Height - (n - 1)) - 1 = Height - n
      BY <3>1, HeightIsPositive
    <3>3. down[n - 1] = t.own[At(leaf, Height - (n - 1))]
      BY <3>1
    <3>4. t.own[At(leaf, Height - (n - 1))][Side(leaf, Height - (n - 1))] = t.own[At(leaf, Height - n)]
      BY <3>2 DEF OwnTree, Linked
    <3>5. down[n] = t.own[At(leaf, Height - n)]
      BY <1>1, <3>1, <3>2, <3>3, <3>4 DEF Side
    <3> QED BY <2>3, <3>5
  <2> QED BY <2>4, <2>5
<1>3. Height \in 0 .. Height /\ Height - Height = 0
  BY HeightIsPositive
<1>4. down[Height] = t.own[At(leaf, 0)]
  BY <1>2, <1>3
<1>5. At(leaf, 0) = <<0, leaf>>
  BY IndexRecursion DEF At
<1> QED BY <1>4, <1>5, LeafUnderGoes DEF down

LEMMA CommitHolds ==
  ASSUME TreeInv, NEW w \in Writers, OwnTree(tx[w]), Commit(w)
  PROVE  RootHoldsLastUpdate'
<1> DEFINE t == tx[w]
<1>1. t.open /\ TreeState \in DOMAIN t.own /\ root' = t.own[TreeState] /\ last' = t.updates /\ TxOK(t)
  BY Fields DEF Commit
<1>2. t.put = Len(t.updates) /\ t.todo = {} /\ root' = t.own[<<Height, 0>>]
  BY <1>1 DEF TxOK, Written
<1>3. ASSUME NEW i \in DOMAIN t.updates,
             \A j \in DOMAIN t.updates : j > i => t.updates[j].leaf # t.updates[i].leaf
      PROVE  LeafUnder(t.own[<<Height, 0>>], t.updates[i].leaf) = t.updates[i].value
  <2>1. DOMAIN t.updates = 1 .. t.put
    BY <1>1, <1>2, PutAll
  <2>2. t.own[<<0, t.updates[i].leaf>>] = t.updates[i].value
    BY <1>3, <2>1 DEF OwnTree, LeavesHold
  <2> QED BY <1>1, <1>2, <2>2, DownIsOwn
<1>4. ASSUME NEW i \in DOMAIN last', \A j \in DOMAIN last' : j > i => last'[j].leaf # last'[i].leaf
      PROVE  LeafUnder(root', last'[i].leaf) = last'[i].value
  <2>1. LeafUnder(t.own[<<Height, 0>>], t.updates[i].leaf) = t.updates[i].value
    BY <1>1, <1>3, <1>4
  <2> QED BY <1>1, <1>2, <2>1 
<1> QED BY <1>4 DEF RootHoldsLastUpdate

RootsInv ==
  /\ TreeInv
  /\ \A w \in Writers : tx[w].open => OwnTree(tx[w])
  /\ RootHoldsLastUpdate

LEMMA RootsStep ==
  ASSUME RootsInv, [Next]_vars
  PROVE  RootsInv'
<1>1. TreeInv /\ TreeInv'
  BY TreeStep DEF RootsInv
<1>2. CASE UNCHANGED vars
  <2>1. tx' = tx /\ root' = root /\ last' = last
    BY <1>2 DEF vars
  <2>2. RootHoldsLastUpdate'
    BY <2>1 DEF RootsInv, RootHoldsLastUpdate
  <2>3. \A w \in Writers : tx'[w].open => OwnTree(tx'[w])
    BY <2>1 DEF RootsInv
  <2> QED BY <1>1, <2>2, <2>3 DEF RootsInv, OwnTree, LeavesHold, Linked
<1>3. CASE Next
  <2>1. PICK w \in Writers :
           \/ \E us \in Batches : Begin(w, us)
           \/ PutLeaf(w) \/ (\E n : ReadChildren(w, n)) \/ PutParent(w) \/ PutRoot(w)
           \/ Ends(w)
    BY <1>3, NextIs
  <2>2. Moves(w, tx'[w]) /\ (tx'[w].open => OwnTree(tx'[w]))
    <3>1. CASE \E us \in Batches : Begin(w, us)
      BY <1>1, <3>1, BeginMoves, BegunHolds
    <3>2. CASE PutLeaf(w)
      BY <1>1, <3>2, PutLeafMoves, LeafPutHolds, Fields DEF RootsInv
    <3>3. CASE \E n : ReadChildren(w, n)
      <4>1. PICK n : ReadChildren(w, n)
        BY <3>3
      <4>2. tx[w].open /\ Moves(w, tx'[w]) /\ ChildrenRead(tx[w], tx'[w], ChildrenOf(w, n)) /\ TxOK(tx[w])
        BY <1>1, <4>1, ReadChildrenMoves, Fields
      <4>3. ReadLinks(tx[w], ChildrenOf(w, n)) /\ OwnTree(tx[w])
        BY <4>2, ReadLinksPath DEF RootsInv
      <4> QED BY <4>2, <4>3, ChildrenReadHolds
    <3>4. CASE PutParent(w)
      BY <1>1, <3>4, PutParentMoves, ParentPutHolds, Fields DEF RootsInv
    <3>5. CASE PutRoot(w)
      BY <1>1, <3>5, PutRootMoves, RootPutHolds, Fields DEF RootsInv
    <3>6. CASE Ends(w)
      BY <1>1, <3>6, EndMoves DEF Idle
    <3> QED BY <2>1, <3>1, <3>2, <3>3, <3>4, <3>5, <3>6
  <2>3. \A v \in Writers : tx'[v].open => OwnTree(tx'[v])
    <3>1. \A v \in Writers : v # w => tx'[v] = tx[v]
      BY <2>2 DEF Moves
    <3> QED BY <2>2, <3>1 DEF RootsInv
  <2>4. RootHoldsLastUpdate'
    <3>1. CASE Commit(w)
      BY <1>1, <3>1, CommitHolds DEF RootsInv, Commit
    <3>2. CASE root' = root /\ last' = last
      BY <3>2 DEF RootsInv, RootHoldsLastUpdate
    <3> QED BY <2>1, <3>1, <3>2 DEF Begin, PutLeaf, ReadChildren, PutParent, PutRoot, Ends, Fail, DeadlockVictim
  <2> QED BY <1>1, <2>3, <2>4 DEF RootsInv, OwnTree, LeavesHold, Linked
<1> QED BY <1>2, <1>3

LEMMA RootsInit == Init => RootsInv
<1> SUFFICES ASSUME Init PROVE RootsInv
  OBVIOUS
<1>1. DOMAIN last = {}
  BY DEF Init
<1>2. \A w \in Writers : ~tx[w].open
  BY DEF Init, Idle
<1> QED BY <1>1, <1>2, TreeInit DEF RootsInv, RootHoldsLastUpdate

\* A committed root commits to the leaves of its own update, the last value of
\* each, however updates interleave, fail or are ended by a deadlock.
THEOREM RootsHoldUpdates == Spec => []RootHoldsLastUpdate
<1>1. RootsInv /\ [Next]_vars => RootsInv'
  BY RootsStep
<1>2. RootsInv => RootHoldsLastUpdate
  BY DEF RootsInv
<1> QED BY <1>1, <1>2, RootsInit, PTL DEF Spec

-----------------------------------------------------------------------------
(***************************************************************************)
(* A tree of nodes, and what one more node does to it                      *)
(***************************************************************************)

Val(f, l, k) == IF <<l, k>> \in DOMAIN f THEN f[<<l, k>>] ELSE ZeroHash[l]
Pair(f, l, k) == <<Val(f, l - 1, 2 * k), Val(f, l - 1, 2 * k + 1)>>

\* An inner node is the hash of the two below it, unless it is to be computed,
\* and has a node above it, or one that is to be computed.
NodeOK(f, todo, l, k) ==
  <<l, k>> \in DOMAIN f =>
    /\ <<l, k>> \notin todo => f[<<l, k>>] = Pair(f, l, k)
    /\ l < Height => <<l + 1, k \div 2>> \in DOMAIN f \cup todo

Whole(f, todo) == \A l \in 1 .. Height : \A k \in Level(l) : NodeOK(f, todo, l, k)

\* Two trees that have the same nodes, but for one place
AgreeAt(f, g, l, k) ==
  /\ <<l, k>> \in DOMAIN f <=> <<l, k>> \in DOMAIN g
  /\ <<l, k>> \in DOMAIN f => f[<<l, k>>] = g[<<l, k>>]
AgreeBut(f, g, p) == \A l \in 0 .. Height : \A k : <<l, k>> # p => AgreeAt(f, g, l, k)

LEMMA LevelInNat ==
  ASSUME NEW l \in 0 .. Height
  PROVE  Level(l) \subseteq Nat
<1>1. Height - l \in 0 .. Height
  BY HeightIsPositive
<1> QED BY <1>1, TwoToType DEF Level

LEMMA HalvesOf ==
  ASSUME NEW k \in Nat
  PROVE  (2 * k) \div 2 = k /\ (2 * k + 1) \div 2 = k /\ 2 * k \in Nat /\ 2 * k + 1 \in Nat
OBVIOUS

LEMMA AgreeVal ==
  ASSUME NEW f, NEW g, NEW l, NEW k, AgreeAt(f, g, l, k)
  PROVE  Val(f, l, k) = Val(g, l, k)
BY DEF AgreeAt, Val

LEMMA PairAgrees ==
  ASSUME NEW f, NEW g, NEW p, AgreeBut(f, g, p), NEW l \in 1 .. Height, NEW k,
         <<l - 1, 2 * k>> # p, <<l - 1, 2 * k + 1>> # p
  PROVE  Pair(f, l, k) = Pair(g, l, k)
<1>1. l - 1 \in 0 .. Height
  BY HeightIsPositive
<1>2. AgreeAt(f, g, l - 1, 2 * k) /\ AgreeAt(f, g, l - 1, 2 * k + 1)
  BY <1>1 DEF AgreeBut
<1> QED BY <1>2, AgreeVal DEF Pair

LEMMA WholeAgrees ==
  ASSUME NEW f, NEW g, NEW todo, NEW more, Whole(f, todo), AgreeBut(f, g, TreeState), todo \subseteq more
  PROVE  Whole(g, more)
<1>1. SUFFICES ASSUME NEW l \in 1 .. Height, NEW k \in Level(l), <<l, k>> \in DOMAIN g
               PROVE  NodeOK(g, more, l, k)
  BY DEF Whole, NodeOK
<1>2. \A m \in 0 .. Height : \A j : AgreeAt(f, g, m, j)
  BY ApartFromTreeState DEF AgreeBut
<1>3. l \in 0 .. Height /\ l - 1 \in 0 .. Height
  BY HeightIsPositive
<1>4. Pair(f, l, k) = Pair(g, l, k)
  BY <1>2, <1>3, AgreeVal DEF Pair
<1>5. <<l, k>> \in DOMAIN f /\ f[<<l, k>>] = g[<<l, k>>]
  BY <1>1, <1>2, <1>3 DEF AgreeAt
<1>6. NodeOK(f, todo, l, k)
  BY DEF Whole
<1>7. <<l, k>> \notin more => g[<<l, k>>] = Pair(g, l, k)
  BY <1>4, <1>5, <1>6 DEF NodeOK
<1>8. ASSUME l < Height PROVE <<l + 1, k \div 2>> \in DOMAIN g \cup more
  <2>1. l + 1 \in 0 .. Height
    BY <1>8, HeightIsPositive
  <2>2. <<l + 1, k \div 2>> \in DOMAIN f \cup todo
    BY <1>5, <1>6, <1>8 DEF NodeOK
  <2> QED BY <1>2, <2>1, <2>2 DEF AgreeAt
<1> QED BY <1>7, <1>8 DEF NodeOK

\* A node is put that was to be computed, or a leaf, below one to be computed.
LEMMA WholeAfterOne ==
  ASSUME NEW f, NEW g, NEW todo, NEW d \in 0 .. Height, NEW e \in Level(d), Whole(f, todo),
         AgreeBut(f, g, <<d, e>>), <<d, e>> \in DOMAIN g,
         d # 0 => g[<<d, e>>] = Pair(f, d, e),
         d < Height => <<d + 1, e \div 2>> \in todo
  PROVE  Whole(g, todo \ {<<d, e>>})
<1>1. SUFFICES ASSUME NEW l \in 1 .. Height, NEW k \in Level(l), <<l, k>> \in DOMAIN g
               PROVE  NodeOK(g, todo \ {<<d, e>>}, l, k)
  BY DEF Whole, NodeOK
<1>2. l \in 0 .. Height /\ l - 1 \in 0 .. Height /\ k \in Nat /\ e \in Nat
  BY LevelInNat, HeightIsPositive
<1>3. CASE <<l, k>> = <<d, e>>
  <2>1. l = d /\ k = e
    BY <1>3
  <2>2. <<l - 1, 2 * k>> # <<d, e>> /\ <<l - 1, 2 * k + 1>> # <<d, e>>
    BY <1>2, <2>1
  <2>3. Pair(f, l, k) = Pair(g, l, k)
    BY <2>2, PairAgrees
  <2>4. g[<<l, k>>] = Pair(g, l, k)
    BY <2>1, <2>3
  <2>5. ASSUME l < Height PROVE <<l + 1, k \div 2>> \in todo \ {<<d, e>>}
    BY <1>2, <2>1, <2>5
  <2> QED BY <2>4, <2>5 DEF NodeOK
<1>4. CASE <<l, k>> # <<d, e>>
  <2>1. <<l, k>> \in DOMAIN f /\ f[<<l, k>>] = g[<<l, k>>]
    BY <1>1, <1>2, <1>4 DEF AgreeBut, AgreeAt
  <2>2. NodeOK(f, todo, l, k)
    BY DEF Whole
  <2>3. ASSUME <<l, k>> \notin todo \ {<<d, e>>} PROVE g[<<l, k>>] = Pair(g, l, k)
    <3>1. <<l, k>> \notin todo
      BY <1>4, <2>3
    <3>2. f[<<l, k>>] = Pair(f, l, k)
      BY <2>1, <2>2, <3>1 DEF NodeOK
    <3>3. <<l - 1, 2 * k>> # <<d, e>> /\ <<l - 1, 2 * k + 1>> # <<d, e>>
      <4>1. CASE l - 1 # d
        BY <4>1
      <4>2. CASE l - 1 = d
        <5>1. l = d + 1 /\ d < Height
          BY <4>2, HeightIsPositive
        <5>2. k # e \div 2
          BY <3>1, <5>1
        <5>3. 2 * k # e /\ 2 * k + 1 # e
          BY <1>2, <5>2, HalvesOf
        <5> QED BY <5>3
      <4> QED BY <4>1, <4>2
    <3>4. Pair(f, l, k) = Pair(g, l, k)
      BY <3>3, PairAgrees
    <3> QED BY <2>1, <3>2, <3>4
  <2>4. ASSUME l < Height PROVE <<l + 1, k \div 2>> \in DOMAIN g \cup (todo \ {<<d, e>>})
    <3>1. l + 1 \in 0 .. Height
      BY <2>4, HeightIsPositive
    <3>2. <<l + 1, k \div 2>> \in DOMAIN f \cup todo
      BY <2>1, <2>2, <2>4 DEF NodeOK
    <3>3. CASE <<l + 1, k \div 2>> = <<d, e>>
      BY <3>3
    <3>4. CASE <<l + 1, k \div 2>> # <<d, e>>
      BY <3>1, <3>2, <3>4 DEF AgreeBut, AgreeAt
    <3> QED BY <3>3, <3>4
  <2> QED BY <2>3, <2>4 DEF NodeOK
<1> QED BY <1>3, <1>4

-----------------------------------------------------------------------------
(***************************************************************************)
(* The tree that one transaction sees, while nobody else writes            *)
(***************************************************************************)

OpenOK(f, t) ==
  /\ Whole(Merged(f, t.own), t.todo)
  /\ \A r \in t.read : r.hash = Pair(Merged(f, t.own), r.node[1], r.node[2])

LEMMA BegunWhole ==
  ASSUME NEW f, NEW s, NEW us \in Batches, Begun(s, us), Whole(f, {})
  PROVE  OpenOK(f, s)
<1>1. s.own = NoRows /\ s.read = {}
  BY DEF Begun, IsRow
<1>2. AgreeBut(f, Merged(f, s.own), TreeState)
  BY <1>1 DEF AgreeBut, AgreeAt, Merged, NoRows
<1>3. Whole(Merged(f, s.own), s.todo)
  BY <1>2, WholeAgrees
<1> QED BY <1>1, <1>3 DEF OpenOK

LEMMA MergedWith ==
  ASSUME NEW f, NEW own, NEW p, NEW h
  PROVE  /\ AgreeBut(Merged(f, own), Merged(f, With(own, p, h)), p)
         /\ p \in DOMAIN Merged(f, With(own, p, h)) /\ Merged(f, With(own, p, h))[p] = h
<1>1. p \in DOMAIN Merged(f, With(own, p, h)) /\ Merged(f, With(own, p, h))[p] = h
  BY DEF Merged, With
<1>2. ASSUME NEW q, q # p
      PROVE  /\ q \in DOMAIN Merged(f, own) <=> q \in DOMAIN Merged(f, With(own, p, h))
             /\ q \in DOMAIN Merged(f, own) => Merged(f, own)[q] = Merged(f, With(own, p, h))[q]
  BY <1>2 DEF Merged, With
<1> QED BY <1>1, <1>2 DEF AgreeBut, AgreeAt

LEMMA LeafPutWhole ==
  ASSUME NEW f, NEW t, NEW s, TxOK(t), t.open, OpenOK(f, t), LeafPut(t, s)
  PROVE  OpenOK(f, s)
<1> DEFINE us == t.updates
           u == us[t.put + 1]
<1>1. s.todo = t.todo /\ s.read = t.read /\ s.own = With(t.own, <<0, u.leaf>>, u.value) /\ t.put < Len(us)
  BY DEF LeafPut, IsRow
<1>2. t.todo = AffectedPaths(us) /\ t.read = {} /\ t.put + 1 \in DOMAIN us
  BY <1>1, PutAll
<1>3. <<1, u.leaf \div 2>> \in t.todo
  BY <1>2, PutAll, AffectedGoUp
<1>4. u.leaf \in Level(0) /\ 0 \in 0 .. Height /\ 0 + 1 = 1
  <2>1. u.leaf \in Level(0)
    BY <1>2, PutAll, AffectedInTree, TopLevel
  <2> QED BY <2>1, HeightIsPositive
<1>5. <<0, u.leaf>> \notin t.todo
  BY <1>2, PutAll, AffectedInTree
<1>6. Whole(Merged(f, t.own), t.todo)
  BY DEF OpenOK
<1> DEFINE a == Merged(f, t.own)
           b == Merged(f, s.own)
<1>7. AgreeBut(a, b, <<0, u.leaf>>) /\ <<0, u.leaf>> \in DOMAIN b
  BY <1>1, MergedWith
<1>8. Whole(b, t.todo \ {<<0, u.leaf>>})
  <2> HIDE DEF a, b, u
  <2> QED BY <1>3, <1>4, <1>6, <1>7, WholeAfterOne DEF a
<1>9. t.todo \ {<<0, u.leaf>>} = t.todo
  BY <1>5
<1> QED BY <1>1, <1>2, <1>8, <1>9 DEF OpenOK

LEMMA ChildrenReadWhole ==
  ASSUME NEW w, TxOK(tx[w]), tx[w].open, NEW n, NEW s, ChildrenRead(tx[w], s, ChildrenOf(w, n)),
         OpenOK(nodes, tx[w])
  PROVE  OpenOK(nodes, s)
<1> DEFINE t == tx[w]
<1>1. s.todo = t.todo /\ s.read = {ChildrenOf(w, n)} /\ s.own = t.own /\ n \in t.todo
  BY DEF ChildrenRead, IsRow, ChildrenOf
<1>2. PICK l \in 1 .. Height : \E k \in Level(l) : n = <<l, k>>
  BY <1>1, PutAll, AffectedInTree
<1>3. PICK k \in Level(l) : n = <<l, k>>
  BY <1>2
<1>4. k \in Nat /\ 2 * k + 0 = 2 * k /\ n[1] = l /\ n[2] = k
  <2>1. l \in 0 .. Height
    BY HeightIsPositive
  <2> QED BY <1>3, <2>1, LevelInNat
<1>5. \A m, j : NodeHash(w, <<m, j>>) = Val(Merged(nodes, t.own), m, j)
  BY DEF NodeHash, Val
<1>6. ChildrenOf(w, n).node = n /\ ChildrenOf(w, n).hash = Pair(Merged(nodes, t.own), l, k)
  <2>1. ChildrenOf(w, n).hash = <<NodeHash(w, <<l - 1, 2 * k + 0>>), NodeHash(w, <<l - 1, 2 * k + 1>>)>>
    BY <1>4 DEF ChildrenOf
  <2> QED BY <1>4, <1>5, <2>1 DEF Pair, ChildrenOf
<1> QED BY <1>1, <1>4, <1>6 DEF OpenOK

LEMMA ParentPutWhole ==
  ASSUME NEW f, NEW t, NEW s, NEW r, TxOK(t), t.open, OpenOK(f, t), ParentPut(t, s, r)
  PROVE  OpenOK(f, s)
<1> DEFINE us == t.updates
           a == Merged(f, t.own)
           b == Merged(f, s.own)
<1>1. s.todo = t.todo \ {r.node} /\ s.read = {} /\ s.own = With(t.own, r.node, r.hash) /\ r \in t.read
  BY DEF ParentPut, IsRow
<1>2. r.node \in t.todo /\ r.node \in AffectedPaths(us)
  <2>1. r.node \in t.todo
    BY <1>1 DEF TxOK, Climbing
  <2> QED BY <2>1, PutAll
<1>3. PICK d \in 1 .. Height : \E k \in Level(d) : r.node = <<d, k>>
  BY <1>2, PutAll, AffectedInTree
<1>4. PICK e \in Level(d) : r.node = <<d, e>>
  BY <1>3
<1>5. d \in 0 .. Height /\ d # 0 /\ r.node[1] = d /\ r.node[2] = e
  BY <1>4, HeightIsPositive
<1>6. Whole(a, t.todo) /\ r.hash = Pair(a, d, e)
  BY <1>1, <1>5 DEF OpenOK
<1>7. AgreeBut(a, b, <<d, e>>) /\ <<d, e>> \in DOMAIN b /\ b[<<d, e>>] = r.hash
  BY <1>1, <1>4, MergedWith
<1>8. ASSUME d < Height PROVE <<d + 1, e \div 2>> \in t.todo
  <2>1. d \in 1 .. Height - 1 /\ ~(d + 1 <= d)
    BY <1>8, HeightIsPositive
  <2>2. <<d + 1, e \div 2>> \in AffectedPaths(us)
    BY <1>2, <1>4, <2>1, PutAll, AffectedGoUp
  <2>3. \A n \in Computed(t) : n[1] <= d
    BY <1>2, <1>5 DEF TxOK, Climbing
  <2>4. <<d + 1, e \div 2>> \notin Computed(t)
    BY <2>1, <2>3
  <2> QED BY <2>2, <2>4 DEF Computed
<1>9. Whole(b, t.todo \ {<<d, e>>})
  <2> HIDE DEF a, b
  <2> QED BY <1>5, <1>6, <1>7, <1>8, WholeAfterOne
<1> QED BY <1>1, <1>4, <1>9 DEF OpenOK

LEMMA RootPutWhole ==
  ASSUME NEW f, NEW t, NEW s, TxOK(t), t.open, OpenOK(f, t), RootPut(t, s)
  PROVE  OpenOK(f, s)
<1>1. s.todo = t.todo /\ s.read = {} /\ s.own = With(t.own, TreeState, t.own[<<Height, 0>>])
  BY DEF RootPut, IsRow
<1>2. AgreeBut(Merged(f, t.own), Merged(f, s.own), TreeState)
  BY <1>1, MergedWith
<1>3. Whole(Merged(f, s.own), s.todo)
  BY <1>1, <1>2, WholeAgrees DEF OpenOK
<1> QED BY <1>1, <1>3 DEF OpenOK

LEMMA CommitWhole ==
  ASSUME NEW f, NEW g, NEW t, TxOK(t), t.open, OpenOK(f, t), TreeState \in DOMAIN t.own,
         g = Merged(f, [p \in DOMAIN t.own \ {TreeState} |-> t.own[p]])
  PROVE  Whole(g, {}) /\ <<Height, 0>> \in DOMAIN g /\ g[<<Height, 0>>] = t.own[TreeState]
<1>1. t.todo = {} /\ t.own[TreeState] = t.own[<<Height, 0>>]
  BY DEF TxOK, Written
<1>2. AgreeBut(Merged(f, t.own), g, TreeState)
  <2>1. ASSUME NEW q, q # TreeState
        PROVE  /\ q \in DOMAIN Merged(f, t.own) <=> q \in DOMAIN g
               /\ q \in DOMAIN Merged(f, t.own) => Merged(f, t.own)[q] = g[q]
    BY <2>1 DEF Merged
  <2> QED BY <2>1 DEF AgreeBut, AgreeAt
<1>3. Whole(g, {})
  BY <1>1, <1>2, WholeAgrees DEF OpenOK
<1>4. <<Height, 0>> \in DOMAIN t.own /\ <<Height, 0>> # TreeState
  BY <1>1, TopIsComputed
<1>5. <<Height, 0>> \in DOMAIN g /\ g[<<Height, 0>>] = t.own[<<Height, 0>>]
  BY <1>4 DEF Merged
<1> QED BY <1>1, <1>3, <1>5

SerialInv ==
  ~overlapped =>
    /\ Whole(nodes, {})
    /\ root # Empty => <<Height, 0>> \in DOMAIN nodes /\ root = nodes[<<Height, 0>>]
    /\ \A v, w \in Writers : tx[v].open /\ tx[w].open => v = w
    /\ \A w \in Writers : tx[w].open => OpenOK(nodes, tx[w])

LEMMA SerialInit == Init => SerialInv
<1> SUFFICES ASSUME Init PROVE SerialInv
  OBVIOUS
<1>1. Whole(nodes, {})
  <2>1. DOMAIN nodes = {<<0, 0>>}
    BY DEF Init, With, NoRows
  <2>2. ASSUME NEW l \in 1 .. Height, NEW k PROVE <<l, k>> \notin DOMAIN nodes
    BY <2>1
  <2> QED BY <2>2 DEF Whole, NodeOK
<1>2. \A w \in Writers : ~tx[w].open
  BY DEF Init, Idle
<1> QED BY <1>1, <1>2 DEF Init, SerialInv

\* The step of the only open transaction, but for its end
LEMMA AloneStep ==
  ASSUME TreeInv, SerialInv, ~overlapped, NEW w \in Writers, tx[w].open,
         Moves(w, tx'[w]), OpenOK(nodes, tx'[w]), nodes' = nodes, root' = root
  PROVE  SerialInv'
<1>1. \A v \in Writers : v # w => tx'[v] = tx[v] /\ ~tx[v].open
  BY DEF Moves, SerialInv
<1>2. \A v \in Writers : tx'[v].open => v = w
  BY <1>1
<1>3. \A v \in Writers : tx'[v].open => OpenOK(nodes', tx'[v])
  BY <1>2
<1>4. Whole(nodes', {}) /\ (root' # Empty => <<Height, 0>> \in DOMAIN nodes' /\ root' = nodes'[<<Height, 0>>])
  BY DEF SerialInv
<1> QED BY <1>2, <1>3, <1>4 DEF SerialInv, OpenOK, Whole, NodeOK, Pair, Val

LEMMA SerialStep ==
  ASSUME TreeInv, SerialInv, [Next]_vars
  PROVE  SerialInv'
<1>1. CASE UNCHANGED vars
  BY <1>1 DEF SerialInv, vars, OpenOK, Whole, NodeOK, Pair, Val
<1>2. CASE Next
  <2>1. PICK w \in Writers :
           \/ \E us \in Batches : Begin(w, us)
           \/ PutLeaf(w) \/ (\E n : ReadChildren(w, n)) \/ PutParent(w) \/ PutRoot(w)
           \/ Ends(w)
    BY <1>2, NextIs
  <2>2. SUFFICES ASSUME ~overlapped' PROVE SerialInv'
    BY DEF SerialInv
  <2>3. ~overlapped
    BY <2>1, <2>2 DEF Begin, PutLeaf, ReadChildren, PutParent, PutRoot, Ends, Commit, Fail, DeadlockVictim
  <2>4. TxOK(tx[w]) /\ (tx[w].open => OpenOK(nodes, tx[w]))
    BY <2>3, Fields DEF SerialInv
  <2>5. CASE \E us \in Batches : Begin(w, us)
    <3>1. PICK us \in Batches : Begin(w, us)
      BY <2>5
    <3>2. Moves(w, tx'[w]) /\ Begun(tx'[w], us)
      BY <3>1, BeginMoves
    <3>3. \A v \in Writers : ~tx[v].open
      BY <2>2, <3>1 DEF Begin
    <3>4. nodes' = nodes /\ root' = root
      BY <3>1 DEF Begin
    <3>5. OpenOK(nodes, tx'[w])
      BY <2>3, <3>2, BegunWhole DEF SerialInv
    <3>6. \A v \in Writers : tx'[v].open => v = w
      BY <3>2, <3>3 DEF Moves
    <3>7. \A v \in Writers : tx'[v].open => OpenOK(nodes', tx'[v])
      BY <3>4, <3>5, <3>6
    <3>8. Whole(nodes', {}) /\ (root' # Empty => <<Height, 0>> \in DOMAIN nodes' /\ root' = nodes'[<<Height, 0>>])
      BY <2>3, <3>4 DEF SerialInv
    <3> QED BY <3>6, <3>7, <3>8 DEF SerialInv, OpenOK, Whole, NodeOK, Pair, Val
  <2>6. CASE PutLeaf(w)
    <3>1. tx[w].open /\ Moves(w, tx'[w]) /\ OpenOK(nodes, tx'[w])
      BY <2>4, <2>6, PutLeafMoves, LeafPutWhole
    <3> QED BY <2>3, <2>6, <3>1, AloneStep DEF PutLeaf
  <2>7. CASE \E n : ReadChildren(w, n)
    <3>1. PICK n : ReadChildren(w, n)
      BY <2>7
    <3>2. tx[w].open /\ Moves(w, tx'[w]) /\ ChildrenRead(tx[w], tx'[w], ChildrenOf(w, n))
      BY <3>1, ReadChildrenMoves
    <3>3. OpenOK(nodes, tx'[w])
      BY <2>4, <3>2, ChildrenReadWhole
    <3> QED BY <2>3, <3>1, <3>2, <3>3, AloneStep DEF ReadChildren
  <2>8. CASE PutParent(w)
    <3>1. tx[w].open /\ Moves(w, tx'[w]) /\ OpenOK(nodes, tx'[w])
      BY <2>4, <2>8, PutParentMoves, ParentPutWhole
    <3> QED BY <2>3, <2>8, <3>1, AloneStep DEF PutParent
  <2>9. CASE PutRoot(w)
    <3>1. tx[w].open /\ Moves(w, tx'[w]) /\ OpenOK(nodes, tx'[w])
      BY <2>4, <2>9, PutRootMoves, RootPutWhole
    <3> QED BY <2>3, <2>9, <3>1, AloneStep DEF PutRoot
  <2>10. CASE Ends(w)
    <3>1. Moves(w, tx'[w]) /\ tx'[w] = Idle
      BY <2>10, EndMoves
    <3>2. \A v \in Writers : v # w => tx'[v] = tx[v]
      BY <3>1 DEF Moves
    <3>3. ~tx'[w].open
      BY <3>1 DEF Idle
    <3>4. CASE Commit(w)
      <4>1. tx[w].open /\ TreeState \in DOMAIN tx[w].own /\ root' = tx[w].own[TreeState]
            /\ nodes' = Merged(nodes, [p \in DOMAIN tx[w].own \ {TreeState} |-> tx[w].own[p]])
        BY <3>4 DEF Commit
      <4>2. Whole(nodes', {}) /\ <<Height, 0>> \in DOMAIN nodes' /\ nodes'[<<Height, 0>>] = root'
        BY <2>4, <4>1, CommitWhole
      <4>3. \A v \in Writers : ~tx'[v].open
        BY <2>3, <3>2, <3>3, <4>1 DEF SerialInv
      <4> QED BY <4>2, <4>3 DEF SerialInv, Whole, NodeOK, Pair, Val
    <3>5. CASE nodes' = nodes /\ root' = root
      <4>1. \A v \in Writers : tx'[v].open => tx[v].open /\ tx'[v] = tx[v]
        BY <3>2, <3>3
      <4>2. \A v, u \in Writers : tx'[v].open /\ tx'[u].open => v = u
        BY <2>3, <4>1 DEF SerialInv
      <4>3. \A v \in Writers : tx'[v].open => OpenOK(nodes', tx'[v])
        BY <2>3, <3>5, <4>1 DEF SerialInv
      <4>4. Whole(nodes', {}) /\ (root' # Empty => <<Height, 0>> \in DOMAIN nodes' /\ root' = nodes'[<<Height, 0>>])
        BY <2>3, <3>5 DEF SerialInv
      <4> QED BY <4>2, <4>3, <4>4 DEF SerialInv, OpenOK, Whole, NodeOK, Pair, Val
    <3> QED BY <2>10, <3>4, <3>5 DEF Ends, Fail, DeadlockVictim
  <2> QED BY <2>1, <2>5, <2>6, <2>7, <2>8, <2>9, <2>10
<1> QED BY <1>1, <1>2

-----------------------------------------------------------------------------
(***************************************************************************)
(* The root of a whole tree                                                *)
(***************************************************************************)

LEMMA StoredIs == \A l, k : Stored(l, k) = Val(nodes, l, k)
BY DEF Stored, Val

\* A node is the hash of the two below it, stored or not.
LEMMA PairUp ==
  ASSUME Whole(nodes, {}), NEW l \in 1 .. Height, NEW k \in Level(l), l = 1 => Attached(2 * k)
  PROVE  Stored(l, k) = <<Stored(l - 1, 2 * k), Stored(l - 1, 2 * k + 1)>>
<1>1. l \in 0 .. Height /\ l - 1 \in 0 .. Height
  BY HeightIsPositive
<1>2. k \in Nat /\ 2 * k \in Level(l - 1) /\ 2 * k + 1 \in Level(l - 1)
  BY <1>1, LevelInNat, LevelAbove
<1>3. CASE <<l, k>> \in DOMAIN nodes
  <2>1. nodes[<<l, k>>] = Pair(nodes, l, k)
    BY <1>3 DEF Whole, NodeOK
  <2> QED BY <1>3, <2>1, StoredIs DEF Stored, Pair
<1>4. CASE <<l, k>> \notin DOMAIN nodes
  <2>1. ASSUME NEW j \in Level(l - 1), j \div 2 = k PROVE <<l - 1, j>> \notin DOMAIN nodes
    <3>1. CASE l = 1
      <4>1. (2 * k) \div 2 = k /\ j \in 0 .. Capacity - 1
        <5>1. l - 1 = 0
          BY <3>1
        <5>2. j \in 0 .. Capacity - 1
          BY <2>1, <5>1, TopLevel
        <5> QED BY <1>2, <5>2, HalvesOf
      <4>2. ~(\E i \in 0 .. Capacity - 1 : i \div 2 = k /\ <<0, i>> \in DOMAIN nodes)
        BY <1>4, <3>1, <4>1 DEF Attached
      <4> QED BY <2>1, <3>1, <4>1, <4>2
    <3>2. CASE l # 1
      <4>1. l - 1 \in 1 .. Height /\ l - 1 < Height /\ (l - 1) + 1 = l
        BY <3>2, HeightIsPositive
      <4>2. NodeOK(nodes, {}, l - 1, j)
        BY <2>1, <4>1 DEF Whole
      <4> QED BY <1>4, <2>1, <4>1, <4>2 DEF NodeOK
    <3> QED BY <3>1, <3>2
  <2>2. <<l - 1, 2 * k>> \notin DOMAIN nodes /\ <<l - 1, 2 * k + 1>> \notin DOMAIN nodes
    BY <1>2, <2>1, HalvesOf
  <2> QED BY <1>4, <2>2, ZeroHashRecursion DEF Stored
<1> QED BY <1>3, <1>4

LEMMA HashOfPathGoes ==
  ASSUME NEW leaf
  PROVE  HashOfPath(leaf) = Going("climb", leaf, Stored(0, leaf))[Height]
BY DEF HashOfPath, Going, Goes, StepOf, Climb

\* The hash of a path is the node at the top.
LEMMA PathIsTop ==
  ASSUME Whole(nodes, {}), NEW leaf \in 0 .. Capacity - 1, Attached(leaf)
  PROVE  HashOfPath(leaf) = Stored(Height, 0)
<1> DEFINE up == Going("climb", leaf, Stored(0, leaf))
           Bad == {l \in 0 .. Height : up[l] # Stored(l, IndexAt(leaf)[l])}
<1>1. up[0] = Stored(0, leaf) /\ \A l \in 1 .. Height : up[l] = Climb(leaf, l, up[l - 1])
  <2>1. up[0] = Stored(0, leaf) /\ \A l \in 1 .. Height : up[l] = StepOf("climb", leaf, l, up[l - 1])
    BY GoingRecursion
  <2> HIDE DEF up
  <2> QED BY <2>1 DEF StepOf
<1> HIDE DEF up
<1>2. Bad = {}
  <2>1. SUFFICES ASSUME Bad # {} PROVE FALSE
    OBVIOUS
  <2>2. Bad \subseteq Nat
    BY HeightIsPositive
  <2>3. PICK l \in Bad : \A m \in Bad : l <= m
    BY <2>1, <2>2, LeastNumber
  <2>4. CASE l = 0
    BY <1>1, <2>3, <2>4, IndexRecursion
  <2>5. CASE l # 0
    <3>1. l \in 1 .. Height /\ l - 1 \in 0 .. Height /\ l - 1 \notin Bad
      BY <2>3, <2>5, HeightIsPositive
    <3> DEFINE k == IndexAt(leaf)[l - 1]
               q == k \div 2
    <3>2. k \in Nat /\ q \in Level(l) /\ IndexAt(leaf)[l] = q
      <4>1. k \in Level(l - 1)
        BY <3>1, IndexInLevel
      <4>2. k \in Nat
        BY <3>1, <4>1, LevelInNat
      <4>3. IndexAt(leaf)[l] = q
        BY <3>1, IndexRecursion
      <4>4. q \in Level(l)
        BY <3>1, <4>1, LevelAbove
      <4> QED BY <4>2, <4>3, <4>4
    <3>3. up[l - 1] = Stored(l - 1, k)
      BY <3>1
    <3>4. l = 1 => Attached(2 * q)
      <4>1. SUFFICES ASSUME l = 1 PROVE Attached(2 * q)
        OBVIOUS
      <4>2. k = leaf
        BY <4>1, IndexRecursion
      <4>3. q \in Nat /\ (2 * q) \div 2 = leaf \div 2
        <5>1. q \in Nat
          BY <3>2
        <5> QED BY <4>2, <5>1, HalvesOf
      <4> QED BY <4>3 DEF Attached
    <3>5. Stored(l, q) = <<Stored(l - 1, 2 * q), Stored(l - 1, 2 * q + 1)>>
      BY <3>1, <3>2, <3>4, PairUp
    <3>6. up[l] = Climb(leaf, l, Stored(l - 1, k))
      BY <1>1, <3>1, <3>3
    <3>7. Climb(leaf, l, Stored(l - 1, k)) = Stored(l, q)
      <4>1. CASE k % 2 = 0 /\ k = 2 * q + 0
        <5>1. 2 * q = k /\ 2 * q + 1 = k + 1 /\ ~(k % 2 = 1)
          BY <3>2, <4>1
        <5>2. Climb(leaf, l, Stored(l - 1, k)) = <<Stored(l - 1, k), Stored(l - 1, k + 1)>>
          BY <5>1 DEF Climb
        <5> QED BY <3>5, <5>1, <5>2
      <4>2. CASE k % 2 = 1 /\ k = 2 * q + 1
        <5>1. 2 * q = k - 1
          BY <3>2, <4>2
        <5>2. Climb(leaf, l, Stored(l - 1, k)) = <<Stored(l - 1, k - 1), Stored(l - 1, k)>>
          BY <4>2 DEF Climb
        <5> QED BY <3>5, <4>2, <5>1, <5>2
      <4> QED BY <3>2, <4>1, <4>2, HalfAndRest
    <3> QED BY <2>3, <3>2, <3>6, <3>7
  <2> QED BY <2>4, <2>5
<1>3. Height \in 0 .. Height
  BY HeightIsPositive
<1>4. IndexAt(leaf)[Height] = 0
  BY <1>3, IndexInLevel, TopLevel
<1>5. up[Height] = Stored(Height, 0)
  BY <1>2, <1>3, <1>4
<1> QED BY <1>5, HashOfPathGoes DEF up

LeafHash(k) == IF Attached(k) THEN Stored(0, k) ELSE EmptyLeaf
Leaves == [k \in Level(0) |-> LeafHash(k)]

\* The equation of the levels that HashOfLeaves computes
Levels(g) ==
  g = [l \in 0 .. Height |->
        [k \in 0 .. TwoTo[Height - l] - 1 |->
           IF l = 0 THEN (IF Attached(k) THEN Stored(0, k) ELSE EmptyLeaf)
           ELSE <<g[l - 1][2 * k], g[l - 1][2 * k + 1]>>]]

LEMMA LevelsExist == \E g : Levels(g)
<1>1. PICK g : Goes(g, "level", 0, Leaves, Height)
  BY RecursionExists, HeightIsPositive
<1>2. g = [l \in 0 .. Height |-> IF l = 0 THEN Leaves
                ELSE [k \in 0 .. TwoTo[Height - l] - 1 |-> <<g[l - 1][2 * k], g[l - 1][2 * k + 1]>>]]
  BY <1>1 DEF Goes, StepOf
<1> DEFINE f == [l \in 0 .. Height |->
                  [k \in 0 .. TwoTo[Height - l] - 1 |->
                     IF l = 0 THEN (IF Attached(k) THEN Stored(0, k) ELSE EmptyLeaf)
                     ELSE <<g[l - 1][2 * k], g[l - 1][2 * k + 1]>>]]
<1>3. ASSUME NEW l \in 0 .. Height PROVE g[l] = f[l]
  <2>1. CASE l = 0
    <3>1. g[0] = Leaves
      BY <1>2, HeightIsPositive
    <3>2. f[0] = [k \in 0 .. TwoTo[Height - 0] - 1 |-> IF Attached(k) THEN Stored(0, k) ELSE EmptyLeaf]
      BY HeightIsPositive
    <3> HIDE DEF f
    <3> QED BY <2>1, <3>1, <3>2 DEF Leaves, LeafHash, Level
  <2>2. CASE l # 0
    <3>1. g[l] = [k \in 0 .. TwoTo[Height - l] - 1 |-> <<g[l - 1][2 * k], g[l - 1][2 * k + 1]>>]
      BY <1>2, <2>2
    <3>2. f[l] = [k \in 0 .. TwoTo[Height - l] - 1 |-> <<g[l - 1][2 * k], g[l - 1][2 * k + 1]>>]
      BY <2>2
    <3> HIDE DEF f
    <3> QED BY <3>1, <3>2
  <2> QED BY <2>1, <2>2
<1>4. g = [l \in 0 .. Height |-> g[l]] /\ f = [l \in 0 .. Height |-> f[l]]
  <2>1. f = [l \in 0 .. Height |-> f[l]]
    OBVIOUS
  <2> HIDE DEF f
  <2> QED BY <1>2, <2>1
<1>5. g = f
  <2> HIDE DEF f
  <2> QED BY <1>3, <1>4
<1>6. Levels(g)
  <2> HIDE DEF f
  <2>1. f = g => f = g
    OBVIOUS
  <2> QED BY <1>5 DEF f, Levels
<1> QED BY <1>6

\* The hash over the leaves is the node at the top.
LEMMA LeavesAreTop ==
  ASSUME Whole(nodes, {})
  PROVE  HashOfLeaves = Stored(Height, 0)
<1>1. PICK g : Levels(g) /\ HashOfLeaves = g[Height][0]
  <2>1. HashOfLeaves = (CHOOSE g : Levels(g))[Height][0]
    BY DEF HashOfLeaves, Levels
  <2>2. Levels(CHOOSE g : Levels(g))
    BY LevelsExist
  <2> QED BY <2>1, <2>2
<1>2. ASSUME NEW l \in 0 .. Height, NEW k \in Level(l)
      PROVE  g[l][k] = IF l = 0 THEN LeafHash(k) ELSE <<g[l - 1][2 * k], g[l - 1][2 * k + 1]>>
  <2>1. g[l] = [j \in Level(l) |->
                  IF l = 0 THEN (IF Attached(j) THEN Stored(0, j) ELSE EmptyLeaf)
                  ELSE <<g[l - 1][2 * j], g[l - 1][2 * j + 1]>>]
    BY <1>1 DEF Levels, Level
  <2> QED BY <2>1 DEF LeafHash
<1> DEFINE Bad == {l \in 1 .. Height : ~\A k \in Level(l) : g[l][k] = Stored(l, k)}
<1>3. Bad = {}
  <2>1. SUFFICES ASSUME Bad # {} PROVE FALSE
    OBVIOUS
  <2>2. Bad \subseteq Nat
    BY HeightIsPositive
  <2>3. PICK l \in Bad : \A m \in Bad : l <= m
    BY <2>1, <2>2, LeastNumber
  <2>4. PICK k \in Level(l) : g[l][k] # Stored(l, k)
    BY <2>3
  <2>5. l \in 1 .. Height /\ l \in 0 .. Height /\ l - 1 \in 0 .. Height /\ l # 0
    BY <2>3, HeightIsPositive
  <2>6. k \in Nat /\ 2 * k \in Level(l - 1) /\ 2 * k + 1 \in Level(l - 1)
    BY <2>4, <2>5, LevelInNat, LevelAbove
  <2>7. g[l][k] = <<g[l - 1][2 * k], g[l - 1][2 * k + 1]>>
    BY <1>2, <2>4, <2>5
  <2>8. CASE l = 1
    <3>1. l - 1 = 0
      BY <2>8
    <3>2. g[l][k] = <<LeafHash(2 * k), LeafHash(2 * k + 1)>>
      BY <1>2, <2>5, <2>6, <2>7, <3>1
    <3>3. Attached(2 * k) <=> Attached(2 * k + 1)
      BY <2>6, HalvesOf DEF Attached
    <3>4. CASE Attached(2 * k)
      <4>1. g[l][k] = <<Stored(0, 2 * k), Stored(0, 2 * k + 1)>>
        BY <3>2, <3>3, <3>4 DEF LeafHash
      <4>2. Stored(l, k) = <<Stored(l - 1, 2 * k), Stored(l - 1, 2 * k + 1)>>
        BY <2>4, <2>5, <3>4, PairUp
      <4> QED BY <2>4, <3>1, <4>1, <4>2
    <3>5. CASE ~Attached(2 * k)
      <4>1. g[l][k] = <<EmptyLeaf, EmptyLeaf>>
        BY <3>2, <3>3, <3>5 DEF LeafHash
      <4>2. (2 * k) \div 2 = k
        BY <2>6, HalvesOf
      <4>3. <<1, k>> \notin DOMAIN nodes
        BY <3>5, <4>2 DEF Attached
      <4>4. Stored(l, k) = <<EmptyLeaf, EmptyLeaf>>
        BY <2>5, <2>8, <3>1, <4>3, ZeroHashRecursion DEF Stored
      <4> QED BY <2>4, <4>1, <4>4
    <3> QED BY <3>4, <3>5
  <2>9. CASE l # 1
    <3>1. l - 1 \in 1 .. Height /\ l - 1 \notin Bad
      BY <2>3, <2>5, <2>9, HeightIsPositive
    <3>2. g[l - 1][2 * k] = Stored(l - 1, 2 * k) /\ g[l - 1][2 * k + 1] = Stored(l - 1, 2 * k + 1)
      BY <2>6, <3>1
    <3>3. Stored(l, k) = <<Stored(l - 1, 2 * k), Stored(l - 1, 2 * k + 1)>>
      BY <2>4, <2>5, <2>9, PairUp
    <3> QED BY <2>4, <2>7, <3>2, <3>3
  <2> QED BY <2>8, <2>9
<1>4. Height \in 1 .. Height /\ 0 \in Level(Height)
  BY HeightIsPositive, TopLevel
<1> QED BY <1>1, <1>3, <1>4

LEMMA SerialFollows ==
  ASSUME SerialInv
  PROVE  SerialRootIsRight
<1>1. SUFFICES ASSUME ~overlapped, root # Empty
               PROVE  /\ root = HashOfLeaves
                      /\ \A k \in 0 .. Capacity - 1 : Attached(k) => HashOfPath(k) = root
  BY DEF SerialRootIsRight
<1>2. Whole(nodes, {}) /\ root = Stored(Height, 0)
  BY <1>1 DEF SerialInv, Stored
<1> QED BY <1>2, LeavesAreTop, PathIsTop

\* As long as no two updates have overlapped, the root is the hash tree over the
\* committed leaves, in whatever order nodes were computed and whatever failed
\* between two statements, and the proof generated for each leaf verifies.
THEOREM SerialRootsAreRight == Spec => []SerialRootIsRight
<1>1. TreeInv /\ SerialInv /\ [Next]_vars => TreeInv' /\ SerialInv'
  BY TreeStep, SerialStep
<1>2. TreeInv /\ SerialInv => SerialRootIsRight
  BY SerialFollows
<1> QED BY <1>1, <1>2, TreeInit, SerialInit, PTL DEF Spec

=============================================================================
