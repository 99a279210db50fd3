---------------------------- MODULE MerkleTree32 ----------------------------
(***************************************************************************)
(* MerkleTree32 of the db crate: update_leaf and batch_update, each one    *)
(* transaction of PostgreSQL at READ COMMITTED over the tables             *)
(* merkle_nodes and tree_state, called by tasks that share nothing else.   *)
(*                                                                         *)
(* A statement of a transaction reads its own writes and, otherwise, what  *)
(* is committed at that moment.  It waits to write a row that another open *)
(* transaction has written, a row that does not exist yet included (the    *)
(* upserts conflict on the primary key); of transactions that wait for     *)
(* each other PostgreSQL ends one.                                         *)
(*                                                                         *)
(* Abstractions: a hash is the pair of what was hashed; update_leaf, which *)
(* carries the hash upwards, is batch_update of one leaf, which reads it   *)
(* back from its own writes.  Reads of written rows cannot change, so the  *)
(* two reads of a parent's children are one step.                          *)
(***************************************************************************)
EXTENDS Integers, Sequences, FiniteSets

CONSTANTS
  Writers,      \* tasks that update the tree
  Values,       \* values of leaves
  Empty,        \* 32 zero bytes
  EmptyLeaf,    \* SHA-256 of 32 zero bytes
  Height,       \* 32 in the code
  MaxBatch,     \* bound: updates in one batch
  MaxUpdates,   \* bound: transactions
  MaxFaults     \* bound: transactions that fail, deadlocks not counted

ASSUME TreeAssumption ==
  /\ Height \in Nat \ {0}
  /\ MaxBatch \in Nat \ {0}
  /\ MaxUpdates \in Nat
  /\ MaxFaults \in Nat

VARIABLES
  nodes,       \* merkle_nodes, as committed: a partial function of positions
  root,        \* tree_state.root_hash, as committed
  tx,          \* the transaction of each writer
  started,     \* transactions so far
  faults,      \* faults so far
  last,        \* observation: the updates of the last commit
  overlapped   \* observation: two transactions have been open at once

vars == <<nodes, root, tx, started, faults, last, overlapped>>

-----------------------------------------------------------------------------

\* 1 << n
TwoTo[n \in 0 .. Height] == IF n = 0 THEN 1 ELSE 2 * TwoTo[n - 1]

Capacity == TwoTo[Height]
Positions == UNION {{l} \X (0 .. TwoTo[Height - l] - 1) : l \in 0 .. Height}
TreeState == <<Height + 1, 0>>   \* the row of tree_state, next to the nodes

Update == [leaf: 0 .. Capacity, value: Values]

\* The hash of an empty subtree of each level
ZeroHash[l \in 0 .. Height] ==
  IF l = 0 THEN EmptyLeaf ELSE <<ZeroHash[l - 1], ZeroHash[l - 1]>>

NoRows == [p \in {} |-> Empty]

\* An idle writer.  updates: the argument; put: how many leaves are written;
\* todo: inner nodes to recompute; read: the pair read for one of them; own:
\* the rows written and not committed, which are also the rows it locks.
Idle == [open |-> FALSE, updates |-> <<>>, put |-> 0, todo |-> {}, read |-> {},
         own |-> NoRows]

With(f, p, h) == [q \in DOMAIN f \cup {p} |-> IF q = p THEN h ELSE f[q]]
Merged(f, g) == [q \in DOMAIN f \cup DOMAIN g |-> IF q \in DOMAIN g THEN g[q] ELSE f[q]]

\* Migration 012 leaves a root and a leaf of zero bytes, and initialize finds
\* the row of tree_state there.
Init ==
  /\ nodes = With(NoRows, <<0, 0>>, Empty)
  /\ root = Empty
  /\ tx = [w \in Writers |-> Idle]
  /\ started = 0
  /\ faults = 0
  /\ last = <<>>
  /\ overlapped = FALSE

-----------------------------------------------------------------------------

\* current_index on the way from a leaf to the root: half of it at each level
IndexAt(leaf) ==
  LET index[l \in 0 .. Height] == IF l = 0 THEN leaf ELSE index[l - 1] \div 2
  IN index

\* Mutant: only the path of the first update is recomputed.
FirstPath(us) == {<<l, IndexAt(us[1].leaf)[l]>> : l \in 1 .. Height}

\* collect_affected_paths: the ancestors of every leaf that is updated
AffectedPaths(us) ==
  UNION {{<<l, IndexAt(us[i].leaf)[l]>> : l \in 1 .. Height} : i \in DOMAIN us}

\* Mutant: the read does not go through the transaction.
NodeHashOutside(w, p) == IF p \in DOMAIN nodes THEN nodes[p] ELSE ZeroHash[p[1]]

\* get_node_hash, in the transaction of w
NodeHash(w, p) ==
  LET seen == Merged(nodes, tx[w].own)
  IN IF p \in DOMAIN seen THEN seen[p] ELSE ZeroHash[p[1]]

\* The row that the next statement of w writes, when it writes one
Target(w) ==
  LET t == tx[w]
  IN IF ~t.open \/ TreeState \in DOMAIN t.own THEN {}
     ELSE IF t.put < Len(t.updates) THEN {<<0, t.updates[t.put + 1].leaf>>}
     ELSE IF t.read # {} THEN {r.node : r \in t.read}
     ELSE IF t.todo = {} THEN {TreeState} ELSE {}

\* The open transactions that w waits for
Holders(w) == {v \in Writers \ {w} : Target(w) \cap DOMAIN tx[v].own # {}}

Ready(w) == tx[w].open /\ Holders(w) = {}

\* Mutant: an index of 2^Height passes.
WithinOrAtCapacity(us) == \A i \in DOMAIN us : us[i].leaf <= Capacity

WithinCapacity(us) == \A i \in DOMAIN us : us[i].leaf < Capacity

Begin(w, us) ==
  /\ ~tx[w].open
  /\ started < MaxUpdates
  /\ WithinCapacity(us)
  /\ tx' = [tx EXCEPT ![w] = [Idle EXCEPT !.open = TRUE, !.updates = us,
                                          !.todo = AffectedPaths(us)]]
  /\ started' = started + 1
  /\ overlapped' = (overlapped \/ \E v \in Writers : tx[v].open)
  /\ UNCHANGED <<nodes, root, faults, last>>

PutLeaf(w) ==
  LET t == tx[w]
      u == t.updates[t.put + 1]
  IN /\ Ready(w)
     /\ t.put < Len(t.updates)
     /\ tx' = [tx EXCEPT ![w].own = With(@, <<0, u.leaf>>, u.value), ![w].put = @ + 1]
     /\ UNCHANGED <<nodes, root, started, faults, last, overlapped>>

\* The nodes of a level come from a HashMap, in any order.
ReadChildren(w, n) ==
  LET t == tx[w]
      child(side) == NodeHash(w, <<n[1] - 1, 2 * n[2] + side>>)
  IN /\ t.open
     /\ t.put = Len(t.updates)
     /\ t.read = {}
     /\ n \in t.todo
     /\ \A m \in t.todo : n[1] <= m[1]
     /\ tx' = [tx EXCEPT ![w].read = {[node |-> n, hash |-> <<child(0), child(1)>>]}]
     /\ UNCHANGED <<nodes, root, started, faults, last, overlapped>>

PutParent(w) ==
  /\ Ready(w)
  /\ \E r \in tx[w].read :
       tx' = [tx EXCEPT ![w].own = With(@, r.node, r.hash), ![w].read = {},
                        ![w].todo = @ \ {r.node}]
  /\ UNCHANGED <<nodes, root, started, faults, last, overlapped>>

AllComputed(w) ==
  LET t == tx[w] IN t.put = Len(t.updates) /\ t.read = {} /\ t.todo = {}

PutRoot(w) ==
  /\ Ready(w)
  /\ AllComputed(w)
  /\ TreeState \notin DOMAIN tx[w].own
  /\ tx' = [tx EXCEPT ![w].own = With(@, TreeState, @[<<Height, 0>>])]
  /\ UNCHANGED <<nodes, root, started, faults, last, overlapped>>

Commit(w) ==
  LET own == tx[w].own
  IN /\ tx[w].open
     /\ TreeState \in DOMAIN own
     /\ nodes' = Merged(nodes, [p \in DOMAIN own \ {TreeState} |-> own[p]])
     /\ root' = own[TreeState]
     /\ last' = tx[w].updates
     /\ tx' = [tx EXCEPT ![w] = Idle]
     /\ UNCHANGED <<started, faults, overlapped>>

\* Mutant: a transaction that fails is forgotten, not rolled back.
FailHolding(w) ==
  /\ tx[w].open
  /\ faults < MaxFaults
  /\ faults' = faults + 1
  /\ tx' = [tx EXCEPT ![w].open = FALSE]
  /\ UNCHANGED <<nodes, root, started, last, overlapped>>

\* A statement fails or the caller goes away: ? returns and tx is dropped.
Fail(w) ==
  /\ tx[w].open
  /\ faults < MaxFaults
  /\ faults' = faults + 1
  /\ tx' = [tx EXCEPT ![w] = Idle]
  /\ UNCHANGED <<nodes, root, started, last, overlapped>>

\* PostgreSQL ends one of the transactions that wait for each other.
DeadlockVictim(w) ==
  /\ \E S \in SUBSET Writers : w \in S /\ \A v \in S : Holders(v) \cap S # {}
  /\ tx' = [tx EXCEPT ![w] = Idle]
  /\ UNCHANGED <<nodes, root, started, faults, last, overlapped>>

Statement(w) ==
  \/ PutLeaf(w)
  \/ \E n \in tx[w].todo : ReadChildren(w, n)
  \/ PutParent(w)
  \/ PutRoot(w)
  \/ Commit(w)

Batches == UNION {[1 .. n -> Update] : n \in 1 .. MaxBatch}

Next ==
  \E w \in Writers :
    \/ \E us \in Batches : Begin(w, us)
    \/ Statement(w)
    \/ Fail(w)
    \/ DeadlockVictim(w)

\* Statements that need not wait come to an end, and PostgreSQL looks for
\* deadlocks after deadlock_timeout; nobody has to call, and nothing must fail.
Fairness ==
  /\ \A w \in Writers : WF_vars(Statement(w))
  /\ WF_vars(\E w \in Writers : DeadlockVictim(w))

Spec == Init /\ [][Next]_vars /\ Fairness

-----------------------------------------------------------------------------

\* generate_proof and verify: the hash of the path from a leaf to the root,
\* its siblings read from the committed nodes.  The code reads them statement by
\* statement and in no transaction: this is the proof it makes while nothing
\* commits.  One that a commit falls into mixes two trees and may not verify.
Stored(l, k) == IF <<l, k>> \in DOMAIN nodes THEN nodes[<<l, k>>] ELSE ZeroHash[l]

HashOfPath(leaf) ==
  LET up[l \in 0 .. Height] ==
        IF l = 0 THEN Stored(0, leaf)
        ELSE LET k == IndexAt(leaf)[l - 1]
             IN IF k % 2 = 1 THEN <<Stored(l - 1, k - 1), up[l - 1]>>
                ELSE <<up[l - 1], Stored(l - 1, k + 1)>>
  IN up[Height]

\* The migration wrote leaf 0 and no node above it: its pair of leaves is in
\* the tree from the first update of one of them.
Attached(k) ==
  (\E j \in 0 .. Capacity - 1 : j \div 2 = k \div 2 /\ <<0, j>> \in DOMAIN nodes)
    => <<1, k \div 2>> \in DOMAIN nodes

\* The hash tree over the committed leaves
HashOfLeaves ==
  LET level[l \in 0 .. Height] ==
        [k \in 0 .. TwoTo[Height - l] - 1 |->
           IF l = 0 THEN (IF Attached(k) THEN Stored(0, k) ELSE EmptyLeaf)
           ELSE <<level[l - 1][2 * k], level[l - 1][2 * k + 1]>>]
  IN level[Height][0]

\* The leaf that a root commits to: down from the root, a turn for each level
LeafUnder(h, leaf) ==
  LET down[n \in 0 .. Height] ==
        IF n = 0 THEN h
        ELSE down[n - 1][1 + (IndexAt(leaf)[Height - n] % 2)]
  IN down[Height]

\* Transactions touch rows of the tree only, and hold what is committed or not.
TypeOK ==
  /\ DOMAIN nodes \subseteq Positions
  /\ \A w \in Writers :
       /\ DOMAIN tx[w].own \subseteq Positions \cup {TreeState}
       /\ tx[w].todo \subseteq Positions
       /\ Cardinality(tx[w].read) <= 1
  /\ started \in 0 .. MaxUpdates /\ faults \in 0 .. MaxFaults

\* As long as no two updates have overlapped, the root is the hash tree over
\* the leaves, whatever the order within batches and whatever failed, and the
\* proof generated for each leaf, while nothing commits, verifies against it.
SerialRootIsRight ==
  ~overlapped /\ root # Empty =>
    /\ root = HashOfLeaves
    /\ \A k \in 0 .. Capacity - 1 : Attached(k) => HashOfPath(k) = root

\* Overlapping updates can lose the leaves of others, but a committed root
\* always commits to the leaves of its own update.
RootHoldsLastUpdate ==
  \A i \in DOMAIN last :
    (\A j \in DOMAIN last : j > i => last[j].leaf # last[i].leaf) =>
      LeafUnder(root, last[i].leaf) = last[i].value

\* An update that waits for rows of others, who may wait for its own, ends.
EveryUpdateEnds == \A w \in Writers : tx[w].open ~> ~tx[w].open

=============================================================================
