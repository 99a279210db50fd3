------------------------- MODULE IndexedMerkleTree -------------------------
(***************************************************************************)
(* The indexed Merkle tree of the ADS service: a sorted linked list of     *)
(* nullifiers in the table nullifiers, mirrored leaf by leaf in a binary   *)
(* hash tree in the table merkle_nodes.                                    *)
(*                                                                         *)
(* IndexedMerkleTreeADS::insert holds the write lock of the tree during    *)
(* the seven steps of insert_nullifier, so one insertion runs at a time,   *)
(* and the proofs of membership and absence, which take the read lock,     *)
(* are never built in the middle of one.  But each statement commits on    *)
(* its own: only the two changes to nullifiers share a transaction.  When  *)
(* a statement fails, or the request is dropped (TimeoutLayer, crash), the *)
(* insertion ends where it is and the lock is free.  The statement that    *)
(* was on its way then, a COMMIT, a get_next_tree_index, or a write of a   *)
(* node or of the root, has run, will never run, or runs later, beside the *)
(* next insertion or the next restart.                                     *)
(*                                                                         *)
(* MerkleTreeDb::insert_nullifier_complete, which nobody but tests calls,  *)
(* writes the same table without that lock: the SQL function               *)
(* insert_nullifier_atomic reads the low nullifier, waits for the row of   *)
(* tree_state, and splices the list in one transaction, but leaves the     *)
(* hash tree alone.  Its callers are Callers, each of which calls once;    *)
(* they do not wait for a restart of the service either.                   *)
(*                                                                         *)
(* Abstractions: a hash is the tuple of what was hashed, so hashes do not  *)
(* collide; a missing node has the hash Zero, as the code reads it; the    *)
(* NULL of next_index is 0, as the leaf hash takes it; rows are never      *)
(* deactivated, since only tests do that; the audit events, the cache of   *)
(* commitments and total_nullifiers, which no step reads, are left out.    *)
(***************************************************************************)
EXTENDS Integers, FiniteSets

CONSTANTS
  MaxValue,   \* the largest BIGINT
  Values,     \* nullifiers that may be inserted
  Height,     \* 32 in the code: levels above the leaves
  Callers,    \* callers of insert_nullifier_complete
  MaxFaults   \* bound: insertions that stop half-way

ASSUME TreeAssumption ==
  /\ MaxValue \in Nat
  /\ Values \subseteq 1 .. MaxValue
  /\ Height \in Nat \ {0}
  /\ MaxFaults \in Nat

VARIABLES
  rows,       \* the table nullifiers
  nodes,      \* the table merkle_nodes, a function of <<level, index>>
  root,       \* tree_state.root_hash
  nextIndex,  \* tree_state.next_available_index
  ins,        \* the insertion that holds the write lock
  oldRoot,    \* its local variable old_root
  hash,       \* its local variable current_hash
  disturbed,  \* observation: a late write has run since it began to climb
  late,       \* transactions whose COMMIT outlives their request: 0 or 1
  lateTakes,  \* number of get_next_tree_index that outlive their request
  lateWrites, \* writes of nodes and of the root that outlive their request
  calls,      \* the call of each of Callers, and its local variables
  fix,        \* the index a restart has read and is about to write, or 0
  raced,      \* observation: that restart has not seen every index
  faults      \* faults so far

locals == <<ins, oldRoot, hash, disturbed>>
stale == <<late, lateTakes, lateWrites>>
vars == <<rows, nodes, root, nextIndex, locals, stale, calls, fix, raced, faults>>

-----------------------------------------------------------------------------

Zero == <<>>

\* Two to the power of n
TwoTo[n \in 0 .. Height] == IF n = 0 THEN 1 ELSE 2 * TwoTo[n - 1]

Positions == UNION {{l} \X (0 .. TwoTo[Height - l] - 1) : l \in 0 .. Height}

Row == [value: Values \cup {0}, next: Values \cup {0}, nextIndex: Nat, index: Nat]

\* Mutant: no next nullifier is -1.
GenesisMinusOne == [value |-> 0, next |-> -1, nextIndex |-> 0, index |-> 0]

\* The row migration 012 starts the table with
Genesis == [value |-> 0, next |-> 0, nextIndex |-> 0, index |-> 0]

Members == {r.value : r \in rows}

(***************************************************************************)
(* An insertion: where it is; the value, its low nullifier as it was read  *)
(* and its tree index; and, while it climbs from a leaf to the root, which *)
(* of the two leaves it is writing, the level and the index on that level. *)
(***************************************************************************)
Insertion ==
  [pc: {"idle", "find", "index", "insert", "climb", "prove"},
   value: Values \cup {0}, low: Row, index: Nat,
   leaf: {"low", "new"}, level: 0 .. Height + 1, at: Nat]

Idle == [pc |-> "idle", value |-> 0, low |-> Genesis, index |-> 0,
         leaf |-> "low", level |-> 0, at |-> 0]

\* A call of insert_nullifier_complete that has not begun
Call == [pc: {"ready", "found", "done"}, value: Values \cup {0}, low: Row]
Ready == [pc |-> "ready", value |-> 0, low |-> Genesis]

Init ==
  /\ rows = {Genesis}
  /\ nodes = [p \in Positions |-> Zero]
  /\ root = Zero
  /\ nextIndex = 1
  /\ ins = Idle
  /\ oldRoot = Zero /\ hash = Zero /\ disturbed = FALSE
  /\ late = {} /\ lateTakes = 0 /\ lateWrites = {}
  /\ calls = [c \in Callers |-> Ready]
  /\ fix = 0 /\ raced = FALSE
  /\ faults = 0

-----------------------------------------------------------------------------
(***************************************************************************)
(* The linked list                                                         *)
(***************************************************************************)

\* ORDER BY value DESC LIMIT 1
Highest(R) == CHOOSE r \in R : \A s \in R : s.value <= r.value

Candidates(v) == {r \in rows : r.value < v /\ (r.next > v \/ r.next = 0)}

\* Mutant: ORDER BY value ASC.
FindLowest(v) ==
  LET C == Candidates(v)
  IN  IF C = {} THEN Highest(rows) ELSE CHOOSE r \in C : \A s \in C : s.value >= r.value

\* find_low_nullifier, the SQL function
LowNullifierRow(v) == Highest(IF Candidates(v) = {} THEN rows ELSE Candidates(v))

\* find_low_nullifier of NullifierDb: an empty table has a virtual low
\* nullifier, which looks like the genesis row.
FindLow(v) == IF rows = {} THEN Genesis ELSE LowNullifierRow(v)

\* is_empty_tree: the virtual low nullifier, but the genesis row as well.
IsEmptyTree(low) == low.value = 0 /\ low.index = 0

\* The two range checks; nullifiers are positive.
InRange(v, low) ==
  /\ low.value < v
  /\ low.next = 0 \/ v < low.next

LowAfter(t) == [t.low EXCEPT !.next = t.value, !.nextIndex = t.index]

NewRow(t) ==
  [value |-> t.value, index |-> t.index,
   next |-> IF IsEmptyTree(t.low) THEN 0 ELSE t.low.next,
   nextIndex |-> IF IsEmptyTree(t.low) THEN 0 ELSE t.low.nextIndex]

\* UPDATE nullifiers SET next_index, next_value WHERE value = low.value
UpdateLow(t) ==
  IF IsEmptyTree(t.low) THEN rows
  ELSE {IF r.value = t.low.value
          THEN [r EXCEPT !.next = t.value, !.nextIndex = t.index] ELSE r : r \in rows}

-----------------------------------------------------------------------------
(***************************************************************************)
(* The hash tree                                                           *)
(***************************************************************************)

LeafHash(r) == <<r.value, r.nextIndex, r.next>>

HashInternalNode(left, right) == <<left, right>>

\* The table merkle_nodes: get_node, and upsert_node
NodeHash(level, i) == nodes[<<level, i>>]
UpsertNode(level, i, h) == nodes' = [nodes EXCEPT ![<<level, i>>] = h]

Sibling(i) == IF i % 2 = 1 THEN i - 1 ELSE i + 1

Parent(h, i, sibling) ==
  IF i % 2 = 1 THEN HashInternalNode(sibling, h) ELSE HashInternalNode(h, sibling)

\* current_index on the way from a leaf to the root: half of it at each level
IndexAt(i) ==
  LET index[l \in 0 .. Height] == IF l = 0 THEN i ELSE index[l - 1] \div 2
  IN  index

\* generate_merkle_proof finds a leaf; migration 012 stores the genesis leaf.
HasLeaf(i) == i = 0 \/ NodeHash(0, i) # Zero

\* verify_merkle_proof of the proof generated for leaf i
HashOfPath(i) ==
  LET up[l \in 0 .. Height] ==
        IF l = 0 THEN NodeHash(0, i)
        ELSE LET j == IndexAt(i)[l - 1]
             IN  Parent(up[l - 1], j, NodeHash(l - 1, Sibling(j)))
  IN  up[Height]

Verifies(i) == HasLeaf(i) /\ HashOfPath(i) = root

\* The leaves whose proofs generate_insertion_proof puts into its result
ProvenLeaves(t) == {t.low.index, t.index}

\* verify_insertion_proof
VerifyInsertionProof(t) ==
  /\ \A i \in ProvenLeaves(t) : Verifies(i)
  /\ LowAfter(t).nextIndex = t.index

\* verify_state_transition: the root has changed, and the value is not 0.
VerifyStateTransition(t) ==
  /\ VerifyInsertionProof(t)
  /\ oldRoot # root
  /\ t.value # 0

-----------------------------------------------------------------------------
(***************************************************************************)
(* The steps of an insertion                                               *)
(***************************************************************************)

End == ins' = Idle /\ oldRoot' = Zero /\ hash' = Zero /\ disturbed' = FALSE

\* IndexedMerkleTreeADS::insert returns NullifierExists for a member.
Begin(v) ==
  /\ ins.pc = "idle" /\ fix = 0
  /\ v \notin Members
  /\ ins' = [Idle EXCEPT !.pc = "find", !.value = v]
  /\ oldRoot' = root
  /\ UNCHANGED <<rows, nodes, root, nextIndex, hash, disturbed, stale, calls, fix, raced, faults>>

FindLowNullifier ==
  /\ ins.pc = "find"
  /\ InRange(ins.value, FindLow(ins.value))
  /\ ins' = [ins EXCEPT !.pc = "index", !.low = FindLow(ins.value)]
  /\ UNCHANGED <<rows, nodes, root, nextIndex, oldRoot, hash, disturbed, stale, calls, fix, raced,
                 faults>>

\* The value has got into the list meanwhile, and the range checks refuse it.
OutOfRange ==
  /\ ins.pc = "find"
  /\ ~InRange(ins.value, FindLow(ins.value))
  /\ End
  /\ UNCHANGED <<rows, nodes, root, nextIndex, stale, calls, fix, raced, faults>>

\* get_next_tree_index, the SQL function
TakeIndex == nextIndex' = nextIndex + 1

GetNextIndex ==
  /\ ins.pc = "index"
  /\ TakeIndex
  /\ ins' = [ins EXCEPT !.pc = "insert", !.index = nextIndex]
  /\ UNCHANGED <<rows, nodes, root, oldRoot, hash, disturbed, stale, calls, fix, raced, faults>>

\* The transaction of insert_with_update waits for a late one that has
\* inserted the same value or index or updated the same low nullifier.
Waits(t, index) ==
  \E u \in late :
    \/ u.value = t.value \/ u.index = index
    \/ u.low.value = t.low.value /\ ~IsEmptyTree(t.low)

\* value and tree_index are UNIQUE.
Fits(t, index) == t.value \notin Members /\ \A r \in rows : r.index # index

InsertRow ==
  /\ ins.pc = "insert"
  /\ ~Waits(ins, ins.index) /\ Fits(ins, ins.index)
  /\ rows' = UpdateLow(ins) \cup {NewRow(ins)}
  /\ ins' = [ins EXCEPT !.pc = "climb", !.leaf = "low", !.level = 0, !.at = ins.low.index]
  /\ UNCHANGED <<nodes, root, nextIndex, oldRoot, hash, disturbed, stale, calls, fix, raced, faults>>

\* Another one was first, and the insertion fails.
InsertConflicts ==
  /\ ins.pc = "insert"
  /\ ~Waits(ins, ins.index) /\ ~Fits(ins, ins.index)
  /\ End
  /\ UNCHANGED <<rows, nodes, root, nextIndex, stale, calls, fix, raced, faults>>

\* Mutant: the leaf of the low nullifier is written as it was before.
LeafBefore == IF ins.leaf = "low" THEN LeafHash(ins.low) ELSE LeafHash(NewRow(ins))

LeafToWrite == IF ins.leaf = "low" THEN LeafHash(LowAfter(ins)) ELSE LeafHash(NewRow(ins))

UpsertLeaf ==
  /\ ins.pc = "climb" /\ ins.level = 0
  /\ UpsertNode(0, ins.at, LeafToWrite)
  /\ hash' = LeafToWrite
  /\ ins' = [ins EXCEPT !.level = 1]
  /\ UNCHANGED <<rows, root, nextIndex, oldRoot, disturbed, stale, calls, fix, raced, faults>>

ParentToWrite == Parent(hash, ins.at, NodeHash(ins.level - 1, Sibling(ins.at)))

\* One level of update_leaf: the sibling is read and the parent written.  (A
\* late write between the two does what it would do before or after them.)
UpsertParent ==
  /\ ins.pc = "climb" /\ ins.level \in 1 .. Height
  /\ UpsertNode(ins.level, ins.at \div 2, ParentToWrite)
  /\ hash' = ParentToWrite
  /\ ins' = [ins EXCEPT !.level = @ + 1, !.at = @ \div 2]
  /\ UNCHANGED <<rows, root, nextIndex, oldRoot, disturbed, stale, calls, fix, raced, faults>>

\* update_root of TreeStateDb
SetRoot(h) == root' = h

\* Mutant: the second climb starts from the first leaf again.
UpdateRootSameLeaf ==
  /\ ins.pc = "climb" /\ ins.level = Height + 1
  /\ SetRoot(hash)
  /\ ins' = IF ins.leaf = "low"
              THEN [ins EXCEPT !.leaf = "new", !.level = 0, !.at = ins.low.index]
              ELSE [ins EXCEPT !.pc = "prove"]
  /\ UNCHANGED <<rows, nodes, nextIndex, oldRoot, hash, disturbed, stale, calls, fix, raced, faults>>

UpdateRoot ==
  /\ ins.pc = "climb" /\ ins.level = Height + 1
  /\ SetRoot(hash)
  /\ ins' = IF ins.leaf = "low"
              THEN [ins EXCEPT !.leaf = "new", !.level = 0, !.at = ins.index]
              ELSE [ins EXCEPT !.pc = "prove"]
  /\ UNCHANGED <<rows, nodes, nextIndex, oldRoot, hash, disturbed, stale, calls, fix, raced, faults>>

\* The proofs of both leaves are read, and the transition is returned.
Return ==
  /\ ins.pc = "prove"
  /\ End
  /\ UNCHANGED <<rows, nodes, root, nextIndex, stale, calls, fix, raced, faults>>

(***************************************************************************)
(* insert_nullifier_atomic                                                 *)
(***************************************************************************)

\* The low nullifier is read, the value is not there; the next statement
\* waits for the row of tree_state.
AtomicBegin(c, v) ==
  /\ calls[c].pc = "ready"
  /\ v \notin Members
  /\ calls' = [calls EXCEPT ![c] = [pc |-> "found", value |-> v, low |-> FindLow(v)]]
  /\ UNCHANGED <<rows, nodes, root, nextIndex, locals, stale, fix, raced, faults>>

\* Mutant: the new row does not inherit the pointer of the low nullifier.
SplicedLast(t, index) ==
  {IF r.value = t.low.value THEN [r EXCEPT !.next = t.value, !.nextIndex = index] ELSE r :
     r \in rows}
  \cup {[value |-> t.value, next |-> t.value, nextIndex |-> index, index |-> index]}

\* The new row takes over the pointer that was read, and the low nullifier,
\* the genesis row too, points to it.
Spliced(t, index) ==
  {IF r.value = t.low.value THEN [r EXCEPT !.next = t.value, !.nextIndex = index] ELSE r :
     r \in rows}
  \cup {[value |-> t.value, next |-> t.low.next, nextIndex |-> t.low.nextIndex,
          index |-> index]}

(***************************************************************************)
(* From the lock of tree_state to the commit.  The exception handler of a  *)
(* duplicate rolls back the rows but not the index.  (The two statements   *)
(* that follow count the nullifier and run validate_nullifier_chain.)      *)
(***************************************************************************)
AtomicInsert(c) ==
  /\ calls[c].pc = "found"
  /\ ~Waits(calls[c], nextIndex)
  /\ rows' = IF Fits(calls[c], nextIndex) THEN Spliced(calls[c], nextIndex) ELSE rows
  /\ TakeIndex
  /\ calls' = [calls EXCEPT ![c].pc = "done"]
  /\ raced' = (raced \/ fix # 0)
  /\ UNCHANGED <<nodes, root, locals, stale, fix, faults>>

(***************************************************************************)
(* Faults                                                                  *)
(***************************************************************************)

\* A COMMIT that may be on its way.  Bound: one late transaction at a time.
InFlight ==
  IF ins.pc = "insert" /\ late = {} /\ Fits(ins, ins.index)
    THEN {[value |-> ins.value, low |-> ins.low, index |-> ins.index]} ELSE {}

\* The write of a climb that comes next; the root is level Height + 1.
NextWrite ==
  IF ins.level = 0 THEN [level |-> 0, at |-> ins.at, hash |-> LeafToWrite]
  ELSE IF ins.level <= Height
    THEN [level |-> ins.level, at |-> ins.at \div 2, hash |-> ParentToWrite]
    ELSE [level |-> ins.level, at |-> 0, hash |-> hash]

WriteInFlight == IF ins.pc = "climb" THEN {NextWrite} ELSE {}

Abandon ==
  /\ ins.pc # "idle"
  /\ faults < MaxFaults
  /\ faults' = faults + 1
  /\ End
  /\ late' \in {late, late \cup InFlight}
  /\ lateTakes' \in {lateTakes, IF ins.pc = "index" THEN lateTakes + 1 ELSE lateTakes}
  /\ lateWrites' \in {lateWrites, lateWrites \cup WriteInFlight}
  /\ UNCHANGED <<rows, nodes, root, nextIndex, calls, fix, raced>>

LateCommit ==
  \E t \in late :
    /\ rows' = UpdateLow(t) \cup {NewRow(t)}
    /\ late' = {}
    /\ UNCHANGED <<nodes, root, nextIndex, locals, lateTakes, lateWrites, calls, fix, raced, faults>>

LateTake ==
  /\ lateTakes > 0
  /\ lateTakes' = lateTakes - 1
  /\ TakeIndex
  /\ UNCHANGED <<rows, nodes, root, locals, late, lateWrites, calls, fix, raced, faults>>

LateWrite ==
  \E w \in lateWrites :
    /\ \/ w.level <= Height /\ UpsertNode(w.level, w.at, w.hash) /\ root' = root
       \/ w.level = Height + 1 /\ SetRoot(w.hash) /\ nodes' = nodes
    /\ lateWrites' = lateWrites \ {w}
    /\ disturbed' = (disturbed \/ ins.pc \in {"climb", "prove"})
    /\ UNCHANGED <<rows, nextIndex, ins, oldRoot, hash, late, lateTakes, calls, fix, raced, faults>>

(***************************************************************************)
(* IndexedMerkleTreeADS::new: recover_state, then the SQL function         *)
(* fix_tree_state_consistency, which reads the largest index in one        *)
(* statement and writes the counter in another (unless the two agree       *)
(* anyhow).  The service serves when both have run; callers that bypass    *)
(* its lock, and late statements, may come in between.                     *)
(***************************************************************************)

\* validate_nullifier_chain
ChainValid == \A r \in rows : r.next # 0 => r.next \in Members

\* recover_state refuses an index or a chain that is not valid.
RecoverState == nextIndex >= 0 /\ ChainValid

\* Mutant: next_available_index is set to the number of rows.
RestartCounting ==
  /\ ins.pc = "idle" /\ fix = 0
  /\ RecoverState
  /\ fix' = Cardinality(rows)
  /\ raced' = (late # {})
  /\ UNCHANGED <<rows, nodes, root, nextIndex, locals, stale, calls, faults>>

Restart ==
  /\ ins.pc = "idle" /\ fix = 0
  /\ RecoverState
  /\ \E r \in rows :
       /\ \A s \in rows : s.index <= r.index
       /\ fix' = r.index + 1
  /\ raced' = (late # {})
  /\ UNCHANGED <<rows, nodes, root, nextIndex, locals, stale, calls, faults>>

FixTreeState ==
  /\ fix # 0
  /\ nextIndex' = fix
  /\ fix' = 0
  /\ UNCHANGED <<rows, nodes, root, locals, stale, calls, raced, faults>>

-----------------------------------------------------------------------------

Insert ==
  \/ \E v \in Values : Begin(v)
  \/ FindLowNullifier
  \/ OutOfRange
  \/ GetNextIndex
  \/ InsertRow
  \/ InsertConflicts
  \/ UpsertLeaf
  \/ UpsertParent
  \/ UpdateRoot
  \/ Return

InsertComplete(c) == (\E v \in Values : AtomicBegin(c, v)) \/ AtomicInsert(c)

Next ==
  \/ Insert
  \/ \E c \in Callers : InsertComplete(c)
  \/ Abandon \/ LateCommit \/ LateTake \/ LateWrite
  \/ Restart \/ FixTreeState

Spec == Init /\ [][Next]_vars

-----------------------------------------------------------------------------
(***************************************************************************)
(* Properties                                                              *)
(***************************************************************************)

\* The variables keep their types.
TypeOK ==
  /\ rows \subseteq Row
  /\ DOMAIN nodes = Positions
  /\ nextIndex \in Nat
  /\ ins \in Insertion /\ disturbed \in BOOLEAN
  /\ late \subseteq [value: Values, low: Row, index: Nat]
  /\ lateTakes \in Nat
  /\ \A w \in lateWrites : w.level \in 0 .. Height + 1 /\ w.at \in Nat
  /\ calls \in [Callers -> Call]
  /\ fix \in Nat /\ raced \in BOOLEAN
  /\ faults \in 0 .. MaxFaults

\* Whatever is abandoned, commits late or bypasses the lock, every pointer of
\* the list leads upwards to a row that exists: recover_state never refuses
\* to start the service, and no CHECK of the table is violated.
ChainLeadsUp ==
  \A r \in rows : r.next # 0 => r.next \in Members /\ r.value < r.next

\* find_low_nullifier returns the predecessor of a value that is not a
\* member, and the value passes the range checks: only a value that has got
\* into the list meanwhile is ever refused.
LowIsPredecessor ==
  \A v \in Values \ Members :
    /\ InRange(v, FindLow(v))
    /\ \A m \in Members : m < v => m <= FindLow(v).value

\* Two nullifiers never have one tree index, and the counter is beyond every
\* index in use, so that the service is never given a used one, although a
\* restart resets it, abandoned insertions leave gaps and others bypass the
\* lock: unless a restart has missed an index that committed beside it.
IndexesAreUnique ==
  /\ \A r, s \in rows : r.index = s.index => r = s
  /\ \A r \in rows, t \in late : t.index # r.index
  /\ (fix = 0 /\ ~raced) =>
       /\ \A r \in rows \cup late : r.index < nextIndex
       /\ ins.pc = "insert" => \A r \in rows \cup late : ins.index # r.index

\* The transition that insert returns passes verify_state_transition: both
\* proofs lead to the new root, which is not the old one, also when earlier
\* insertions stopped half-way up the tree and their last writes ran late, but
\* for a late write that runs while this insertion climbs or reads its proofs.
TransitionVerifies ==
  (ins.pc = "prove" /\ ~disturbed) => VerifyStateTransition(ins)

\* As long as no insertion is abandoned and none bypasses the hash tree,
\* prove_membership gives every member a proof that leads to the root, and
\* from a leaf that holds the member's pointers as they are now.
MembersHaveProofs ==
  (faults = 0 /\ ins.pc = "idle" /\ \A c \in Callers : calls[c].pc # "done") =>
    \A r \in rows \ {Genesis} : Verifies(r.index) /\ nodes[<<0, r.index>>] = LeafHash(r)

\* prove_non_membership returns a proof, marked valid, for this value.
ProvesAbsence(v) == InRange(v, FindLow(v)) /\ HasLeaf(FindLow(v).index)

\* verify_nullifier_absence "verifies nullifier absence": it has no proof of
\* absence for a nullifier that is in the tree.
NoMemberIsProvedAbsent ==
  ins.pc = "idle" => \A v \in Members \ {0} : ~ProvesAbsence(v)

=============================================================================
