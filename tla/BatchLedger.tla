---------------------------- MODULE BatchLedger ----------------------------
(***************************************************************************)
(* What batching promises, without requests, locks or statements: a queue  *)
(* of transactions and a counter.  Batches take transactions out of the    *)
(* queue one set at a time, and each batch continues the counter where the *)
(* batch before it stopped ("continuous counter with batched transaction   *)
(* processing").  The exception is a batch made in a crowd, by a call that *)
(* overlaps another one: the counter it continues may be out of date, and  *)
(* a batch with a later id may be there already.                           *)
(***************************************************************************)
EXTENDS Integers

CONSTANTS
  TxIds,
  Total(_)   \* the sum of the amounts of a set of transactions

VARIABLES
  pending,   \* submitted and not batched
  taken,     \* batched
  counter,   \* final counter of the latest batch
  past,      \* every counter so far
  crowded    \* calls overlap; the environment's choice

vars == <<pending, taken, counter, past, crowded>>

Init ==
  /\ pending = {}
  /\ taken = {}
  /\ counter = 0
  /\ past = {0}
  /\ crowded = FALSE

Submit(t) ==
  /\ t \notin pending \cup taken
  /\ pending' = pending \cup {t}
  /\ UNCHANGED <<taken, counter, past, crowded>>

TakeBatch(S) ==
  /\ S # {}
  /\ S \subseteq pending
  /\ pending' = pending \ S
  /\ taken' = taken \cup S
  /\ \E from \in (IF crowded THEN past ELSE {counter}) :
       /\ past' = past \cup {from + Total(S)}
       /\ counter' = from + Total(S) \/ (crowded /\ counter' = counter)
  /\ crowded' \in BOOLEAN

Crowd ==
  /\ crowded' \in BOOLEAN
  /\ UNCHANGED <<pending, taken, counter, past>>

Next ==
  \/ \E t \in TxIds : Submit(t)
  \/ \E S \in SUBSET TxIds : TakeBatch(S)
  \/ Crowd

Spec == Init /\ [][Next]_vars

=============================================================================
