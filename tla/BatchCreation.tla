--------------------------- MODULE BatchCreation ---------------------------
(***************************************************************************)
(* How queued transactions become batches.                                 *)
(*                                                                         *)
(* Workers run UnifiedBatchService::create_batch_with_ads: any number of   *)
(* API requests (POST /api/v2/batches), each once, and the loop of the     *)
(* background batch processor, one per server process.  A worker reads the *)
(* pending transactions, has PostgreSQL run the function create_batch,     *)
(* inserts the nullifiers of the transactions IT READ into the             *)
(* authenticated data structure (ADS) under the ADS write lock, and after  *)
(* releasing the lock stores the root for the batch.  A statement outlives *)
(* the process that sent it, so a restarted background processor may call  *)
(* create_batch beside the call of the process that died.                  *)
(*                                                                         *)
(* create_batch is one implicit READ COMMITTED transaction: each statement *)
(* sees what was committed when that statement began, and row locks are    *)
(* held to the end.  The transaction that create_batch_with_ads opens on   *)
(* another connection (db_tx) executes no statement: rolling it back       *)
(* undoes nothing, so it has no state here.                                *)
(*                                                                         *)
(* Abstractions: a transaction is its id, its amount is a constant, its    *)
(* nullifier is identified with it (a deterministic hash of its row); a    *)
(* root of the ADS is identified by the number of nullifiers below it.     *)
(***************************************************************************)
EXTENDS Integers, FiniteSets, Sequences, Functions

CONSTANTS
  TxIds,         \* ids the sequence of incoming_transactions hands out
  Amount,        \* the amount of each transaction
  Requests,      \* API requests that create a batch
  Bg,            \* bound: processes whose background processor is at work,
                 \* or whose last call of create_batch still is
  RequestSizes,  \* values of the field batch_size an API request may carry
  MaxBatchSize,  \* configuration max_batch_size
  PendingLimit,  \* 1000 in the code: rows get_pending_transactions reads
  MaxFaults      \* bound: statements that fail and crashes of the server

\* Ids are 32-bit integers; sums of amounts are taken as BIGINT.
ASSUME BatchCreationAssumption ==
  /\ TxIds \subseteq Nat \ {0}
  /\ IsFiniteSet(TxIds)
  /\ Amount \in [TxIds -> Int]
  /\ Bg \cap Requests = {}
  /\ RequestSizes \subseteq Int
  /\ MaxBatchSize \in Nat \ {0}
  /\ PendingLimit \in Nat \ {0}
  /\ MaxFaults \in Nat

VARIABLES
  inserted,   \* ids of the committed rows of incoming_transactions
  link,       \* column included_in_batch_id, 0 for NULL
  batches,    \* committed rows of proof_batches
  batchSeq,   \* next value of the sequence proof_batches_id_seq
  commits,    \* rows of ads_state_commits
  tree,       \* nullifiers in the ADS, in insertion order
  req,        \* what each worker is doing, and its local variables
  faults      \* faults so far

vars == <<inserted, link, batches, batchSeq, commits, tree, req, faults>>

-----------------------------------------------------------------------------

Workers == Requests \cup Bg

(***************************************************************************)
(* Phases of a worker.  In SqlPhases its statement runs in PostgreSQL; in  *)
(* AppPhases the next step is taken by the server process.                 *)
(***************************************************************************)
SqlPhases == {"counter", "select", "claim", "commit"}
AppPhases == {"await", "nullify", "store"}
Phases == {"idle", "done"} \cup SqlPhases \cup AppPhases

Batch == [id: Nat, prev: Int, final: Int, ids: SUBSET TxIds]

(***************************************************************************)
(* Commit rows keep, as history, the transactions whose nullifiers the     *)
(* worker had inserted when it took the root.                              *)
(***************************************************************************)
StateCommit == [batch: Nat, root: Nat, read: SUBSET TxIds]

Worker ==
  [pc: Phases,
   attached: BOOLEAN,       \* the server still waits for the SQL statement
   mine: SUBSET TxIds,      \* batch_transactions: what the worker read
   prev: Int,               \* previous_counter
   scan: SUBSET TxIds,      \* rows of the claiming SELECT not visited yet
   claimed: SUBSET TxIds,   \* rows locked so far
   id: Nat,                 \* new_batch_id, 0 before the INSERT
   todo: SUBSET TxIds,      \* nullifiers still to insert
   root: Nat,               \* root taken after the last insertion
   overlapped: BOOLEAN]     \* history: another call was between reading the
                            \* counter and its commit at the same time

\* Mutant: new_batch_id starts at -1.
FreshMinusOne ==
  [pc |-> "idle", attached |-> TRUE, mine |-> {}, prev |-> 0, scan |-> {},
   claimed |-> {}, id |-> -1, todo |-> {}, root |-> 0, overlapped |-> FALSE]

Fresh == [pc |-> "idle", attached |-> TRUE, mine |-> {}, prev |-> 0, scan |-> {},
          claimed |-> {}, id |-> 0, todo |-> {}, root |-> 0, overlapped |-> FALSE]

\* SUM(amount)
Total(S) == SumFunctionOnSet(Amount, S)

\* The n smallest elements of S: ORDER BY id LIMIT n
Oldest(n, S) == {t \in S : Cardinality({u \in S : u < t}) < n}

IsOldest(t, S) == t \in S /\ \A u \in S : t <= u

Unbatched == {t \in inserted : link[t] = 0}

\* get_pending_transactions
PendingTransactions == Oldest(PendingLimit, Unbatched)

Locked == UNION {req[w].claimed : w \in Workers}

\* Mutant: ORDER BY id ASC.
OldestCounter ==
  IF batches = {} THEN 0
  ELSE (CHOOSE b \in batches : \A c \in batches : b.id <= c.id).final

\* get_current_counter_value, migration 011: the latest batch of any status
IsLatest(b) == b \in batches /\ \A c \in batches : c.id <= b.id
CurrentCounter == IF batches = {} THEN 0 ELSE (CHOOSE b \in batches : IsLatest(b)).final

\* create_batch_endpoint clamps the requested size to [1, max_batch_size]
Clamp(s) == IF s < 1 THEN 1 ELSE IF s > MaxBatchSize THEN MaxBatchSize ELSE s

\* An absent batch_size means max_batch_size; the background processor asks
\* for everything, which the service limits to max_batch_size as well.
Sizes(w) == {MaxBatchSize} \cup (IF w \in Bg THEN {} ELSE {Clamp(s) : s \in RequestSizes})

\* Mutant: a failed call leaves its transaction open, with its row locks.
ReturnedOpen(w) ==
  [Fresh EXCEPT !.pc = IF w \in Bg THEN "idle" ELSE "done", !.claimed = req[w].claimed]

\* The worker returns, with any result: a request is over, the loop goes on.
Returned(w) == [Fresh EXCEPT !.pc = IF w \in Bg THEN "idle" ELSE "done"]

Return(w) == req' = [req EXCEPT ![w] = Returned(w)]

Fault == faults < MaxFaults /\ faults' = faults + 1

-----------------------------------------------------------------------------

Init ==
  /\ inserted = {}
  /\ link = [t \in TxIds |-> 0]
  /\ batches = {}
  /\ batchSeq = 1
  /\ commits = {}
  /\ tree = <<>>
  /\ req = [w \in Workers |-> Fresh]
  /\ faults = 0

(***************************************************************************)
(* POST /api/v2/transactions.  The sequence hands out ids before the       *)
(* INSERTs commit, so ids may become visible in any order.                 *)
(***************************************************************************)
Submit(t) ==
  /\ t \notin inserted
  /\ inserted' = inserted \cup {t}
  /\ UNCHANGED <<link, batches, batchSeq, commits, tree, req, faults>>

\* The process that runs now has one background processor; what else the
\* slots of Bg hold are calls that PostgreSQL runs for dead processes.  Its
\* next call takes a free slot, no matter which.
ProcessorTakes(w) ==
  /\ \A b \in Bg : req[b].pc = "idle" \/ ~req[b].attached
  /\ w = CHOOSE b \in Bg : req[b].pc = "idle"

(***************************************************************************)
(* Steps 1 to 3: read the pending transactions and cut the list to the     *)
(* batch size.                                                             *)
(***************************************************************************)
ReadPending(w) ==
  /\ req[w].pc = "idle"
  /\ w \in Bg => ProcessorTakes(w)
  /\ Unbatched # {}
  /\ \E n \in Sizes(w) :
       req' = [req EXCEPT ![w].pc = "counter",
                          ![w].mine = Oldest(n, PendingTransactions)]
  /\ UNCHANGED <<inserted, link, batches, batchSeq, commits, tree, faults>>

NothingPending(r) ==
  /\ req[r].pc = "idle"
  /\ Unbatched = {}
  /\ Return(r)
  /\ UNCHANGED <<inserted, link, batches, batchSeq, commits, tree, faults>>

-----------------------------------------------------------------------------
(***************************************************************************)
(* create_batch, statement by statement.                                   *)
(***************************************************************************)

\* Between reading the counter and the commit.
Reading(w) == req[w].pc \in {"select", "claim", "commit"}

\* Worker w reads counter c; calls that overlap are noted as such.
Reads(w, c) ==
  [v \in Workers |->
     IF v = w
     THEN [req[w] EXCEPT !.pc = "select", !.prev = c,
                         !.overlapped = \E u \in Workers : Reading(u)]
     ELSE [req[v] EXCEPT !.overlapped = @ \/ Reading(v)]]

\* Mutant: the counter includes what unfinished calls have claimed.
ReadDirtyCounter(w) ==
  /\ req[w].pc = "counter"
  /\ req' = Reads(w, CurrentCounter + Total(Locked))
  /\ UNCHANGED <<inserted, link, batches, batchSeq, commits, tree, faults>>

ReadCounter(w) ==
  /\ req[w].pc = "counter"
  /\ req' = Reads(w, CurrentCounter)
  /\ UNCHANGED <<inserted, link, batches, batchSeq, commits, tree, faults>>

\* The claiming SELECT begins: its snapshot.
OpenSelect(w) ==
  /\ req[w].pc = "select"
  /\ req' = [req EXCEPT ![w].pc = "claim", ![w].scan = Unbatched]
  /\ UNCHANGED <<inserted, link, batches, batchSeq, commits, tree, faults>>

SelectComplete(w) ==
  \/ req[w].scan = {}
  \/ Cardinality(req[w].claimed) >= Cardinality(req[w].mine)

\* Mutant: the latest version of a row is not checked again.
VisitStaleRow(w, t) ==
  /\ req[w].pc = "claim"
  /\ ~SelectComplete(w)
  /\ IsOldest(t, req[w].scan)
  /\ req' = [req EXCEPT ![w].scan = @ \ {t},
                        ![w].claimed = IF t \in Locked THEN @ ELSE @ \cup {t}]
  /\ UNCHANGED <<inserted, link, batches, batchSeq, commits, tree, faults>>

(***************************************************************************)
(* One row of ORDER BY id LIMIT n FOR UPDATE SKIP LOCKED: a row locked by  *)
(* another transaction is skipped, and so is one that is no longer         *)
(* unbatched in its latest committed version.                              *)
(***************************************************************************)
VisitRow(w, t) ==
  /\ req[w].pc = "claim"
  /\ ~SelectComplete(w)
  /\ IsOldest(t, req[w].scan)
  /\ LET free == t \notin Locked /\ link[t] = 0
     IN  req' = [req EXCEPT ![w].scan = @ \ {t},
                            ![w].claimed = IF free THEN @ \cup {t} ELSE @]
  /\ UNCHANGED <<inserted, link, batches, batchSeq, commits, tree, faults>>

\* No row claimed: RETURN 0, and create_batch_with_ads returns Ok(None).
NothingClaimed(w) ==
  /\ req[w].pc = "claim"
  /\ SelectComplete(w)
  /\ req[w].claimed = {}
  /\ Return(w)
  /\ UNCHANGED <<inserted, link, batches, batchSeq, commits, tree, faults>>

\* INSERT INTO proof_batches takes its id; the row is not visible yet.
InsertBatch(w) ==
  /\ req[w].pc = "claim"
  /\ SelectComplete(w)
  /\ req[w].claimed # {}
  /\ req' = [req EXCEPT ![w].pc = "commit", ![w].id = batchSeq]
  /\ batchSeq' = batchSeq + 1
  /\ UNCHANGED <<inserted, link, batches, commits, tree, faults>>

\* The row of proof_batches a call of create_batch inserts.
NewBatch(me) == [id |-> me.id, prev |-> me.prev,
                 final |-> me.prev + Total(me.claimed), ids |-> me.claimed]

(***************************************************************************)
(* UPDATE incoming_transactions and the commit of the implicit             *)
(* transaction: batch and links become visible, the row locks go.          *)
(***************************************************************************)
CommitBatch(w) ==
  LET me == req[w]
  IN  /\ me.pc = "commit"
      /\ batches' = batches \cup {NewBatch(me)}
      /\ link' = [t \in TxIds |-> IF t \in me.claimed THEN me.id ELSE link[t]]
      /\ req' = [req EXCEPT ![w] =
                   IF me.attached
                   THEN [Fresh EXCEPT !.pc = "await", !.mine = me.mine, !.id = me.id]
                   ELSE Returned(w)]
      /\ UNCHANGED <<inserted, batchSeq, commits, tree, faults>>

\* A statement of create_batch fails: everything but the sequence rolls back.
AbortBatch(w) ==
  /\ req[w].pc \in SqlPhases
  /\ Return(w)
  /\ Fault
  /\ UNCHANGED <<inserted, link, batches, batchSeq, commits, tree>>

-----------------------------------------------------------------------------
(***************************************************************************)
(* The ADS phase.  The write lock on the ADS is held in phase "nullify".   *)
(***************************************************************************)

\* Mutant: no write lock on the ADS.
LockAdsShared(w) ==
  /\ req[w].pc = "await"
  /\ req' = [req EXCEPT ![w].pc = "nullify", ![w].todo = req[w].mine]
  /\ UNCHANGED <<inserted, link, batches, batchSeq, commits, tree, faults>>

LockAds(w) ==
  /\ req[w].pc = "await"
  /\ \A v \in Workers : req[v].pc # "nullify"
  /\ req' = [req EXCEPT ![w].pc = "nullify", ![w].todo = req[w].mine]
  /\ UNCHANGED <<inserted, link, batches, batchSeq, commits, tree, faults>>

\* batch_insert inserts one nullifier after the other.
InsertNullifier(w, t) ==
  /\ req[w].pc = "nullify"
  /\ IsOldest(t, req[w].todo)
  /\ t \notin Range(tree)
  /\ tree' = Append(tree, t)
  /\ req' = [req EXCEPT ![w].todo = @ \ {t}]
  /\ UNCHANGED <<inserted, link, batches, batchSeq, commits, faults>>

\* NullifierExists: the worker gives up; earlier insertions and the batch stay.
NullifierExists(w, t) ==
  /\ req[w].pc = "nullify"
  /\ IsOldest(t, req[w].todo)
  /\ t \in Range(tree)
  /\ Return(w)
  /\ UNCHANGED <<inserted, link, batches, batchSeq, commits, tree, faults>>

\* Any other error in the ADS, before the nullifier is persistent.  (An error
\* after it, in the audit trail, is InsertNullifier and then this step.)
AdsFails(w) ==
  /\ req[w].pc = "nullify"
  /\ Return(w)
  /\ Fault
  /\ UNCHANGED <<inserted, link, batches, batchSeq, commits, tree>>

\* The root of the last transition is taken and the lock released.
UnlockAds(w) ==
  /\ req[w].pc = "nullify"
  /\ req[w].todo = {}
  /\ req' = [req EXCEPT ![w].pc = "store", ![w].root = Len(tree)]
  /\ UNCHANGED <<inserted, link, batches, batchSeq, commits, tree, faults>>

StoreCommit(w) ==
  /\ req[w].pc = "store"
  /\ commits' = commits \cup {[batch |-> req[w].id, root |-> req[w].root,
                               read |-> req[w].mine]}
  /\ Return(w)
  /\ UNCHANGED <<inserted, link, batches, batchSeq, tree, faults>>

\* store_ads_state_commit, or reading the new batch back, fails.
StoreFails(w) ==
  /\ req[w].pc \in {"await", "store"}
  /\ Return(w)
  /\ Fault
  /\ UNCHANGED <<inserted, link, batches, batchSeq, commits, tree>>

-----------------------------------------------------------------------------
(***************************************************************************)
(* TimeoutLayer drops the future of an API request at one of its awaits.   *)
(* A statement that PostgreSQL already runs goes on without it; one that   *)
(* has not been sent (phase "counter") may never be.                       *)
(***************************************************************************)
Timeout(r) ==
  /\ \/ /\ req[r].pc \in SqlPhases
        /\ req[r].attached
        /\ req' = [req EXCEPT ![r].attached = FALSE]
     \/ /\ req[r].pc \in AppPhases \cup {"counter"}
        /\ Return(r)
  /\ UNCHANGED <<inserted, link, batches, batchSeq, commits, tree, faults>>

(***************************************************************************)
(* The server process dies and restarts; PostgreSQL does not, and runs the *)
(* statements it was given to their end.  A call in phase "counter" has    *)
(* been sent or not.                                                       *)
(***************************************************************************)
Crash ==
  /\ Fault
  /\ \E unsent \in SUBSET {w \in Workers : req[w].pc = "counter"} :
       req' = [w \in Workers |->
                 IF req[w].pc \in AppPhases \/ w \in unsent THEN Returned(w)
                 ELSE IF req[w].pc \in SqlPhases THEN [req[w] EXCEPT !.attached = FALSE]
                 ELSE req[w]]
  /\ UNCHANGED <<inserted, link, batches, batchSeq, commits, tree>>

\* Nothing left to do in this instance: the service idles.
Drained ==
  /\ inserted = TxIds
  /\ Unbatched = {}
  /\ \A w \in Workers : req[w] = Returned(w)
  /\ UNCHANGED vars

-----------------------------------------------------------------------------

CreateBatch(w) ==
  \/ ReadCounter(w)
  \/ OpenSelect(w)
  \/ \E t \in TxIds : VisitRow(w, t)
  \/ NothingClaimed(w)
  \/ InsertBatch(w)
  \/ CommitBatch(w)

AdsSteps(w) ==
  \/ LockAds(w)
  \/ \E t \in TxIds : InsertNullifier(w, t) \/ NullifierExists(w, t)
  \/ UnlockAds(w)
  \/ StoreCommit(w)

Next ==
  \/ \E t \in TxIds : Submit(t)
  \/ \E w \in Workers : ReadPending(w) \/ CreateBatch(w) \/ AdsSteps(w)
  \/ \E w \in Workers : AbortBatch(w) \/ AdsFails(w) \/ StoreFails(w)
  \/ \E r \in Requests : NothingPending(r) \/ Timeout(r)
  \/ Crash
  \/ Drained

Spec == Init /\ [][Next]_vars

(***************************************************************************)
(* Fairness.  PostgreSQL finishes the statements it is given; the runtime  *)
(* polls every task that is ready, and the lock of the ADS (tokio's        *)
(* RwLock) is a fair queue; the timer of the background processor never    *)
(* stops, in whichever process is up.  Nothing obliges clients to send     *)
(* requests, nor faults to occur.                                          *)
(***************************************************************************)
Fairness ==
  /\ \A w \in Workers : WF_vars(CreateBatch(w))
  /\ \A w \in Workers : SF_vars(AdsSteps(w))
  /\ WF_vars(\E b \in Bg : ReadPending(b))

FairSpec == Spec /\ Fairness

-----------------------------------------------------------------------------
(***************************************************************************)
(* Properties                                                              *)
(***************************************************************************)

\* Every variable has its type.
TypeOK ==
  /\ inserted \subseteq TxIds
  /\ link \in [TxIds -> Nat]
  /\ batches \subseteq Batch
  /\ batchSeq \in Nat \ {0}
  /\ commits \subseteq StateCommit
  /\ tree \in Seq(TxIds)
  /\ req \in [Workers -> Worker]
  /\ faults \in 0..MaxFaults

(***************************************************************************)
(* The two records of who owns a transaction agree: the array              *)
(* transaction_ids of a batch holds exactly the rows whose                 *)
(* included_in_batch_id names it.  So no transaction is in two batches,    *)
(* whatever requests overlap (the promise of migration 010).               *)
(***************************************************************************)
LinksMatchBatches ==
  /\ \A b \in batches : b.ids = {t \in TxIds : link[t] = b.id}
  /\ \A t \in TxIds : link[t] # 0 => \E b \in batches : b.id = link[t]

(***************************************************************************)
(* Two requests in the middle of create_batch never hold the same row, and *)
(* hold only visible rows that are still unbatched.                        *)
(***************************************************************************)
ClaimsAreExclusive ==
  /\ \A w \in Workers : req[w].claimed \subseteq Unbatched
  /\ \A v, w \in Workers : v # w => req[v].claimed \cap req[w].claimed = {}

(***************************************************************************)
(* Every batch continues an earlier batch or the initial counter, however  *)
(* requests interleave: its previous counter is 0 or the final counter of  *)
(* a committed batch with a smaller id.  (Two overlapping calls read the   *)
(* same counter, so two batches may continue the same one, and the later   *)
(* of them drops the amounts of the other.)                                *)
(***************************************************************************)
EveryBatchHasAnOrigin ==
  \A b \in batches :
    \/ b.prev = 0
    \/ \E c \in batches : c.id < b.id /\ c.final = b.prev

(***************************************************************************)
(* The root stored for a batch was taken before any other worker could     *)
(* insert: the last nullifiers below it are exactly those its worker read, *)
(* in one piece.  This is what the ADS write lock around batch_insert and  *)
(* the reading of new_root is for.                                         *)
(***************************************************************************)
RootEndsWithOwnNullifiers ==
  \A c \in commits :
    LET n == Cardinality(c.read)
    IN  /\ n <= c.root /\ c.root <= Len(tree)
        /\ c.read = {tree[i] : i \in (c.root - n + 1)..c.root}

\* Once a transaction is in a batch it stays in that batch.
ClaimsAreForever == [][\A t \in TxIds : link[t] # 0 => link'[t] = link[t]]_link

(***************************************************************************)
(* Every submitted transaction is batched in the end: row locks, aborted   *)
(* statements, crashes and timeouts of other requests only delay it.       *)
(***************************************************************************)
EventuallyBatched == \A t \in TxIds : (t \in inserted) ~> (link[t] # 0)

\* Two calls of create_batch are, or were, between reading the counter and
\* the commit at the same time, and one of them still is.
Crowded == \E w \in Workers : Reading(w) /\ req[w].overlapped

(***************************************************************************)
(* Batching implements BatchLedger, crashes and failures included: a batch *)
(* whose call overlaps no other continues the current counter by the sum   *)
(* of its transactions, and one whose call does overlap others continues   *)
(* some counter that was current once, and becomes the latest or not.      *)
(***************************************************************************)
Ledger == INSTANCE BatchLedger WITH
            pending <- Unbatched,
            counter <- CurrentCounter,
            past    <- {0} \cup {b.final : b \in batches},
            crowded <- Crowded,
            taken   <- {t \in TxIds : link[t] # 0}

ImplementsLedger == Ledger!Spec

-----------------------------------------------------------------------------
(***************************************************************************)
(* What a comment in the code promises and concurrent requests break.      *)
(***************************************************************************)

\* When no request is under way, every batch has its root: batch and root are
\* stored atomically.
EveryBatchHasItsRoot ==
  (\A w \in Workers : req[w] = Returned(w) \/ req[w] = Fresh)
    => \A b \in batches : \E c \in commits : c.batch = b.id

=============================================================================
