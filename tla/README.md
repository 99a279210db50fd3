# A verification of demo-vapp in TLA+

demo-vapp batches additive transactions, keeps an authenticated tree of their
nullifiers, has a zero-knowledge proof made for every batch and posts it to a
contract on Ethereum. This directory holds TLA+ modules of the parts that
decide whether that is right, TLC configurations that check them on small
instances, and TLAPS proofs for every instance. Paths are relative to the
root of the repository.

Check a module with `tlc -config <cfg> MC<Module>` and prove one with
`tlapm <Module>_proofs.tla`. `PROJECT.json` lists the runs, the theorems, the
lines each definition models, the hazards, and for every checked property one
plausible mistake in the code that breaks it (the mutants are operators in the
modules, each marked `Mutant:` and used by no definition).

## 1. The system

| Component | State | Operations |
|---|---|---|
| Batch creation (`api/src/unified_batch_service.rs`, migrations 009-011) | tables `incoming_transactions`, `proof_batches`, `ads_state_commits` | `create_batch_with_ads`, called by `POST /api/v2/batches` and by the background batch processor |
| Proof and posting lifecycle (`api/src/batch_processor.rs`, `api/src/rest.rs`, `db/src/db.rs`) | `sindri_proof_id`, `proof_status`, `posted_to_contract` of a batch; spawned tasks | submit missing proofs, check pending ones, post proven ones; `PUT .../proof`; reads of the current state |
| Indexed Merkle tree (`db/src/merkle_tree.rs`, migration 012) | tables `nullifiers`, `merkle_nodes`, `tree_state`; a read-write lock | insert, `insert_nullifier_complete`, proofs, restart |
| ADS service and vApp integration (`db/src/ads_service.rs`, `db/src/vapp_integration.rs`, `api/src/graphql.rs`) | the tree; `audit_events`; a cache of commitments and a map of audit trails per service | insert, batch insert, prove presence and absence, commitment, settlement, audit trail |
| 32-level tree (`db/src/merkle_tree_32.rs`) | `merkle_nodes`, `tree_state` | `update_leaf`, `batch_update`, proofs |
| Contract (`contracts/src/Arithmetic.sol`) | owner, posters, states, histories, proofs and four indexes over them | `updateState`, `batchUpdateStates`, tracked reads, views, administration |
| Ethereum client and event manager (`ethereum-client/src/client.rs`, `event_manager.rs`, `cache.rs`) | last processed block, subscriptions, broadcast channel | calls of the contract, event monitor |
| API (`api/src/rest.rs`, `server.rs`, `middleware.rs`) | token buckets | endpoints, request time-outs, start of the processors |
| Nullifier background processor (`db/src/background_processor.rs`) | last processed id | polls transactions into the tree |
| Arithmetic program and library (`lib`, `program`, `script`) | none | a fold of wrapping 32-bit additions; proving and verifying through Sindri or locally |
| CLI, API client, bridge and service programs | none | one call per command |

**How they interact.** A request stores a transaction in
`incoming_transactions`. Batch creation, run by requests and by one
background task that share nothing but PostgreSQL and the ADS lock, claims
rows with the database function `create_batch`, then inserts nullifiers into
the ADS and stores the resulting root in `ads_state_commits`. The monitor of
the batch processor and the task a request spawns call Sindri for a proof and
write the answer to the row of the batch; the monitor posts proven batches
with `update_state` of the Ethereum client and marks them. The client also
follows the contract's logs and hands them to subscribers. The vApp
integration wraps the ADS service in workflows with compliance checks and
settlement; the GraphQL resolvers are the only code that puts it beside
another ADS service on one database.

**What is hard.** Statements of several connections interleave under READ
COMMITTED. Several steps that a comment calls atomic commit one by one, so a
failure, a crash or `TimeoutLayer` (which drops a request at any `await`)
leaves the first of them behind. Spawned tasks outlive the cycle that started
them and write what they learnt earlier. Calls of the prover and the chain
can succeed although their answer is lost. The contract, the trees and the
caches keep redundant copies of the same facts that every path has to keep
equal. The counter has 64 bits in the database and 32 in the proof.

**What makes each part correct**

- Batch creation: a transaction is in one batch and stays there; a batch
  continues the counter of an earlier one; its root covers its nullifiers;
  every transaction is batched in the end.
- Lifecycle: a row tells the truth about its proof; verdicts are final; only
  finished proofs, each once, under its own batch and with its counters, reach
  the contract; what is posted is marked and the other way round; the roots
  that clients read belong to the counters beside them.
- Indexed tree: the list stays ascending and complete, indexes are never
  shared, a returned transition verifies, members have proofs of membership
  and no proofs of absence.
- ADS service: every insertion is audited once, batches are not interleaved,
  what is settled contains the insertion, a root has one commitment.
- 32-level tree: the root is the hash tree over the leaves; waiting updates
  end.
- Contract: the indexes, histories, views and counts agree with the proofs;
  records are never lost.
- Event monitor: every event is dispatched once and in order to whoever has
  subscribed to it, and only events older than the channel are missed.

`PROJECT.json` lists the hazards at their lines, with the properties that
would catch each one.

## 2. Modules and code

### BatchCreation, BatchLedger

A **worker** is a request or a slot of `Bg`; `req[w]` holds its program counter
and local variables. A server process has one background processor, but
PostgreSQL may still run `create_batch` for the processor of a process that
died: the calls of dead processes keep their slots until they commit or abort,
and the processor of the process that is up takes a free one
(`ProcessorTakes`). `ReadPending` is the first query of
`create_batch_with_ads`; `ReadCounter`, `OpenSelect`, `VisitRow` (one row of
`ORDER BY id LIMIT n FOR UPDATE SKIP LOCKED`, with the recheck of the latest
row version), `InsertBatch` and `CommitBatch` are `create_batch` (migration
010) statement by statement; `LockAds`, `InsertNullifier`, `NullifierExists`,
`UnlockAds` are `batch_insert` under the write lock; `StoreCommit` is
`store_ads_state_commit`. `AbortBatch`, `AdsFails`, `StoreFails` are errors,
`Timeout` and `Crash` cut a worker off: a statement already in PostgreSQL then
goes on without its caller (`attached`). The transaction `db_tx` of
`create_batch_with_ads` executes no statement (all others use other
connections), so it has no state.

`BatchLedger` is the abstract specification: a queue and a counter, and one
step that takes some transactions out of the queue and adds their amounts. The
mapping takes `pending` to the unbatched rows, `counter` to the counter of the
latest batch, `past` to the counters of all batches, and `taken` to the batched
rows. A batch continues the current counter unless calls overlap (`crowded`,
which the mapping takes to `Crowded`: some call between its reading of the
counter and its commit was there together with another); in a crowd it
continues one of the past counters, and may get a smaller id than the latest
batch. This is all that the code promises, since nothing keeps two calls of
`create_batch` apart.

### ProofLifecycle

`row` is a batch's row, `jobs` the prover's jobs, `task` the spawned tasks in
flight, `monitor` the phase of the monitor and the rows its query returned,
`contract` what the contract has accepted, `commits` the roots stored for
batches. `StartJob`, `ProverAnswers`, `SubmissionFails`, `StoreProof` are
`submit_proof_fast` and `generate_proof_for_batch`; `CheckStatus` is
`check_and_update_proof_status`; `BeginSubmit`, `BeginCheck`, `BeginPost`,
`SpawnSubmission`, `SpawnCheck`, `PostBatch`, `PostReverted`, `PostRejected`,
`PostFails`, `MarkPosted` the three phases of the monitor. `PostRejected` is a
transaction that is never sent, because the estimate of its gas reverts;
`PostReverted` one that is mined and reverts there: `update_state` takes any
receipt for success, so the batch is marked although the contract is unchanged
(`reverted` observes it). `LateUpdate` mines a transaction whose sender has
given up (`sent`). The three forms of "no proof id"
(NULL, the empty string and `error_<batch>`) are one value: no query tells them
apart. The prover and the chain are external and modelled from how the code
uses them: a job ends as Ready or Failed, and the verifier accepts the proofs
of Ready jobs. `AsI32` and `ProcessTransactions` are the cast and the wrapping
sum of the release build (a debug build would panic at an overflow instead).
`SubmissionData`, `CurrentState`, `CurrentStateResponse` and
`VerifySindriProof` are what clients read. `get_current_state` reads the counter
in one statement and the newest proven batch in another: `seen` is the set of
batches that the first one saw, any subset of those there are at the second.
`SubmissionData` likewise allows for a root that is stored between its
statements. `CacheReady` says whether the
database has the tables of `EthereumCache`, which only another program creates.

### IndexedMerkleTree

`rows` is the table of nullifiers, `nodes` the table of tree nodes, `ins` the
one insertion that holds the write lock. `FindLowNullifier`, `GetNextIndex`,
`InsertRow`, `UpsertLeaf`, `UpsertParent`, `UpdateRoot`, `Return` are the steps
of `insert_nullifier`; each commits on its own, and only the two changes of
`insert_with_update` share a transaction. `Abandon` ends an insertion anywhere.
The statement that was on its way then has run, never will, or runs later,
beside the next insertion or restart: `LateCommit` is the COMMIT of
`insert_with_update`, `LateTake` a `get_next_tree_index`, `LateWrite` the write
of a node or of the root. `Restart` is `recover_state` and the first statement
of `fix_tree_state_consistency`, which reads the largest index; `FixTreeState`
is its UPDATE. Callers that bypass the lock and late statements come in
between, and the service serves again after the second. (A restart that fails
between the two changes nothing, and one process at a time starts. The
comparison in the function only saves a write of the same index.) `disturbed`
observes that a late write ran while an insertion climbed, `raced` that a
restart has not seen every index. `calls` are the callers of
`insert_nullifier_complete`, which uses the SQL function
`insert_nullifier_atomic` without the lock of the service (`AtomicBegin`,
`AtomicInsert`). A hash is the tuple of what was hashed.

### AdsService

`call[c]` is a call in flight with its step and local variables; `tree` and
`audit` are the database, `cache` and `trail` the memory of the two services
that the GraphQL resolvers put on one database. `HasLock`, `MayRead` and
`MayWrite` are the lock of the vApp integration's service, which an insertion
gives back between its steps and a batch keeps. `InsertRow`, `InsertFails` are
the insertion that `IndexedMerkleTree` has in detail; `CacheCommitment`,
`StoreEvent`, `PushEvent` what follows it; `ReadRoot` and `GetCommitment` are
`get_state_commitment`, for the queries and for the settlement, and
`SubmitCommitment`, `AuditOperation` the rest of `insert_nullifier_workflow`;
`ReadTrail` and `KeepTrail` are `get_audit_trail`, `Restart` and `RebuiltCache`
the start of the service. `CallEnds` is an error or a dropped call at any of
these awaits, also at the lock of the trails when the event is in the database
already; the INSERT of the event that it had sent, the row of an insertion and
its root may come later (`LateEvent`, `LateRow`, `LateRoot`). `unaudited`,
`unpushed` and `strays` observe what such calls leave behind. `GetCommitment`
looks into the cache, reads the counter and puts the commitment into the cache
in one step: the counter only changes at a restart, so that whatever comes
into the cache in between is the same commitment. `api/src/lib.rs:43-45` leaves the resolvers out of
the build at present; they are modelled as the code that composes the services.

### MerkleTree32

`tx[w]` is the transaction of a writer: the rows it has written (`own`, also
the rows it locks), the inner nodes still to recompute and the pair of
children it has read. `PutLeaf`, `ReadChildren`, `PutParent`, `PutRoot`,
`Commit` are the statements of `batch_update`, with `update_leaf` as a batch
of one; `Fail` rolls back; `DeadlockVictim` is PostgreSQL's deadlock
detector. `last` and `overlapped` only observe. The initial state is what
migration 012 leaves and `initialize` therefore does not change.

### ArithmeticContract

One action per external function that changes storage; a call that reverts is
no step, since the EVM undoes it. `storage` is one record, so that a batch is
a fold of the same single update over it, `ProofAlreadyExists` and proofs the
verifier rejects included. The tracked reads accept any identifier: a state or
proof id of zero counts for the sender and in no total, as in
`_trackReadEvent`. `storedProofs`, `storedResults` and
`verifiedProofs` are part of the metadata that is written after them in the
same transaction. The views are operators, and the properties are stated with
them. Time, the counts by day, gas and the verification key are left out.

### EventMonitor

`chain` is external: blocks with the logs of some calls, whose top may be
replaced. `monitor` is the loop of `start_event_monitoring`: `Poll` chooses the
range, `Fetch` gets its logs, `Broadcast` sends one event to the channel and
`Notify` then calls its callbacks under their read lock, `EndPoll` moves
`last_processed_block`; `FetchError` leaves it. Subscriptions come and go
between the two: `Told` counts the events whose callbacks were called.
`Registration` is what the event manager registers for each kind of
subscription, `Matches` is `event_matches_filter`. `manager` is a reader of the
broadcast channel: `Lag` is `RecvError::Lagged`. `Connect` refuses a
verification key that differs from the contract's; `Stop` loses everything in
memory.

## 3. Runs

| Run | Instance | Shows |
|---|---|---|
| `batch_concurrent` | a request, the processor and a call of a dead process, 2 transactions, 1 fault, fair | ownership, claims, origins of counters and roots survive all interleavings, batching implements `BatchLedger`, and every submitted transaction is batched |
| `batch_root` | two overlapping calls, no fault | **violation**: a batch is left without a root |
| `proof_safe` | 2 batches, 2 tasks at a time, 2 jobs, 1 fault or 1 proof set by hand, words of two bits | rows, contract, marks and the roots clients read stay truthful |
| `proof_fair` | 1 batch, 5 jobs, 1 fault, fair | a verdict comes and stays; without faults a proven batch is posted |
| `proof_recover` | 1 batch, no fault, no cache tables, fair | **violation**: a proven batch is never marked as posted |
| `tree_safe` | 3 nullifiers, 16 leaves, 2 callers beside the service, 1 abandoned insertion with its late statement, restarts | list, indexes, transitions, proofs of membership |
| `tree_absence` | 2 nullifiers, no fault | **violation**: a member is proved absent |
| `ads_service` | 3 nullifiers, 2 calls at a time and 3 in all, 1 fault, a cache of 1 | audit, trails, batches, settlement |
| `ads_count` | 1 caller, 3 calls, no fault | **violation**: a commitment does not count the nullifiers |
| `contract` | 2 accounts, 2 states (one of them zero) and roots, 3 proofs, batches of 2, no call once 3 events are counted | indexes, histories, views and counts agree |
| `tree32` | 2 writers, 4 leaves, batches of 2, 2 transactions, 1 fault, fair | the root after serial updates, what overlapping updates keep, no endless wait |
| `event_monitor` | 3 blocks, queries of 2, a channel of 2 events, 1 subscriber or manager, 1 fault, 1 replaced block, fair | dispatch is the chain, subscribers get theirs, readers catch up |

**Why the bounds are enough to be interesting.** Two transactions and two
workers let one call claim rows between another's snapshot and its visit of
them, skip locked rows and come back with fewer rows than it read. A request of
one transaction leaves the other for a second batch, and the second slot of
`Bg` holds the call of a process that died, so that the restarted processor
and a request may overlap with it. Amounts are powers of two, so that different
sets have different sums. One fault is enough for any one error or crash;
time-outs of requests are not counted, and the proofs have no bound on either. Two slots let a
stale answer and a second submission of the same batch overlap, and two jobs
let them differ; five or six jobs in the runs about liveness are more than
their fault can use up. Words of two bits let the second batch overflow. After
the one fault, or a proof set by hand, `proof_safe` follows one task at a
time; the proofs of its properties have no such bound. Three nullifiers give an
insertion below, between and above others; two callers of the SQL function can
read the same low nullifier before the service changes it; sixteen leaves hold
the gaps that faults leave. The one abandoned insertion is enough for one late
statement of each kind, which meets a later insertion or a restart; at most one
late COMMIT is followed at a time, in the proofs too. One compliant nullifier, one that is not and is in
a batch only, and one that both insert make batches that fail in the middle.
Three proofs with batches of two let a batch repeat a proof, mix accepted and
rejected ones and follow a single update. Two transactions with batches of two
suffice for two updates that wait for each other in both orders; with more,
updates only chain. Three blocks with queries of two need two queries, and a
block with three events overflows the channel. `tree32`, `ads_service` and
`event_monitor` end when their bounds are used up, so they do not look for
deadlocks; `EveryUpdateEnds` and `CatchesUp` say what matters there.

Symmetry is used where nothing tells values apart and no liveness is checked:
slots in `proof_safe`, callers in `tree_safe`, states and roots in `contract`.

**Fairness.** `BatchCreation`: PostgreSQL finishes the statements it is given
(weak fairness of `CreateBatch`); tokio polls tasks that are ready and its
RwLock is a fair queue, so a worker that can have the ADS lock again and again
gets it (strong fairness of `AdsSteps`); the timer of the processor never
stops, in whichever process is up.
`ProofLifecycle`: tasks and the monitor go on, calls of the prover and of the
node return (their clients time out), and the prover finishes its jobs.
`MerkleTree32`: statements that need not wait end, and PostgreSQL looks for
deadlocks. `EventMonitor`: the loop's timer fires, the node answers, and tokio
wakes the reader of the channel. Nowhere must a client call, and nowhere must a
fault happen.

## 4. Proofs

Every invariant, every action property and the refinement that a passing run
checks is a theorem for all values of the constants; `PROJECT.json` names the
theorem and the property. Each `*_proofs` module strengthens the properties to
an invariant that every step keeps, treats in one lemma the steps that leave it
alone (`QuietStep`, `PathFrame`, `TasksEnd`, ...), and proves the others action
by action. The constants are constrained only by the `ASSUME` of each module:
their types; that sets a count or a loop runs over are finite (`Values` of the
ADS service, accounts and states of the contract, ids of transactions); that
the value standing for "none" is not one of the values; and, for the event
monitor, that blocks hold well-formed calls and subscriptions have one of the
kinds the event manager offers.

Data is recursive in these models (hash trees, folds, sums), and induction is
not available to the provers. `FiniteSums` replaces it by the least number of
a set: the least counterexample of a statement about levels, positions or
sizes is one above a number for which the statement holds. The same argument
shows that a recursively defined function exists (`IteratesExist`,
`RecursionExists`), which is why `TwoTo` and `IndexAt` halve and double step by
step, as the code does, instead of using powers.

`BatchCreation_proofs` proves, for all finite sets of transactions, all
amounts, any set of requests, all sizes and any number of faults:
`TypeCorrect`, `NoDoubleBatching` (`LinksMatchBatches`), `ExclusiveClaims`,
`BatchOrigins`, `ClaimsLast`, `RootsEndWithOwnNullifiers` and
`BatchesImplementLedger`, for any number of overlapping calls. The inductive invariant `IInv` adds to
the properties what they rest on: locks are held only between the claiming
SELECT and the commit (`LocksWhileInSql`), only visible rows are scanned
(`ScansAreVisible`), the ids of batches, committed or about to be, are distinct
and below the sequence (`IdsAreFresh`, without which a new batch could inherit
the links of an old one), and the counter a call has read belongs to an older
batch (`ReadCounterHasAnOrigin`). `RootInv` follows the tree: under the write
lock of the ADS the tree ends with what the worker has inserted, and a root
taken away keeps that end while others append. The refinement adds `CrowdInv`:
while no call that overlapped another is unfinished, at most one call is
between its reading of the counter and its commit, and what it has read is
still the counter.

`IndexedMerkleTree_proofs` proves, for all nullifiers, heights, callers and
numbers of faults: `TypeCorrect`, `ChainAlwaysLeadsUp`, `LowAlwaysPrecedes`,
`IndexesNeverShared`, `TransitionsVerify` and `MembersAreProvable`. The key to
the list is `ReadsStillHold`: the low nullifier an insertion has read may be
stale, because a late commit or a caller of the SQL function can change it, but
the row it names and the row that one pointed to still exist and still enclose
the new value, so that linking through them keeps the chain ascending.
`LateIsNew` says that a late commit keeps others from its value (they wait for
its row), and `CounterMovesOn` that the value a restart is about to write to the
counter is beyond every index, unless the restart was raced. The
theorems about hashes suppose that the tree has room for every index
(`[]HasRoom`; nothing in the code checks 2^32, and the run's bounds imply it).
They rest on `TreeInvariance`, of four parts. `RoomInv`: every index that a row,
an insertion or a late commit has is one of a leaf. `PathInv`: below a
climb that no late write has disturbed the path is consistent, and the second
climb spoils the path of the first only at the node it writes next
(`Pending`). `UnseenInv`: no hash, stored or on its way in a late write, shows
a leaf that no row has got, not even after insertions that stopped half-way,
so a root that shows the new leaf differs from the old root. `CleanInv`:
without faults and without calls of the SQL function every leaf holds its row
and every path is consistent, except on the way of the climb that is about to
repair it. A late write that runs during a climb may replace a node the climb
has passed; `TransitionsVerify` says nothing of that insertion, and holds again
for the next one.

`AdsService_proofs` proves the five properties of `ads_service` for all
nullifiers, lists, callers, limits of batch and cache, and faults. `IInv` says
what each kind of call may be doing (`PhasesFit`) and what the lock of the vApp
integration protects (`LockIsExclusive`, `TransitionsAreCurrent`: nobody moves
the root under it but a late statement); that the event of an insertion is made
once and in the order of the insertions (`InsertionsAreOnce`,
`InsertionsAreOnTheirWay`) and stays in the hands of one call until it is in
the trail or the call has ended (`EventsAreInHand`); that trails, and those
loaded and about to be kept, hold stored events of their own value, each once
(`TrailsAreTrue`, `LoadedAreTrails`); and that the commitment a call is about
to submit covers its insertion (`SettlementsFit`).

`ArithmeticContract_proofs` proves the four properties of `contract` for all
accounts, states, roots, proofs and lengths of batches. `Sound` is an invariant
of the storage record: the enumeration of proofs and its inverse agree
(`Enumerated`), stored metadata is that of an accepted proof with this hash
(`Genuine`), proofs are filed under their state in the order of the enumeration
(`FiledUnder`), histories and proofs of a state pair up (`Paired`), and the
counts add up (`Counted`, with sums over the accounts and states; the calls of
the accounts are at least the counted events, and more by the reads of a zero
id). A single
update keeps `Sound` and loses no record (`Keeps`); a batch is a fold of single
updates, so the least update after which either fails would follow one after
which both hold.

`MerkleTree32_proofs` proves the three invariants of `tree32` for all heights,
sets of writers, batches and faults. `TreeInv` describes a transaction: which
rows it has written and that it recomputes level by level. `RootsInv` says that
what a transaction has written is a tree of its own (`OwnTree`), so that the
root it stores leads down to its updates even when others commit meanwhile.
`SerialInv` says that without overlap the committed nodes, seen through the
open transaction, are consistent but for the nodes still to be recomputed
(`Whole`); the root is then the hash tree over the leaves, by the least level
at which it would not be.

`EventMonitor_proofs` proves the four invariants of `event_monitor` for all
chains, sizes of queries and of the channel, subscriptions and faults.
`TypeInv` includes that every log is one its event decodes from. `ManagerInv`
(`Accounted`) is that a reader has handled everything between its start and its
position except what the channel had dropped; `SubInv` (`Served`) that a
subscriber's list is the places of its events among those that callbacks were
called for, with `RegistrationIsRight`:
the filter of each kind of subscription matches exactly the events it is for.
`DispatchInv` (`Covers`) is that what was dispatched, followed by what is in the
queue, lies in the order of the blocks between the start of the process and the
end of the last range fetched, and holds the events of each of these blocks
complete and in their order, except for blocks that were replaced; `PlaceInv`
is where the loop stands, and `CoversJoin` and `RangeIsCovered` put ranges
together.

`ProofLifecycle_proofs` proves, for any number of batches, tasks, jobs and
disturbances, any amounts and any width of a word, each property that
`proof_safe` checks: `TypeCorrect`, `RowsAreTrue` (`RowsTellTheTruth`),
`PostedRootsProven` (`PostedRootsAreProven`), `RootsMatch`
(`RootsBelongTogether`), `VerdictsLast` (`VerdictsAreFinal`) and, where the
tables of the cache exist, `MarksTrackContract` (`PostedTracksContract`). A
row is overwritten by tasks that asked the prover earlier, so `IInv` says of
every task and query result in flight what the properties say of rows: its id
is a job for its own batch (`IdsAreOwn`) and the status it is about to store is
true of that job (`VerdictsHold`). `ProofsAreFresh`, that the proof of an
unfinished submission is known to no row and no other task, is why a late
"pending" never replaces a verdict. `MarksAreRight` follows the batch between
the transaction, mined for good or reverted, and its mark. `TasksEnd`, `TaskBegins` and `TaskLearns` treat
the steps that concern one task only; `TruncateFirst` and
`TruncationIsCongruent` are the arithmetic of words; `RootsInv` adds that roots
and counters belong to the batches they are stored for.

**Only model-checked:** liveness (`EventuallyBatched`, `EventuallySettled`,
`ProvenIsPosted`, `EveryUpdateEnds`, `CatchesUp`), which is out of the prover's
reach, and the four violations. Of `PostedTracksContract` and the two theorems
with `HasRoom` the hypotheses above are part of the statement.

## 5. Where code and documents disagree

Four runs show a counterexample to what the repository says of itself.

1. `batch_root`: the transaction that is to make batch and root atomic
   executes no statement; a batch whose nullifiers were inserted by another
   worker already stays without a root (`api/src/unified_batch_service.rs:91`,
   against lines 90 and 161).
2. `proof_recover`: `update_state` stores the update in a cache whose tables
   nobody creates for the API server, and reports the failure of that statement
   as a failure of the transaction; the batch is posted again in every cycle
   and rejected as known (`ethereum-client/src/client.rs:309`, against
   `README.md:391`). A lost receipt, or a stop of the server before the mark,
   does the same to one batch.
3. `tree_absence`: the row of the genesis nullifier is never updated, and a
   next value of 0 means "no upper bound", so `prove_non_membership` returns a
   valid proof of absence for a member (`db/src/ads_service.rs:812`).
4. `ads_count`: no insertion through the ADS counts in `total_nullifiers`, so
   the count in a commitment, which is its settlement nonce too, stays what it
   was at the last start (`db/src/ads_service.rs:1077`, against
   `db/src/ads_service_tests.rs:204` and `683`, which expect the number of
   nullifiers inserted).

More were met while modelling and have no run of their own.

- `create_batch` reads the counter without a lock, so two overlapping calls
  start from the same value and the later batch loses the amounts of the other
  (migration 010:22), while migration 011:17-18 says "This ensures proper state
  continuity even when proofs are still pending". A restarted server is enough:
  its processor may overlap the last call of the process before.
  `EveryBatchHasAnOrigin` and `BatchLedger`, with its crowds, state what holds.
- `update_state` does not look at the status of the receipt
  (`ethereum-client/src/client.rs:284-312`): a transaction that is mined and
  reverts counts as success, and its batch is marked as posted for good
  (`PostedTracksContract` allows for it by `reverted`).
- `get_current_state` reads the counter and the newest proven batch in two
  statements (`db/src/db.rs:365`, `368-379`): the root may be that of a newer
  batch than the counter.
- Overlapping updates of the 32-level tree lose each other's leaves (the
  statements are READ COMMITTED; `overlapped` marks where `SerialRootIsRight`
  stops, and `RootHoldsLastUpdate` is what remains). `generate_proof` reads the
  siblings one statement after the other (`db/src/merkle_tree_32.rs:340-356`):
  a proof made while an update commits may mix two trees and not verify; the
  module checks the proofs made between commits. The initial root after
  migration 012 is 32 zero bytes and not the hash of an empty tree that
  `db/src/merkle_tree_32_tests.rs:35` expects.
- `fix_tree_state_consistency` reads the largest index and writes the counter
  in separate statements (migration 012:325-339): an index that
  `insert_nullifier_atomic` or a late COMMIT uses in between is handed out
  again, and the insertion that gets it fails (`IndexesAreUnique`, `raced`).
- The write of a node or of the root that a dropped request has sent may run
  while the next insertion climbs: the transition that this one returns may not
  verify (`TransitionVerifies`, `disturbed`), and a late root takes insertions
  out of the current root (`strays` in `AdsService`).
- `insert_nullifier_complete` counts a nullifier twice, in the SQL function and
  in `increment_nullifier_count` (`db/src/merkle_tree.rs:580-603`).
- A tracked read with a zero id raises `eventCountBySubmitter` and no total
  (`contracts/src/Arithmetic.sol:803-811`), so the counts by sender may add up
  to more than the totals.
- A call that ends between the event in the database and its push, at the lock
  of the trails (`db/src/ads_service.rs:522-525`), leaves an event that no
  trail in memory shows as long as the process runs (`unpushed`).
- An audit trail that was loaded from the database once, or begun after a
  restart, stays in memory and never shows what it lacks (`TrailsAreComplete`).
- `GET /api/v2/state/current` fails if the newest proven batch has no root, and
  the endpoint with the contract data says "not found or not proven" but
  answers for batches that are not proven.
- A batch of the contract skips a proof that the verifier rejects but is undone
  as a whole by one that is known already, while
  `contracts/src/interfaces/IStateManager.sol:121` says that the entire batch
  reverts if any proof fails.

## 6. Not modelled

- The pool of 20 connections: each call of `create_batch_with_ads` holds one
  while it needs a second. Every statement of `BatchCreation` is assumed to get
  its connection; a model of the pool needs as many calls as connections.
- Nullifier background processor: its tables `processor_state` and
  `arithmetic_transactions` are dropped by migration 009, so `start` fails at
  the first query. Bridge: reads `sindri_proofs` and `arithmetic_transactions`,
  dropped by the same migration.
- Middleware: not compiled in, and installed by no program of the repository.
- Ethereum cache: independent statements over tables that nothing else reads,
  except for the one in `ProofLifecycle`.
- ADS metrics, storage sizes, constraint counts, `deactivate` (only tests call
  it); ZK proofs that the vApp integration makes in passing.
- Cryptography: hashes are injective, and the SP1 verifier and Sindri are
  external.
- Formatting, plain listings, health checks, CLI, GraphQL types, calls of the
  client that only pass a view of the contract on, build files.

## 7. Plan

Done, in the order of importance: batch creation with its refinement and
proofs; the lifecycle with the width of its counter; the indexed tree with
its second inserter and its proofs; the ADS service and the vApp workflows; the
contract; the 32-level tree; the event monitor; proofs of all safety
properties that the runs check.

1. Proofs: what `batch_concurrent` and `proof_safe` have in common, as a refinement
   of one abstract chain of batches.
2. The pool of connections, beside `BatchCreation`.
3. A composition of batch creation and lifecycle, to relate what the contract
   holds to the counter.
