--------------------------- MODULE ProofLifecycle ---------------------------
(***************************************************************************)
(* From a batch to its entry on the contract.                              *)
(*                                                                         *)
(* One monitor (run_batch_monitor_service) cycles through three phases:    *)
(* submit the batches without a proof id to the prover (Sindri), ask the   *)
(* prover about pending proofs, post proven batches to the contract.  The  *)
(* first two phases only spawn tasks, which outlive the cycle; the API     *)
(* handler that created a batch spawns a submission as well.  All of them  *)
(* write a row of proof_batches with the same unconditional UPDATE         *)
(* (update_batch_proof), from values obtained before a call to the prover. *)
(*                                                                         *)
(* Abstractions: a proof is identified with the prover's job; sindri_proof_id *)
(* NULL, '' and 'error_<batch>' are the one value Missing (no query tells  *)
(* them apart, and proof_status does).  The prover, the Ethereum node and  *)
(* the SP1 verifier are external: a job of the prover ends as Ready or     *)
(* Failed, and the verifier accepts exactly the proofs of Ready jobs.  A   *)
(* Merkle root is the batch it was stored for, or Foreign if a client has  *)
(* made it up; the root on the contract, a hash of the text                *)
(* "state_root_<final counter>", is that counter.                          *)
(***************************************************************************)
EXTENDS Integers, FiniteSets, Sequences

CONSTANTS
  Batches,      \* ids of batches
  Amounts,      \* the sum of the amounts of each batch
  Word,         \* 2^32 in the code: the values of an i32
  CacheReady,   \* whether the database has the tables of EthereumCache
  Slots,        \* bound: tasks in flight at a time
  SubmitLimit,  \* 5 in the code
  CheckLimit,   \* 10 in the code
  PostLimit,    \* 5 in the code
  MaxJobs,      \* bound: jobs the prover accepts; it refuses more
  MaxDisturbances, \* bound: failed calls, crashes, and proofs set by hand
  PutStatuses   \* bound: the statuses that are set by hand

ASSUME ProofLifecycleAssumption ==
  /\ Batches \subseteq Nat \ {0}
  /\ IsFiniteSet(Batches)
  /\ Amounts \in [Batches -> Int]
  /\ Word \in Nat \ {0} /\ Word % 2 = 0
  /\ CacheReady \in BOOLEAN
  /\ SubmitLimit \in Nat /\ CheckLimit \in Nat /\ PostLimit \in Nat
  /\ PutStatuses \subseteq {"pending", "proven", "failed"}
  /\ MaxJobs \in Nat /\ MaxDisturbances \in Nat

VARIABLES
  row,       \* proof_batches: counters, id, status and posted_to_contract
  commits,   \* ads_state_commits
  jobs,      \* the prover's jobs: for which batch, and their status
  task,      \* spawned tasks
  monitor,   \* phase of the monitor and the rows its query returned
  contract,  \* proofs stored by the contract, with the state id they update
  sent,      \* updates whose sender has given up, and which may still be mined
  reverted,  \* batches with an update that was mined and took no effect
  faults, puts

chain == <<contract, sent, reverted>>
vars == <<row, commits, jobs, task, monitor, chain, faults, puts>>

-----------------------------------------------------------------------------

Missing == 0

\* A Merkle root that is no batch's, the root of the genesis state, and none
Foreign == 0
ZeroRoot == -1
NoRoot == -2

Row == [status: {"absent", "pending", "proven", "failed"}, id: Nat, posted: BOOLEAN,
        prev: Int, final: Int, rootless: BOOLEAN]   \* its creator is still at work
Commit == [batch: Batches, root: Batches \cup {Foreign}]
Job == [batch: Batches, status: {"InProgress", "Ready", "Failed"},
        initial: Int, final: Int]
Entry == [batch: Batches, id: Nat]

Task == [kind: {"none", "submit", "check"},
         pc: {"call", "wait", "store"},
         batch: Batches \cup {0},
         id: Nat,
         status: {"pending", "proven", "failed"}]

NoTask == [kind |-> "none", pc |-> "call", batch |-> 0, id |-> Missing, status |-> "pending"]

SubmitTask(b) == [NoTask EXCEPT !.kind = "submit", !.batch = b]
CheckTask(b, id) == [NoTask EXCEPT !.kind = "check", !.batch = b, !.id = id]

\* "as i32", and the wrapping arithmetic of i32
AsI32(x) == ((x + Word \div 2) % Word) - Word \div 2

\* The program: process_transactions adds with wrapping_add.
ProcessTransactions(balance, b) == AsI32(balance + Amounts[b])

\* Mutant: every batch is proved from a balance of zero.
InitialBalanceZero(b) == 0

InitialBalance(b) == AsI32(row[b].prev)

Exists(b) == row[b].status # "absent"

\* Mutant: the prover's own word is stored.
StatusVerbatim(job) == job.status

\* Mutant: what has not failed is proven.
StatusOptimistic(job) == IF job.status = "Failed" THEN "failed" ELSE "proven"

\* "Ready" => "proven", "Failed" => "failed", _ => "pending"
StatusOf(job) ==
  CASE job.status = "Ready"  -> "proven"
    [] job.status = "Failed" -> "failed"
    [] OTHER                 -> "pending"

DisturbancesLeft == faults + puts < MaxDisturbances

Fault == DisturbancesLeft /\ faults' = faults + 1

Spawn(s, t) == task[s] = NoTask /\ task' = [task EXCEPT ![s] = t]
Finish(s) == task' = [task EXCEPT ![s] = NoTask]

(***************************************************************************)
(* The queries of the three phases: ORDER BY id LIMIT n.                   *)
(***************************************************************************)
FirstRows(n, S) == {b \in S : Cardinality({c \in S : c < b}) < n}

Rows(n, S) == {[batch |-> b, id |-> row[b].id] : b \in FirstRows(n, S)}

\* Mutant: sindri_proof_id IS NULL only.
NeverSubmitted == Rows(SubmitLimit,
  {b \in Batches : row[b].status = "pending" /\ row[b].id = Missing})

MissingProof == Rows(SubmitLimit,
  {b \in Batches : Exists(b) /\ row[b].id = Missing})

PendingProof == Rows(CheckLimit,
  {b \in Batches : row[b].status = "pending" /\ row[b].id # Missing})

\* sindri_proof_id IS NOT NULL holds of every row that was ever updated.
ProvenUnposted == Rows(PostLimit,
  {b \in Batches : row[b].status = "proven" /\ ~row[b].posted})

-----------------------------------------------------------------------------

Init ==
  /\ row = [b \in Batches |->
              [status |-> "absent", id |-> Missing, posted |-> FALSE, prev |-> 0, final |-> 0,
               rootless |-> FALSE]]
  /\ commits = {}
  /\ jobs = <<>>
  /\ task = [s \in Slots |-> NoTask]
  /\ monitor = [phase |-> "idle", todo |-> {}]
  /\ contract = {}
  /\ sent = {}
  /\ reverted = {}
  /\ faults = 0
  /\ puts = 0

(***************************************************************************)
(* create_batch commits a batch that continues an earlier one or the       *)
(* initial counter (BatchCreation!EveryBatchHasAnOrigin).                  *)
(***************************************************************************)
CreateBatch(b) ==
  /\ ~Exists(b)
  /\ \E prev \in {0} \cup {row[c].final : c \in {c \in Batches : Exists(c) /\ c < b}} :
       row' = [row EXCEPT ![b].status = "pending", ![b].prev = prev,
                          ![b].final = prev + Amounts[b], ![b].rootless = TRUE]
  /\ UNCHANGED <<commits, jobs, task, monitor, chain, faults, puts>>

\* generate_proof_for_batch gives up if the counters of the row, which nobody
\* changes, do not agree with the amounts.
SumsAgree(b) == ProcessTransactions(InitialBalance(b), b) = AsI32(row[b].final)

\* Its creator stores the root.  If that is a request to the API, it then
\* spawns generate_proof_for_batch.
StoreRoot(b) ==
  /\ row[b].rootless
  /\ row' = [row EXCEPT ![b].rootless = FALSE]
  /\ UNCHANGED <<jobs, monitor, chain, puts>>
  /\ \/ /\ commits' = commits \cup {[batch |-> b, root |-> b]}
        /\ \/ UNCHANGED task
           \/ SumsAgree(b) /\ \E s \in Slots : Spawn(s, SubmitTask(b))
        /\ UNCHANGED faults
     \/ Fault /\ UNCHANGED <<commits, task>>

(***************************************************************************)
(* PUT /api/v2/batches/:id/proof stores any id with any status, and one    *)
(* more root, which a client must give with "proven".                      *)
(***************************************************************************)
PutProof(b, id, status) ==
  /\ DisturbancesLeft /\ puts' = puts + 1
  /\ Exists(b)
  /\ row' = [row EXCEPT ![b].id = id, ![b].status = status]
  /\ \/ commits' = commits \cup {[batch |-> b, root |-> Foreign]}
     \/ status # "proven" /\ UNCHANGED commits
  /\ UNCHANGED <<jobs, task, monitor, chain, faults>>

-----------------------------------------------------------------------------
(***************************************************************************)
(* Tasks: submit_proof_fast and generate_proof_for_batch ("submit"), and   *)
(* check_and_update_proof_status ("check").                                *)
(***************************************************************************)

\* The prover accepts the request and starts a job, which runs the program.
StartJob(s) ==
  LET b == task[s].batch
  IN  /\ task[s].kind = "submit" /\ task[s].pc = "call"
      /\ Len(jobs) < MaxJobs
      /\ jobs' = Append(jobs,
           [batch |-> b, status |-> "InProgress", initial |-> InitialBalance(b),
            final |-> ProcessTransactions(InitialBalance(b), b)])
      /\ task' = [task EXCEPT ![s].pc = "wait", ![s].id = Len(jobs) + 1]
      /\ UNCHANGED <<row, commits, monitor, chain, faults, puts>>

\* The call of the prover returns with the job's status at that moment.
ProverAnswers(s) ==
  /\ task[s].kind = "submit" /\ task[s].pc = "wait"
  /\ task' = [task EXCEPT ![s].pc = "store", ![s].status = StatusOf(jobs[task[s].id])]
  /\ UNCHANGED <<row, commits, jobs, monitor, chain, faults, puts>>

\* The call of the prover fails: the row will get "error_<batch>" and "failed".
SubmissionFails(s) ==
  /\ task[s].kind = "submit" /\ task[s].pc \in {"call", "wait"}
  /\ task' = [task EXCEPT ![s].pc = "store", ![s].id = Missing, ![s].status = "failed"]
  /\ \/ Fault
     \/ task[s].pc = "call" /\ Len(jobs) = MaxJobs /\ UNCHANGED faults
  /\ UNCHANGED <<row, commits, jobs, monitor, chain, puts>>

\* Mutant: the status is written even if it has not changed.
CheckAndStore(s) ==
  /\ task[s].kind = "check" /\ task[s].pc = "call"
  /\ task' = [task EXCEPT ![s].pc = "store", ![s].status = StatusOf(jobs[task[s].id])]
  /\ UNCHANGED <<row, commits, jobs, monitor, chain, faults, puts>>

\* get_sindri_proof_info; nothing is written while the job is in progress.
CheckStatus(s) ==
  /\ task[s].kind = "check" /\ task[s].pc = "call"
  /\ LET status == StatusOf(jobs[task[s].id])
     IN  IF status = "pending"
         THEN Finish(s)
         ELSE task' = [task EXCEPT ![s].pc = "store", ![s].status = status]
  /\ UNCHANGED <<row, commits, jobs, monitor, chain, faults, puts>>

\* update_batch_proof: UPDATE ... WHERE id = $4, whatever the row holds now.
StoreProof(s) ==
  /\ task[s].kind # "none" /\ task[s].pc = "store"
  /\ row' = [row EXCEPT ![task[s].batch].id = task[s].id,
                        ![task[s].batch].status = task[s].status]
  /\ Finish(s)
  /\ UNCHANGED <<commits, jobs, monitor, chain, faults, puts>>

\* Reading the batch, asking the prover, or the UPDATE fails: an error is logged.
TaskFails(s) ==
  /\ task[s].kind # "none"
  /\ ~(task[s].kind = "submit" /\ task[s].pc = "wait")
  /\ Finish(s)
  /\ Fault
  /\ UNCHANGED <<row, commits, jobs, monitor, chain, puts>>

\* The prover finishes a job.
JobEnds(j) ==
  /\ jobs[j].status = "InProgress"
  /\ \E status \in {"Ready", "Failed"} : jobs' = [jobs EXCEPT ![j].status = status]
  /\ UNCHANGED <<row, commits, task, monitor, chain, faults, puts>>

-----------------------------------------------------------------------------
(***************************************************************************)
(* The monitor.  A phase begins with its query; a query that fails leaves  *)
(* the phase without rows.                                                 *)
(***************************************************************************)

Query(phase, result) ==
  /\ \/ monitor' = [phase |-> phase, todo |-> result] /\ UNCHANGED faults
     \/ monitor' = [phase |-> phase, todo |-> {}] /\ Fault
  /\ UNCHANGED <<row, commits, jobs, task, chain, puts>>

BeginSubmit == monitor.phase = "idle" /\ Query("submit", MissingProof)
BeginCheck == monitor.phase = "submit" /\ monitor.todo = {} /\ Query("check", PendingProof)

\* Without a configured, reachable Ethereum node the phase is skipped.
BeginPost == monitor.phase = "check" /\ monitor.todo = {} /\ Query("post", ProvenUnposted)

EndCycle ==
  /\ monitor.phase = "post" /\ monitor.todo = {}
  /\ monitor' = [phase |-> "idle", todo |-> {}]
  /\ UNCHANGED <<row, commits, jobs, task, chain, faults, puts>>

\* e is the row the loop of the phase handles next.
Current(e) == e \in monitor.todo /\ \A f \in monitor.todo : e.batch <= f.batch
Done(e) == monitor' = [monitor EXCEPT !.todo = @ \ {e}]

SpawnSubmission(e) ==
  /\ monitor.phase = "submit" /\ Current(e)
  /\ \E s \in Slots : Spawn(s, SubmitTask(e.batch))
  /\ Done(e)
  /\ UNCHANGED <<row, commits, jobs, chain, faults, puts>>

SpawnCheck(e) ==
  /\ monitor.phase = "check" /\ Current(e)
  /\ \E s \in Slots : Spawn(s, CheckTask(e.batch, e.id))
  /\ Done(e)
  /\ UNCHANGED <<row, commits, jobs, chain, faults, puts>>

OnContract(id) == \E c \in contract : c.proof = id

(***************************************************************************)
(* get_sindri_proof_data has the proof, updateState verifies it, and the   *)
(* contract has not stored this proof before: the estimate of the gas,     *)
(* with which sending begins, does not revert.                             *)
(***************************************************************************)
ContractAccepts(e) ==
  e.id # Missing /\ jobs[e.id].status = "Ready" /\ ~OnContract(e.id)

NewRoot(e) == [state |-> e.batch, proof |-> e.id, root |-> row[e.batch].final]

Update(e) == contract' = contract \cup {NewRoot(e)} /\ UNCHANGED <<sent, reverted>>

(***************************************************************************)
(* After the receipt store_state_update puts the update in the cache of    *)
(* the client.  Without its table, that statement fails: an error for the  *)
(* caller, and "continue".                                                 *)
(***************************************************************************)
Confirmed(e) ==
  IF CacheReady THEN monitor' = [monitor EXCEPT !.phase = "mark"] ELSE Done(e)

\* Mutant: the batch is not marked as posted.
PostWithoutMark(e) ==
  /\ monitor.phase = "post" /\ Current(e)
  /\ ContractAccepts(e)
  /\ Update(e)
  /\ Done(e)
  /\ UNCHANGED <<row, commits, jobs, task, faults, puts>>

\* update_state returns when the transaction is in a block.
PostBatch(e) ==
  /\ monitor.phase = "post" /\ Current(e)
  /\ ContractAccepts(e)
  /\ Update(e)
  /\ Confirmed(e)
  /\ UNCHANGED <<row, commits, jobs, task, faults, puts>>

(***************************************************************************)
(* The transaction is in a block, but has reverted there: it ran out of    *)
(* gas, or an earlier one has stored the proof since the estimate.  Nobody *)
(* looks at the status of the receipt.                                     *)
(***************************************************************************)
PostReverted(e) ==
  /\ monitor.phase = "post" /\ Current(e)
  /\ ContractAccepts(e)
  /\ Fault
  /\ reverted' = reverted \cup {e.batch}
  /\ Confirmed(e)
  /\ UNCHANGED <<row, commits, jobs, task, contract, sent, puts>>

\* Mutant: no "continue" after an error.
MarkAnyway(e) ==
  /\ monitor.phase = "post" /\ Current(e)
  /\ ~ContractAccepts(e)
  /\ monitor' = [monitor EXCEPT !.phase = "mark"]
  /\ UNCHANGED <<row, commits, jobs, task, chain, faults, puts>>

\* Nothing is sent: the proof is not available, or the estimate of the gas
\* reverts since the proof does not verify or exists already.  Continue.
PostRejected(e) ==
  /\ monitor.phase = "post" /\ Current(e)
  /\ ~ContractAccepts(e)
  /\ Done(e)
  /\ UNCHANGED <<row, commits, jobs, task, chain, faults, puts>>

\* The call fails, before the transaction is sent, when it has been mined, or
\* while it waits to be.
PostFails(e) ==
  /\ monitor.phase = "post" /\ Current(e)
  /\ \/ UNCHANGED chain
     \/ ContractAccepts(e) /\ Update(e)
     \/ /\ ContractAccepts(e)
        /\ sent' = sent \cup {NewRoot(e)}
        /\ UNCHANGED <<contract, reverted>>
  /\ Done(e)
  /\ Fault
  /\ UNCHANGED <<row, commits, jobs, task, puts>>

\* An update that its sender has given up is mined after all.
LateUpdate(c) ==
  /\ sent' = sent \ {c}
  /\ contract' = IF OnContract(c.proof) THEN contract ELSE contract \cup {c}
  /\ UNCHANGED <<row, commits, jobs, task, monitor, reverted, faults, puts>>

\* UPDATE ... WHERE id = $1 AND posted_to_contract = FALSE; it may fail.
MarkPosted(e) ==
  /\ monitor.phase = "mark" /\ Current(e)
  /\ \/ row' = [row EXCEPT ![e.batch].posted = TRUE] /\ UNCHANGED faults
     \/ UNCHANGED row /\ Fault
  /\ monitor' = [phase |-> "post", todo |-> monitor.todo \ {e}]
  /\ UNCHANGED <<commits, jobs, task, chain, puts>>

\* The server restarts: tasks, the creation of batches and the monitor's
\* position are lost.
Crash ==
  /\ Fault
  /\ task' = [s \in Slots |-> NoTask]
  /\ monitor' = [phase |-> "idle", todo |-> {}]
  /\ row' = [b \in Batches |-> [row[b] EXCEPT !.rootless = FALSE]]
  /\ UNCHANGED <<commits, jobs, chain, puts>>

-----------------------------------------------------------------------------
(***************************************************************************)
(* What clients read: get_contract_submission_data, get_current_state and   *)
(* the response of the endpoint of that name.                              *)
(***************************************************************************)

Roots(b) == {c.root : c \in {c \in commits : c.batch = b}}

\* The root that the creator of a batch is about to store
NextRoots(b) == {c \in {b} : row[c].rootless}

\* Mutant: no condition on proof_status.
RootedAt(x) == {c \in Batches : row[c].final = x /\ Exists(c) /\ Roots(c) # {}}

\* The proven batches with a root that end with the counter x
ProvenAt(x) == {c \in Batches : row[c].final = x /\ row[c].status = "proven" /\ Roots(c) # {}}

Newest(S) == CHOOSE b \in S : \A c \in S : c <= b

\* The roots that may be returned as prev_merkle_root
PrevRoots(b) ==
  IF row[b].prev = 0 \/ ProvenAt(row[b].prev) = {} THEN {ZeroRoot}
  ELSE Roots(Newest(ProvenAt(row[b].prev)))

(***************************************************************************)
(* Three statements: the batch, the previous root, and the new root, which *)
(* may have been stored after the previous one was read.  (zk_proof, the   *)
(* id that the row had at the first, is left out.)                         *)
(***************************************************************************)
SubmissionData(b) ==
  [prev_merkle_root: PrevRoots(b), new_merkle_root: Roots(b) \cup NextRoots(b),
   prev_counter_value: {row[b].prev}, new_counter_value: {row[b].final}]

\* The batches that one statement may have seen if another reads the rows as
\* they are now
Seen == SUBSET {b \in Batches : Exists(b)}

CurrentCounter(seen) == IF seen = {} THEN 0 ELSE row[Newest(seen)].final

\* The counter, from a statement that has seen some of the batches; then the
\* newest proven batch, with its root or without (an error)
CurrentState(seen) ==
  LET P == {b \in Batches : row[b].status = "proven"}
  IN  [counter_value: {CurrentCounter(seen)},
       last_batch_id: IF P = {} THEN {0} ELSE {Newest(P)},
       merkle_root: IF P = {} THEN {NoRoot} ELSE Roots(Newest(P))]

CurrentStateResponse(seen) ==
  {[counter_value        |-> state.counter_value,
    has_merkle_root      |-> state.merkle_root # NoRoot,
    last_proven_batch_id |-> IF state.merkle_root # NoRoot THEN state.last_batch_id ELSE 0] :
     state \in CurrentState(seen)}

\* is_valid of verify_sindri_proof: the proof is there, the verifier accepts
\* it, and its balances are the expected ones.
VerifySindriProof(id, initial, final) ==
  /\ jobs[id].status = "Ready"
  /\ jobs[id].initial = initial /\ jobs[id].final = final

-----------------------------------------------------------------------------

TaskSteps(s) == StartJob(s) \/ ProverAnswers(s) \/ CheckStatus(s) \/ StoreProof(s)

LoopStep(e) ==
  SpawnSubmission(e) \/ SpawnCheck(e) \/ PostBatch(e) \/ PostRejected(e) \/ MarkPosted(e)

MonitorSteps ==
  \/ BeginSubmit \/ BeginCheck \/ BeginPost \/ EndCycle
  \/ \E e \in monitor.todo : LoopStep(e)

Next ==
  \/ \E b \in Batches : CreateBatch(b) \/ StoreRoot(b)
  \/ \E b \in Batches, id \in 0..Len(jobs), status \in PutStatuses :
       PutProof(b, id, status)
  \/ \E s \in Slots : TaskSteps(s) \/ SubmissionFails(s) \/ TaskFails(s)
  \/ \E j \in 1..Len(jobs) : JobEnds(j)
  \/ MonitorSteps
  \/ \E e \in monitor.todo : PostFails(e) \/ PostReverted(e)
  \/ \E c \in sent : LateUpdate(c)
  \/ Crash

Spec == Init /\ [][Next]_vars

(***************************************************************************)
(* Fairness.  The monitor's timer and the runtime never stop, calls of the *)
(* prover and the node return (reqwest and alloy time out), and the prover *)
(* finishes its jobs.  Nobody is obliged to create a batch.                *)
(***************************************************************************)
Fairness ==
  /\ \A s \in Slots : WF_vars(TaskSteps(s))
  /\ WF_vars(MonitorSteps)
  /\ WF_vars(\E j \in 1..Len(jobs) : JobEnds(j))

FairSpec == Spec /\ Fairness

-----------------------------------------------------------------------------
(***************************************************************************)
(* Properties                                                              *)
(***************************************************************************)

\* Every variable has its type.
TypeOK ==
  /\ row \in [Batches -> Row]
  /\ commits \subseteq Commit
  /\ jobs \in Seq(Job)
  /\ task \in [Slots -> Task]
  /\ monitor \in [phase: {"idle", "submit", "check", "post", "mark"}, todo: SUBSET Entry]
  /\ contract \cup sent \subseteq [state: Batches, proof: Nat, root: Int]
  /\ reverted \subseteq Batches
  /\ faults \in 0..MaxDisturbances
  /\ puts \in 0..MaxDisturbances

(***************************************************************************)
(* What a row says of its proof is true: the id is a job for this very     *)
(* batch, and "proven" or "failed" is how that job ended, no matter which  *)
(* tasks with older answers overwrite each other; and whoever verifies the *)
(* proof of a proven row with the counters of that row, truncated to i32   *)
(* as verify_sindri_proof takes them, is told that it is valid.  (Unless a *)
(* client has set a proof by hand: the endpoint checks nothing of this.)   *)
(***************************************************************************)
RowsTellTheTruth ==
  puts = 0 => \A b \in Batches :
    LET id == row[b].id
    IN  /\ id # Missing => id <= Len(jobs) /\ jobs[id].batch = b
        /\ row[b].status = "proven" =>
             id # Missing /\ VerifySindriProof(id, AsI32(row[b].prev), AsI32(row[b].final))
        /\ row[b].status = "failed" /\ id # Missing => jobs[id].status = "Failed"

(***************************************************************************)
(* The contract holds finished proofs only, each once; and a proof stands  *)
(* for the batch whose state it updates, and shows, as far as 32 bits can, *)
(* that the counter went from where the batch began to the counter that    *)
(* the new root is the hash of.  Nothing on the contract compares these:   *)
(* it depends on the row when the proof was requested, the row when it was *)
(* posted, and the tasks in between.  (Unless a client has set a proof by  *)
(* hand.)                                                                  *)
(***************************************************************************)
PostedRootsAreProven ==
  /\ \A c \in contract : c.proof \in 1..Len(jobs) /\ jobs[c.proof].status = "Ready"
  /\ \A c, d \in contract : c.proof = d.proof => c = d
  /\ puts = 0 => \A c \in contract :
       LET job == jobs[c.proof]
       IN  /\ job.batch = c.state
           /\ (job.initial - row[c.state].prev) % Word = 0
           /\ (job.final - c.root) % Word = 0

FinalsDiffer == \A b, c \in Batches : Exists(b) /\ Exists(c) /\ b # c => row[b].final # row[c].final

(***************************************************************************)
(* The roots that clients read belong together.  The prev_merkle_root that *)
(* get_contract_submission_data gives with the root of a batch is that of  *)
(* the genesis state or of another batch, whose proof ends with the        *)
(* counter that the proof of this batch, if it has one, begins with: if no *)
(* two batches end with the same counter, as they do when amounts cancel   *)
(* out, or after two calls of create_batch have read the same counter.     *)
(* And the root in get_current_state is that of the batch it names, whose  *)
(* proof ends with the counter it reports, unless there was a newer batch  *)
(* when the counter was read, or the batch was created and proven after    *)
(* that; the endpoint reports a root exactly if that batch has a finished  *)
(* proof.  (All this unless a client has set a proof by hand.)             *)
(***************************************************************************)
RootsBelongTogether ==
  puts = 0 =>
    /\ FinalsDiffer => \A b \in Batches : \A data \in SubmissionData(b) :
         /\ data.new_merkle_root = b
         /\ data.prev_merkle_root # ZeroRoot =>
              LET c == data.prev_merkle_root
              IN  /\ c # b /\ row[c].id # Missing
                  /\ row[b].id # Missing => jobs[row[c].id].final = jobs[row[b].id].initial
    /\ \A seen \in Seen : \A state \in CurrentState(seen) :
         LET b == state.last_batch_id
         IN  b # 0 =>
               /\ state.merkle_root = b
               /\ b \in seen /\ (\A c \in seen : c <= b)
                    => (jobs[row[b].id].final - state.counter_value) % Word = 0
    /\ \A seen \in Seen : \A response \in CurrentStateResponse(seen) :
         LET b == response.last_proven_batch_id
         IN  response.has_merkle_root <=>
               b # 0 /\ row[b].id # Missing /\ jobs[row[b].id].status = "Ready"

(***************************************************************************)
(* As long as a row keeps its proof id, "proven" and "failed" are final:   *)
(* no late answer of the prover takes them back.                           *)
(***************************************************************************)
VerdictsAreFinal ==
  [][puts' = 0 => \A b \in Batches :
       (row[b].id # Missing /\ row'[b].id = row[b].id /\ row[b].status \in {"proven", "failed"})
          => row'[b].status = row[b].status]_row

(***************************************************************************)
(* A batch marked as posted is on the contract, or its update was mined    *)
(* and reverted, which its poster does not notice: no other error is taken *)
(* for success.  As long as nothing has failed, the mark tells whether the *)
(* batch is there ("Tracks if batch posted to contract"), except between   *)
(* the transaction and the UPDATE, and no batch is posted twice, although  *)
(* two submissions may have given it two proofs.                           *)
(***************************************************************************)
PostedTracksContract ==
  /\ \A b \in Batches : row[b].posted => b \in reverted \/ \E c \in contract : c.state = b
  /\ faults = 0 /\ monitor.phase # "mark" =>
       \A b \in Batches : (\E c \in contract : c.state = b) => row[b].posted
  /\ faults = 0 => \A c, d \in contract : c.state = d.state => c = d

(***************************************************************************)
(* Every batch gets a verdict of the prover and keeps one, after finitely  *)
(* many failed calls and crashes.                                          *)
(***************************************************************************)
Settled(b) == row[b].id # Missing /\ row[b].status \in {"proven", "failed"}
EventuallySettled == \A b \in Batches : (row[b].status # "absent") ~> [](Settled(b))

(***************************************************************************)
(* If nothing fails, a proven batch reaches the contract, unless a second  *)
(* submission of the same batch replaces its proof.                        *)
(***************************************************************************)
ProvenIsPosted ==
  [](faults = 0) => \A b \in Batches :
    (row[b].status = "proven") ~> (row[b].posted \/ row[b].status # "proven")

-----------------------------------------------------------------------------
(***************************************************************************)
(* What the README promises and the code does not keep.                    *)
(***************************************************************************)

\* A batch that is proven for good is posted, faults or not: the "Background
\* process handles retries and error recovery".
StaysProvenIsPosted ==
  \A b \in Batches : <>[](row[b].status = "proven") => <>(row[b].posted)

=============================================================================
