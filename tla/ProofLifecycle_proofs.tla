------------------------ MODULE ProofLifecycle_proofs ------------------------
(***************************************************************************)
(* Proofs about ProofLifecycle, for any number of batches, tasks in        *)
(* flight, jobs and disturbances, any amounts and any width of a word.     *)
(*                                                                         *)
(* A row is overwritten by tasks that asked the prover earlier, so what a  *)
(* row says is true only if what every task and every query result in      *)
(* flight carries is true as well (IdsAreOwn, VerdictsHold), and stays as  *)
(* it is only if a proof that is still to be stored is known to nobody     *)
(* else (ProofsAreFresh).                                                  *)
(***************************************************************************)
EXTENDS ProofLifecycle, SequenceTheorems, FiniteSetTheorems, WellFoundedInduction, TLAPS

USE DEF chain

-----------------------------------------------------------------------------
(***************************************************************************)
(* The inductive invariant                                                 *)
(***************************************************************************)

Busy(s) == task[s].kind # "none"

\* Every proof id names a job, and every batch named somewhere exists.
IdsExist ==
  /\ \A b \in Batches : row[b].id \in 0 .. Len(jobs) /\ (row[b].rootless => Exists(b))
  /\ \A s \in Slots : Busy(s) =>
       /\ task[s].batch \in Batches /\ Exists(task[s].batch)
       /\ task[s].id \in 0 .. Len(jobs)
       /\ task[s].kind = "check" \/ task[s].pc = "wait" => task[s].id # Missing
  /\ \A e \in monitor.todo :
       /\ Exists(e.batch)
       /\ e.id \in 0 .. Len(jobs)
       /\ monitor.phase = "check" => e.id # Missing

\* The counters of a batch differ by its amounts, and a job starts from the
\* counter before its batch.
JobsProveRows ==
  /\ \A b \in Batches : Exists(b) => row[b].final = row[b].prev + Amounts[b]
  /\ \A j \in 1 .. Len(jobs) :
       /\ Exists(jobs[j].batch)
       /\ jobs[j].initial = AsI32(row[jobs[j].batch].prev)
       /\ jobs[j].final = ProcessTransactions(jobs[j].initial, jobs[j].batch)

\* Without interference, an id is a job for the batch it is kept for.
IdsAreOwn ==
  puts = 0 =>
    /\ \A b \in Batches : row[b].id # Missing => jobs[row[b].id].batch = b
    /\ \A s \in Slots : Busy(s) /\ task[s].id # Missing =>
         jobs[task[s].id].batch = task[s].batch
    /\ \A e \in monitor.todo : e.id # Missing => jobs[e.id].batch = e.batch

Holds(status, id) ==
  /\ status = "proven" => id # Missing /\ jobs[id].status = "Ready"
  /\ status = "failed" /\ id # Missing => jobs[id].status = "Failed"

\* What a task is about to store is true, and so is what was stored.
VerdictsHold ==
  /\ \A s \in Slots : Busy(s) /\ task[s].pc = "store" =>
       /\ Holds(task[s].status, task[s].id)
       /\ task[s].kind = "check" => task[s].status # "pending"
  /\ puts = 0 => \A b \in Batches : Holds(row[b].status, row[b].id)

\* Without interference, the proof of a submission that is still to be stored
\* is in no row, no other task and no result of a query.
ProofsAreFresh ==
  puts = 0 => \A s \in Slots : task[s].kind = "submit" /\ task[s].id # Missing =>
    /\ \A b \in Batches : row[b].id # task[s].id
    /\ \A t \in Slots : Busy(t) /\ t # s => task[t].id # task[s].id
    /\ \A e \in monitor.todo : e.id # task[s].id

\* The contract holds finished proofs, with the counter of the batch whose
\* state each has updated, and so do the updates that are still on their way.
ContractIsSound ==
  /\ \A c \in contract \cup sent :
       /\ c.proof \in 1 .. Len(jobs) /\ jobs[c.proof].status = "Ready"
       /\ Exists(c.state) /\ c.root = row[c.state].final
       /\ puts = 0 => jobs[c.proof].batch = c.state
  /\ \A c, d \in contract : c.proof = d.proof => c = d

InContract(b) == \E c \in contract : c.state = b

\* The last update of the batch was mined, and had its effect or was reverted.
Mined(b) == InContract(b) \/ b \in reverted

\* A batch to post is not on the contract yet, unless it is the one to mark.
MarksAreRight ==
  /\ \A e, f \in monitor.todo : e.batch = f.batch => e = f
  /\ \A b \in Batches : row[b].posted => Mined(b)
  /\ monitor.phase = "mark" => \A e \in monitor.todo : Current(e) => Mined(e.batch)
  /\ sent # {} => faults # 0
  /\ CacheReady /\ faults = 0 =>
       /\ \A c, d \in contract : c.state = d.state => c = d
       /\ \A b \in Batches : InContract(b) /\ ~row[b].posted =>
            monitor.phase = "mark" /\ \E e \in monitor.todo : Current(e) /\ e.batch = b
       /\ monitor.phase = "post" => \A e \in monitor.todo : ~InContract(e.batch)
       /\ monitor.phase = "mark" => \A e \in monitor.todo : ~Current(e) => ~InContract(e.batch)

IInv ==
  /\ TypeOK
  /\ IdsExist
  /\ JobsProveRows
  /\ IdsAreOwn
  /\ VerdictsHold
  /\ ProofsAreFresh
  /\ ContractIsSound
  /\ MarksAreRight

-----------------------------------------------------------------------------
(***************************************************************************)
(* Types.                                                                  *)
(***************************************************************************)

LEMMA TaskTypes ==
  /\ NoTask \in Task
  /\ \A b \in Batches : SubmitTask(b) \in Task
  /\ \A b \in Batches, id \in Nat : CheckTask(b, id) \in Task
<1>1. NoTask \in Task
  BY DEF NoTask, Task, Missing
<1>2. ASSUME NEW b \in Batches PROVE SubmitTask(b) \in Task
  BY <1>1 DEF SubmitTask, Task
<1>3. ASSUME NEW b \in Batches, NEW id \in Nat PROVE CheckTask(b, id) \in Task
  BY <1>1 DEF CheckTask, Task
<1> QED BY <1>1, <1>2, <1>3

LEMMA OneTaskChanges ==
  ASSUME TypeOK, NEW s \in Slots, NEW t \in Task, task' = [task EXCEPT ![s] = t]
  PROVE  task' \in [Slots -> Task]
BY DEF TypeOK

LEMMA OneRowChanges ==
  ASSUME TypeOK, NEW b \in Batches, NEW r \in Row, row' = [row EXCEPT ![b] = r]
  PROVE  row' \in [Batches -> Row]
BY DEF TypeOK

LEMMA VerdictType ==
  ASSUME NEW r \in Row, NEW id \in Nat, NEW status \in {"pending", "proven", "failed"}
  PROVE  [r EXCEPT !.id = id, !.status = status] \in Row
BY DEF Row

LEMMA NewRowType ==
  ASSUME NEW r \in Row, NEW prev \in Int, NEW final \in Int
  PROVE  [r EXCEPT !.status = "pending", !.prev = prev, !.final = final, !.rootless = TRUE] \in Row
BY DEF Row

LEMMA RootedType == ASSUME NEW r \in Row PROVE [r EXCEPT !.rootless = FALSE] \in Row
BY DEF Row

LEMMA PostedType == ASSUME NEW r \in Row PROVE [r EXCEPT !.posted = TRUE] \in Row
BY DEF Row

LEMMA WaitType ==
  ASSUME NEW t \in Task, NEW id \in Nat PROVE [t EXCEPT !.pc = "wait", !.id = id] \in Task
BY DEF Task

LEMMA TaskUpdates ==
  ASSUME NEW t \in Task, NEW id \in Nat, NEW status \in {"pending", "proven", "failed"}
  PROVE  /\ [t EXCEPT !.pc = "store", !.status = status] \in Task
         /\ [t EXCEPT !.pc = "store", !.id = id, !.status = status] \in Task
BY DEF Task

\* What the queries return: existing rows, each once, with their ids.
LEMMA RowsOfTable ==
  ASSUME NEW n, NEW S \in SUBSET Batches
  PROVE  /\ \A e \in Rows(n, S) : e.batch \in S /\ e = [batch |-> e.batch, id |-> row[e.batch].id]
         /\ \A e, f \in Rows(n, S) : e.batch = f.batch => e = f
<1>1. \A e \in Rows(n, S) : \E b \in S : e = [batch |-> b, id |-> row[b].id]
  BY DEF Rows, FirstRows
<1>2. \A e \in Rows(n, S) : e.batch \in S /\ e = [batch |-> e.batch, id |-> row[e.batch].id]
  BY <1>1
<1> QED BY <1>2

LEMMA RowsType ==
  ASSUME TypeOK, NEW n, NEW S \in SUBSET Batches
  PROVE  Rows(n, S) \in SUBSET Entry
BY RowsOfTable DEF TypeOK, Row, Entry

LEMMA AsI32Type == ASSUME NEW x \in Int PROVE AsI32(x) \in Int
BY ProofLifecycleAssumption DEF AsI32

LEMMA JobType ==
  ASSUME TypeOK, NEW j \in 1 .. Len(jobs)
  PROVE  jobs[j] \in Job /\ jobs[j].batch \in Batches
<1>1. jobs[j] \in Job
  BY DEF TypeOK
<1> QED BY <1>1 DEF Job

\* The calls that may fail count as disturbances.
LEMMA FaultType ==
  ASSUME TypeOK, Fault PROVE faults' \in 0 .. MaxDisturbances /\ faults' # 0
BY ProofLifecycleAssumption DEF TypeOK, Fault, DisturbancesLeft

LEMMA TypeStep == TypeOK /\ IdsExist /\ Next => TypeOK'
<1> SUFFICES ASSUME TypeOK, IdsExist, Next PROVE TypeOK'
  OBVIOUS
<1>1. ASSUME NEW b \in Batches, CreateBatch(b) PROVE TypeOK'
  <2>1. PICK prev \in {0} \cup {row[c].final : c \in {c \in Batches : Exists(c) /\ c < b}} :
          row' = [row EXCEPT ![b].status = "pending", ![b].prev = prev,
                             ![b].final = prev + Amounts[b], ![b].rootless = TRUE]
    BY <1>1 DEF CreateBatch
  <2>2. prev \in Int /\ prev + Amounts[b] \in Int /\ row[b] \in Row
    <3>1. prev \in Int /\ row[b] \in Row
      BY DEF TypeOK, Row
    <3> QED BY <3>1, ProofLifecycleAssumption
  <2> DEFINE r == [row[b] EXCEPT !.status = "pending", !.prev = prev,
                                 !.final = prev + Amounts[b], !.rootless = TRUE]
  <2>3. r \in Row
    BY ONLY <2>2, NewRowType
  <2>4. row' = [row EXCEPT ![b] = r]
    BY <2>1
  <2>5. row' \in [Batches -> Row]
    BY ONLY TypeOK, <2>3, <2>4, OneRowChanges
  <2> QED BY <1>1, <2>5 DEF CreateBatch, TypeOK
<1>2. ASSUME NEW b \in Batches, StoreRoot(b) PROVE TypeOK'
  <2>1. row' \in [Batches -> Row]
    <3>1. [row[b] EXCEPT !.rootless = FALSE] \in Row
      BY RootedType DEF TypeOK
    <3> QED BY <1>2, <3>1 DEF StoreRoot, TypeOK
  <2>2. task' \in [Slots -> Task]
    BY <1>2, TaskTypes DEF StoreRoot, Spawn, TypeOK
  <2>3. commits' \in SUBSET Commit
    BY <1>2 DEF StoreRoot, Commit, TypeOK
  <2>4. faults' \in 0 .. MaxDisturbances
    BY <1>2, FaultType DEF StoreRoot, TypeOK
  <2> QED BY <1>2, <2>1, <2>2, <2>3, <2>4 DEF StoreRoot, TypeOK
<1>3. ASSUME NEW b \in Batches, NEW id \in 0 .. Len(jobs), NEW status \in PutStatuses,
             PutProof(b, id, status)
      PROVE  TypeOK'
  <2>1. row[b] \in Row /\ id \in Nat /\ status \in {"pending", "proven", "failed"}
    <3>1. Len(jobs) \in Nat
      BY DEF TypeOK
    <3> QED BY <3>1, ProofLifecycleAssumption DEF TypeOK
  <2>2. row' \in [Batches -> Row]
    <3>1. [row[b] EXCEPT !.id = id, !.status = status] \in Row
      BY ONLY <2>1, VerdictType
    <3> QED BY <1>3, <3>1 DEF PutProof, TypeOK
  <2>3. commits' \in SUBSET Commit
    BY <1>3 DEF PutProof, Commit, TypeOK
  <2>4. puts' \in 0 .. MaxDisturbances
    <3>1. puts' = puts + 1 /\ faults + puts < MaxDisturbances
      BY <1>3 DEF PutProof, DisturbancesLeft
    <3>2. puts \in Nat /\ faults \in Nat /\ MaxDisturbances \in Nat
      BY ProofLifecycleAssumption DEF TypeOK
    <3> QED BY ONLY <3>1, <3>2
  <2> QED BY <1>3, <2>2, <2>3, <2>4 DEF PutProof, TypeOK
<1>4. ASSUME NEW s \in Slots, StartJob(s) PROVE TypeOK'
  <2>1. task[s] \in Task /\ task[s].batch \in Batches /\ Len(jobs) \in Nat
    BY <1>4 DEF StartJob, TypeOK, IdsExist, Busy
  <2>2. jobs' \in Seq(Job)
    <3> DEFINE b == task[s].batch
               j == [batch |-> b, status |-> "InProgress", initial |-> InitialBalance(b),
                     final |-> ProcessTransactions(InitialBalance(b), b)]
    <3>1. row[b].prev \in Int /\ Amounts[b] \in Int
      BY <2>1, ProofLifecycleAssumption DEF TypeOK, Row
    <3>2. InitialBalance(b) \in Int
      BY <3>1, AsI32Type DEF InitialBalance
    <3>3. ProcessTransactions(InitialBalance(b), b) \in Int
      BY <3>1, <3>2, AsI32Type DEF ProcessTransactions
    <3>4. j \in Job
      BY <2>1, <3>2, <3>3 DEF Job
    <3> HIDE DEF j
    <3>5. Append(jobs, j) \in Seq(Job)
      BY <3>4 DEF TypeOK
    <3> QED BY <1>4, <3>5 DEF StartJob, j
  <2>3. [task[s] EXCEPT !.pc = "wait", !.id = Len(jobs) + 1] \in Task
    <3>1. Len(jobs) + 1 \in Nat
      BY <2>1
    <3> QED BY ONLY <2>1, <3>1, WaitType
  <2>4. task' \in [Slots -> Task]
    BY <1>4, <2>3 DEF StartJob, TypeOK
  <2> QED BY <1>4, <2>2, <2>4 DEF StartJob, TypeOK
<1>5. ASSUME NEW s \in Slots, ProverAnswers(s) \/ CheckStatus(s) PROVE TypeOK'
  <2>1. \A j : StatusOf(j) \in {"pending", "proven", "failed"}
    BY DEF StatusOf
  <2>2. \A status \in {"pending", "proven", "failed"} :
          [task[s] EXCEPT !.pc = "store", !.status = status] \in Task
    BY TaskUpdates DEF TypeOK
  <2>3. task' \in [Slots -> Task]
    <3>1. PICK t \in Task : task' = [task EXCEPT ![s] = t]
      <4>1. CASE ProverAnswers(s)
        BY <2>1, <2>2, <4>1 DEF ProverAnswers
      <4>2. CASE CheckStatus(s)
        BY <2>1, <2>2, <4>2, TaskTypes DEF CheckStatus, Finish
      <4> QED BY <1>5, <4>1, <4>2
    <3> QED BY ONLY TypeOK, <3>1, OneTaskChanges
  <2> QED BY <1>5, <2>3 DEF ProverAnswers, CheckStatus, TypeOK
<1>6. ASSUME NEW s \in Slots, SubmissionFails(s) \/ TaskFails(s) PROVE TypeOK'
  <2>1. [task[s] EXCEPT !.pc = "store", !.id = Missing, !.status = "failed"] \in Task
    BY TaskUpdates DEF TypeOK, Missing
  <2>2. task' \in [Slots -> Task]
    BY <1>6, <2>1, TaskTypes DEF SubmissionFails, TaskFails, Finish, TypeOK
  <2>3. faults' \in 0 .. MaxDisturbances
    BY <1>6, FaultType DEF SubmissionFails, TaskFails, TypeOK
  <2> QED BY <1>6, <2>2, <2>3 DEF SubmissionFails, TaskFails, TypeOK
<1>7. ASSUME NEW s \in Slots, StoreProof(s) PROVE TypeOK'
  <2>1. task[s] \in Task /\ task[s].batch \in Batches
    BY <1>7 DEF StoreProof, TypeOK, IdsExist, Busy
  <2>2. [row[task[s].batch] EXCEPT !.id = task[s].id, !.status = task[s].status] \in Row
    <3>1. row[task[s].batch] \in Row
      BY <2>1 DEF TypeOK
    <3>2. task[s].id \in Nat /\ task[s].status \in {"pending", "proven", "failed"}
      BY <2>1 DEF Task
    <3> QED BY <3>1, <3>2, VerdictType
  <2>3. row' \in [Batches -> Row]
    BY <1>7, <2>1, <2>2 DEF StoreProof, TypeOK
  <2>4. task' \in [Slots -> Task]
    BY <1>7, TaskTypes DEF StoreProof, Finish, TypeOK
  <2> QED BY <1>7, <2>3, <2>4 DEF StoreProof, TypeOK
<1>8. ASSUME NEW j \in 1 .. Len(jobs), JobEnds(j) PROVE TypeOK'
  <2>1. PICK status \in {"Ready", "Failed"} : jobs' = [jobs EXCEPT ![j].status = status]
    BY <1>8 DEF JobEnds
  <2>2. jobs[j] \in Job
    BY DEF TypeOK
  <2>3. [jobs[j] EXCEPT !.status = status] \in Job
    BY <2>2 DEF Job
  <2>4. jobs' \in Seq(Job)
    BY <2>1, <2>3, ExceptSeq DEF TypeOK
  <2> QED BY <1>8, <2>4 DEF JobEnds, TypeOK
<1>9. ASSUME NEW phase \in {"submit", "check", "post"}, NEW result \in SUBSET Entry,
             Query(phase, result)
      PROVE  TypeOK'
  BY <1>9, FaultType DEF Query, TypeOK
<1>10. CASE BeginSubmit \/ BeginCheck \/ BeginPost
  <2>1. MissingProof \in SUBSET Entry /\ PendingProof \in SUBSET Entry
    BY RowsType DEF MissingProof, PendingProof
  <2>2. ProvenUnposted \in SUBSET Entry
    BY RowsType DEF ProvenUnposted
  <2> QED BY <1>9, <1>10, <2>1, <2>2 DEF BeginSubmit, BeginCheck, BeginPost
<1>11. CASE EndCycle
  BY <1>11 DEF EndCycle, TypeOK
<1>12. ASSUME NEW e \in monitor.todo, SpawnSubmission(e) \/ SpawnCheck(e) PROVE TypeOK'
  <2>1. e.batch \in Batches /\ e.id \in Nat
    BY DEF TypeOK, Entry
  <2>2. task' \in [Slots -> Task]
    BY <1>12, <2>1, TaskTypes DEF SpawnSubmission, SpawnCheck, Spawn, TypeOK
  <2> QED BY <1>12, <2>2 DEF SpawnSubmission, SpawnCheck, Done, TypeOK
<1>13. ASSUME NEW e \in monitor.todo,
              PostBatch(e) \/ PostRejected(e) \/ PostFails(e) \/ PostReverted(e)
       PROVE  TypeOK'
  <2>1. NewRoot(e) \in [state: Batches, proof: Nat, root: Int] /\ e.batch \in Batches
    BY DEF TypeOK, Entry, Row, NewRoot
  <2>2. /\ contract' \cup sent' \subseteq [state: Batches, proof: Nat, root: Int]
        /\ reverted' \subseteq Batches
    BY <1>13, <2>1 DEF PostBatch, PostRejected, PostFails, PostReverted, Update, TypeOK
  <2>3. faults' \in 0 .. MaxDisturbances
    BY <1>13, FaultType DEF PostBatch, PostRejected, PostFails, PostReverted, TypeOK
  <2>4. monitor' \in [phase: {"idle", "submit", "check", "post", "mark"}, todo: SUBSET Entry]
    BY <1>13 DEF PostBatch, PostRejected, PostFails, PostReverted, Confirmed, Done, TypeOK
  <2> QED BY <1>13, <2>2, <2>3, <2>4
          DEF PostBatch, PostRejected, PostFails, PostReverted, TypeOK
<1>14. ASSUME NEW e \in monitor.todo, MarkPosted(e) PROVE TypeOK'
  <2>1. e.batch \in Batches
    BY DEF TypeOK, Entry
  <2>2. [row[e.batch] EXCEPT !.posted = TRUE] \in Row
    BY <2>1, PostedType DEF TypeOK
  <2>3. row' \in [Batches -> Row]
    BY <1>14, <2>1, <2>2 DEF MarkPosted, TypeOK
  <2>4. faults' \in 0 .. MaxDisturbances
    BY <1>14, FaultType DEF MarkPosted, TypeOK
  <2> QED BY <1>14, <2>3, <2>4 DEF MarkPosted, TypeOK
<1>15. CASE Crash
  <2>1. \A b \in Batches : [row[b] EXCEPT !.rootless = FALSE] \in Row
    BY RootedType DEF TypeOK
  <2>2. row' \in [Batches -> Row]
    BY <1>15, <2>1 DEF Crash
  <2>3. task' \in [Slots -> Task]
    BY <1>15, TaskTypes DEF Crash
  <2> QED BY <1>15, <2>2, <2>3, FaultType DEF Crash, TypeOK
<1>16. ASSUME NEW c \in sent, LateUpdate(c) PROVE TypeOK'
  BY <1>16 DEF LateUpdate, TypeOK
<1> QED
  BY <1>1, <1>2, <1>3, <1>4, <1>5, <1>6, <1>7, <1>8, <1>10, <1>11, <1>12, <1>13, <1>14, <1>15,
     <1>16
  DEF Next, TaskSteps, MonitorSteps, LoopStep

-----------------------------------------------------------------------------
(***************************************************************************)
(* Steps that leave most of the state alone.                               *)
(***************************************************************************)

\* No row gets another proof, status or counter.
RowsKept ==
  \A b \in Batches :
    /\ row'[b].id = row[b].id /\ row'[b].status = row[b].status
    /\ row'[b].prev = row[b].prev /\ row'[b].final = row[b].final
    /\ row'[b].rootless => row[b].rootless

\* The monitor has at most the rows it had.
TodoKept ==
  /\ monitor'.todo \subseteq monitor.todo
  /\ monitor'.phase = "check" => monitor.phase = "check" \/ monitor'.todo = {}

\* The prover's jobs go on, and counters stay.
LEMMA SameJobs ==
  ASSUME IInv, TypeOK', Len(jobs') = Len(jobs),
         \A j \in 1 .. Len(jobs) : /\ jobs'[j].batch = jobs[j].batch
                                   /\ jobs'[j].initial = jobs[j].initial
                                   /\ jobs'[j].final = jobs[j].final,
         \A b \in Batches : Exists(b) => Exists(b)' /\ row'[b].prev = row[b].prev,
         \A b \in Batches : Exists(b)' => row'[b].final = row'[b].prev + Amounts[b]
  PROVE  JobsProveRows'
<1>1. ASSUME NEW j \in 1 .. Len(jobs)
      PROVE  /\ Exists(jobs[j].batch)'
             /\ jobs'[j].initial = AsI32(row'[jobs'[j].batch].prev)
             /\ jobs'[j].final = ProcessTransactions(jobs'[j].initial, jobs'[j].batch)
  <2>1. jobs[j].batch \in Batches
    BY JobType DEF IInv
  <2>2. /\ Exists(jobs[j].batch)
        /\ jobs[j].initial = AsI32(row[jobs[j].batch].prev)
        /\ jobs[j].final = ProcessTransactions(jobs[j].initial, jobs[j].batch)
    BY DEF IInv, JobsProveRows
  <2>3. /\ Exists(jobs[j].batch)'
        /\ row'[jobs[j].batch].prev = row[jobs[j].batch].prev
    BY <2>1, <2>2
  <2> QED BY <2>2, <2>3 DEF Exists, ProcessTransactions
<1> QED BY <1>1 DEF JobsProveRows

\* Tasks end, and that is all that concerns them.
LEMMA TasksEnd ==
  ASSUME IInv, TypeOK', RowsKept, TodoKept, jobs' = jobs, puts' = puts,
         \A s \in Slots : task'[s] = task[s] \/ task'[s] = NoTask
  PROVE  IdsExist' /\ JobsProveRows' /\ IdsAreOwn' /\ VerdictsHold' /\ ProofsAreFresh'
<1> USE DEF RowsKept
<1>1. /\ \A b \in Batches : Exists(b)' <=> Exists(b)
      /\ NoTask.kind = "none" /\ NoTask.id = Missing
  BY DEF Exists, NoTask
<1>2. IdsExist'
  <2>1. \A b \in Batches : row'[b].id \in 0 .. Len(jobs') /\ (row'[b].rootless => Exists(b)')
    BY <1>1 DEF IInv, IdsExist
  <2>2. ASSUME NEW u \in Slots, Busy(u)'
        PROVE  /\ task'[u] = task[u] /\ task'[u].batch \in Batches /\ Exists(task[u].batch)'
               /\ task'[u].id \in 0 .. Len(jobs')
               /\ task'[u].kind = "check" \/ task'[u].pc = "wait" => task'[u].id # Missing
    <3>1. task'[u] = task[u] /\ Busy(u)
      BY <1>1, <2>2 DEF Busy
    <3> QED BY <1>1, <3>1 DEF IInv, IdsExist
  <2>3. ASSUME NEW e \in monitor'.todo
        PROVE  /\ Exists(e.batch)' /\ e.id \in 0 .. Len(jobs')
               /\ monitor'.phase = "check" => e.id # Missing
    <3>1. e \in monitor.todo /\ e.batch \in Batches
      BY DEF TodoKept, TypeOK, Entry
    <3> QED BY <1>1, <3>1 DEF IInv, IdsExist, TodoKept
  <2> QED BY <2>1, <2>2, <2>3 DEF IdsExist
<1>3. JobsProveRows'
  BY <1>1, SameJobs DEF IInv, JobsProveRows
<1>4. IdsAreOwn'
  BY <1>1 DEF IInv, IdsAreOwn, TodoKept, Busy
<1>5. VerdictsHold'
  BY <1>1 DEF IInv, VerdictsHold, Busy, Holds
<1>6. ProofsAreFresh'
  BY <1>1 DEF IInv, ProofsAreFresh, TodoKept, Busy
<1> QED BY <1>2, <1>3, <1>4, <1>5, <1>6

\* A task is spawned, with no proof or with that of an existing row.
LEMMA TaskBegins ==
  ASSUME IInv, TypeOK', RowsKept, TodoKept, jobs' = jobs, puts' = puts,
         NEW s \in Slots, NEW t \in Task, Spawn(s, t),
         t.kind \in {"submit", "check"}, t.pc = "call",
         t.batch \in Batches, Exists(t.batch), t.id \in 0 .. Len(jobs),
         t.kind = "submit" <=> t.id = Missing,
         puts = 0 /\ t.id # Missing =>
           /\ jobs[t.id].batch = t.batch
           /\ \A u \in Slots : task[u].kind = "submit" => task[u].id # t.id
  PROVE  IdsExist' /\ JobsProveRows' /\ IdsAreOwn' /\ VerdictsHold' /\ ProofsAreFresh'
<1> USE DEF RowsKept
<1>1. /\ \A b \in Batches : Exists(b)' <=> Exists(b)
      /\ task[s].kind = "none"
  BY DEF Exists, Spawn, NoTask
<1>2. task'[s] = t /\ \A u \in Slots : u # s => task'[u] = task[u]
  BY DEF IInv, TypeOK, Spawn
<1>3. IdsExist'
  <2>1. \A b \in Batches : row'[b].id \in 0 .. Len(jobs') /\ (row'[b].rootless => Exists(b)')
    BY <1>1 DEF IInv, IdsExist
  <2>2. ASSUME NEW u \in Slots, Busy(u)'
        PROVE  /\ task'[u].batch \in Batches /\ Exists(task[u].batch)'
               /\ task'[u].id \in 0 .. Len(jobs')
               /\ task'[u].kind = "check" \/ task'[u].pc = "wait" => task'[u].id # Missing
    <3>1. CASE u = s
      BY <1>1, <1>2, <3>1
    <3>2. CASE u # s
      BY <1>1, <1>2, <2>2, <3>2 DEF IInv, IdsExist, Busy
    <3> QED BY <3>1, <3>2
  <2>3. ASSUME NEW e \in monitor'.todo
        PROVE  /\ Exists(e.batch)' /\ e.id \in 0 .. Len(jobs')
               /\ monitor'.phase = "check" => e.id # Missing
    <3>1. e \in monitor.todo /\ e.batch \in Batches
      BY DEF TodoKept, TypeOK, Entry
    <3> QED BY <1>1, <3>1 DEF IInv, IdsExist, TodoKept
  <2> QED BY <2>1, <2>2, <2>3 DEF IdsExist
<1>4. JobsProveRows'
  BY <1>1, SameJobs DEF IInv, JobsProveRows
<1>5. IdsAreOwn'
  BY <1>1, <1>2 DEF IInv, IdsAreOwn, TodoKept, Busy
<1>6. VerdictsHold'
  BY <1>1, <1>2 DEF IInv, VerdictsHold, Busy, Holds
<1>7. ProofsAreFresh'
  BY <1>1, <1>2 DEF IInv, ProofsAreFresh, TodoKept, Busy
<1> QED BY <1>3, <1>4, <1>5, <1>6, <1>7

\* Nothing is posted, jobs do not change their mind, and counters stay.
LEMMA SameContract ==
  ASSUME IInv, contract' = contract, sent' = sent, puts' = 0 => puts = 0,
         Len(jobs') >= Len(jobs), Len(jobs') \in Nat,
         \A j \in 1 .. Len(jobs) : /\ jobs'[j].batch = jobs[j].batch
                                   /\ jobs[j].status = "Ready" => jobs'[j].status = "Ready",
         \A b \in Batches : Exists(b) => Exists(b)' /\ row'[b].final = row[b].final
  PROVE  ContractIsSound'
<1>1. \A c \in contract \cup sent :
        c.proof \in 1 .. Len(jobs) /\ c.state \in Batches /\ Exists(c.state)
  BY DEF IInv, ContractIsSound, TypeOK
<1>2. Len(jobs) \in Nat
  BY DEF IInv, TypeOK
<1> QED BY <1>1, <1>2 DEF IInv, ContractIsSound

LEMMA SameMarks ==
  ASSUME IInv, UNCHANGED chain, monitor' = monitor, faults' = 0 => faults = 0,
         \A b \in Batches : row'[b].posted = row[b].posted
  PROVE  MarksAreRight'
BY DEF IInv, MarksAreRight, InContract, Mined, Current

-----------------------------------------------------------------------------
(***************************************************************************)
(* Rows.                                                                   *)
(***************************************************************************)

LEMMA CreateBatchStep ==
  ASSUME IInv, TypeOK', NEW b \in Batches, CreateBatch(b) PROVE IInv'
<1>1. /\ ~Exists(b) /\ Exists(b)'
      /\ row'[b].id = row[b].id /\ row'[b].posted = row[b].posted /\ row'[b].status = "pending"
      /\ row'[b].final = row'[b].prev + Amounts[b]
      /\ \A c \in Batches : c # b => row'[c] = row[c]
      /\ UNCHANGED <<commits, jobs, task, monitor, chain, faults, puts>>
  BY DEF CreateBatch, IInv, TypeOK, Exists
<1>2. \A c \in Batches : /\ Exists(c) => c # b /\ Exists(c)'
                         /\ row'[c].id = row[c].id /\ row'[c].posted = row[c].posted
  BY <1>1 DEF Exists
<1>3. IdsExist'
  BY <1>1, <1>2 DEF IInv, IdsExist, Busy, TypeOK, Entry, Exists
<1>4. JobsProveRows'
  <2>1. \A c \in Batches : Exists(c)' => row'[c].final = row'[c].prev + Amounts[c]
    BY <1>1 DEF IInv, JobsProveRows, Exists
  <2> QED BY <1>1, <1>2, <2>1, SameJobs
<1>5. IdsAreOwn'
  BY <1>1, <1>2 DEF IInv, IdsAreOwn, Busy
<1>6. VerdictsHold'
  BY <1>1, <1>2 DEF IInv, VerdictsHold, Busy, Holds
<1>7. ProofsAreFresh'
  BY <1>1, <1>2 DEF IInv, ProofsAreFresh, Busy
<1>8. ContractIsSound' /\ MarksAreRight'
  <2>1. Len(jobs) \in Nat
    BY DEF IInv, TypeOK
  <2> QED BY <1>1, <1>2, <2>1, SameContract, SameMarks
<1> QED BY <1>3, <1>4, <1>5, <1>6, <1>7, <1>8 DEF IInv

LEMMA StoreRootStep ==
  ASSUME IInv, TypeOK', NEW b \in Batches, StoreRoot(b) PROVE IInv'
<1>1. RowsKept /\ \A c \in Batches : row'[c].posted = row[c].posted
  BY DEF StoreRoot, RowsKept, IInv, TypeOK
<1>2. /\ TodoKept /\ Exists(b) /\ UNCHANGED <<jobs, monitor, chain, puts>>
      /\ faults' = 0 => faults = 0
  BY FaultType DEF StoreRoot, TodoKept, IInv, IdsExist, Fault
<1>3. IdsExist' /\ JobsProveRows' /\ IdsAreOwn' /\ VerdictsHold' /\ ProofsAreFresh'
  <2>1. CASE UNCHANGED task
    BY <1>1, <1>2, <2>1, TasksEnd
  <2>2. ASSUME NEW s \in Slots, Spawn(s, SubmitTask(b))
        PROVE  IdsExist' /\ JobsProveRows' /\ IdsAreOwn' /\ VerdictsHold' /\ ProofsAreFresh'
    <3>1. /\ SubmitTask(b) \in Task /\ SubmitTask(b).kind = "submit"
          /\ SubmitTask(b).pc = "call" /\ SubmitTask(b).batch = b /\ SubmitTask(b).id = Missing
      BY TaskTypes DEF SubmitTask, NoTask
    <3>2. Missing \in 0 .. Len(jobs)
      BY DEF Missing, IInv, TypeOK
    <3> QED BY <1>1, <1>2, <2>2, <3>1, <3>2, TaskBegins
  <2> QED BY <2>1, <2>2 DEF StoreRoot
<1>4. ContractIsSound' /\ MarksAreRight'
  <2>1. Len(jobs) \in Nat
    BY DEF IInv, TypeOK
  <2> QED BY <1>1, <1>2, <2>1, SameContract, SameMarks DEF RowsKept, Exists
<1> QED BY <1>3, <1>4 DEF IInv

LEMMA PutProofStep ==
  ASSUME IInv, TypeOK', NEW b \in Batches, NEW id \in 0 .. Len(jobs), NEW status \in PutStatuses,
         PutProof(b, id, status)
  PROVE  IInv'
<1>1. /\ row'[b].id = id /\ row'[b].status = status /\ Exists(b)
      /\ row'[b].prev = row[b].prev /\ row'[b].final = row[b].final
      /\ row'[b].posted = row[b].posted
      /\ \A c \in Batches : c # b => row'[c] = row[c]
      /\ UNCHANGED <<jobs, task, monitor, chain, faults>>
  BY DEF PutProof, IInv, TypeOK
<1>2. puts' # 0
  BY DEF PutProof, IInv, TypeOK
<1>3. status # "absent"
  BY ProofLifecycleAssumption
<1>4. \A c \in Batches : /\ Exists(c)' <=> Exists(c)
                         /\ row'[c].prev = row[c].prev /\ row'[c].final = row[c].final
                         /\ row'[c].posted = row[c].posted
  BY <1>1, <1>3 DEF Exists
<1>5. IdsExist'
  <2>1. \A c \in Batches : row'[c].id \in 0 .. Len(jobs') /\ (row'[c].rootless => Exists(c)')
    BY <1>1, <1>4 DEF IInv, IdsExist
  <2> QED BY <1>1, <1>4, <2>1 DEF IInv, IdsExist, Busy, TypeOK, Entry
<1>6. JobsProveRows'
  BY <1>1, <1>4, SameJobs DEF IInv, JobsProveRows
<1>7. IdsAreOwn' /\ ProofsAreFresh'
  BY <1>2 DEF IdsAreOwn, ProofsAreFresh
<1>8. VerdictsHold'
  BY <1>1, <1>2 DEF IInv, VerdictsHold, Busy, Holds
<1>9. ContractIsSound' /\ MarksAreRight'
  <2>1. Len(jobs) \in Nat
    BY DEF IInv, TypeOK
  <2> QED BY <1>1, <1>2, <1>4, <2>1, SameContract, SameMarks
<1> QED BY <1>5, <1>6, <1>7, <1>8, <1>9 DEF IInv

-----------------------------------------------------------------------------
(***************************************************************************)
(* Tasks and the prover.                                                   *)
(***************************************************************************)

LEMMA StartJobStep ==
  ASSUME IInv, TypeOK', NEW s \in Slots, StartJob(s) PROVE IInv'
<1> DEFINE b == task[s].batch
           n == Len(jobs) + 1
<1>1. /\ n \in Nat \ {0} /\ Len(jobs') = n /\ \A j \in 1 .. Len(jobs) : jobs'[j] = jobs[j]
      /\ jobs'[n].batch = b /\ jobs'[n].initial = InitialBalance(b)
      /\ jobs'[n].final = ProcessTransactions(InitialBalance(b), b)
  BY DEF StartJob, IInv, TypeOK
<1>2. /\ task'[s].kind = "submit" /\ task'[s].pc = "wait" /\ task'[s].id = n
      /\ task'[s].batch = b
      /\ \A u \in Slots : u # s => task'[u] = task[u]
      /\ UNCHANGED <<row, monitor, chain, faults, puts>>
  BY DEF StartJob, IInv, TypeOK
<1>3. b \in Batches /\ Exists(b)
  BY DEF StartJob, IInv, IdsExist, Busy
<1>4. IdsExist'
  <2>1. ASSUME NEW u \in Slots, Busy(u)'
        PROVE  /\ task'[u].batch \in Batches /\ Exists(task[u].batch)'
               /\ task'[u].batch = task[u].batch
               /\ task'[u].id \in 0 .. Len(jobs')
               /\ task'[u].kind = "check" \/ task'[u].pc = "wait" => task'[u].id # Missing
    <3>1. CASE u = s
      BY <1>1, <1>2, <1>3, <3>1 DEF Exists, Missing
    <3>2. CASE u # s
      BY <1>1, <1>2, <2>1, <3>2 DEF IInv, IdsExist, Busy, Exists
    <3> QED BY <3>1, <3>2
  <2> QED BY <1>1, <1>2, <2>1 DEF IInv, IdsExist, Exists
<1>5. JobsProveRows'
  <2>1. ASSUME NEW j \in 1 .. Len(jobs')
        PROVE  /\ Exists(jobs'[j].batch)
               /\ jobs'[j].initial = AsI32(row[jobs'[j].batch].prev)
               /\ jobs'[j].final = ProcessTransactions(jobs'[j].initial, jobs'[j].batch)
    <3>1. CASE j = n
      BY <1>1, <1>3, <3>1 DEF InitialBalance
    <3>2. CASE j # n
      <4>1. j \in 1 .. Len(jobs)
        BY <1>1, <3>2
      <4> QED BY <1>1, <4>1 DEF IInv, JobsProveRows
    <3> QED BY <3>1, <3>2
  <2> QED BY <1>2, <2>1 DEF IInv, JobsProveRows, Exists, ProcessTransactions
<1>6. \A i \in 0 .. Len(jobs) : i # Missing => i # n /\ jobs'[i] = jobs[i]
  BY <1>1 DEF Missing
<1>7. IdsAreOwn'
  BY <1>1, <1>2, <1>6 DEF IInv, IdsAreOwn, IdsExist, Busy
<1>8. VerdictsHold'
  BY <1>1, <1>2, <1>6 DEF IInv, VerdictsHold, IdsExist, Busy, Holds
<1>9. ProofsAreFresh'
  <2> SUFFICES ASSUME puts = 0, NEW u \in Slots, task'[u].kind = "submit", task'[u].id # Missing
               PROVE  /\ \A c \in Batches : row[c].id # task'[u].id
                      /\ \A t \in Slots : Busy(t)' /\ t # u => task'[t].id # task'[u].id
                      /\ \A e \in monitor.todo : e.id # task'[u].id
    BY <1>2 DEF ProofsAreFresh
  <2>1. /\ \A c \in Batches : row[c].id # n
        /\ \A t \in Slots : Busy(t) => task[t].id # n
        /\ \A e \in monitor.todo : e.id # n
    BY <1>1 DEF IInv, IdsExist
  <2>2. CASE u = s
    BY <1>2, <2>1, <2>2 DEF Busy
  <2>3. CASE u # s
    BY <1>2, <2>1, <2>3 DEF IInv, ProofsAreFresh, Busy
  <2> QED BY <2>2, <2>3
<1>10. ContractIsSound' /\ MarksAreRight'
  BY <1>1, <1>2, SameContract, SameMarks DEF Exists
<1> QED BY <1>4, <1>5, <1>7, <1>8, <1>9, <1>10 DEF IInv

\* StatusOf is true of the job at that moment.
LEMMA StatusHolds ==
  ASSUME NEW id, id # Missing PROVE Holds(StatusOf(jobs[id]), id)
BY DEF Holds, StatusOf

\* A task learns what to store: a status that is true of its proof, or none.
LEMMA TaskLearns ==
  ASSUME IInv, TypeOK', NEW s \in Slots, NEW t \in Task, Busy(s), task' = [task EXCEPT ![s] = t],
         t.kind = task[s].kind, t.batch = task[s].batch, t.pc = "store",
         t.id = task[s].id \/ (t.kind = "submit" /\ t.id = Missing),
         Holds(t.status, t.id), t.kind = "check" => t.status # "pending",
         UNCHANGED <<row, jobs, monitor, chain, puts>>, faults' = 0 => faults = 0
  PROVE  IInv'
<1>1. task'[s] = t /\ \A u \in Slots : u # s => task'[u] = task[u]
  BY DEF IInv, TypeOK
<1>2. \A c \in Batches : Exists(c)' <=> Exists(c)
  BY DEF Exists
<1>3. IdsExist'
  <2>1. ASSUME NEW u \in Slots, Busy(u)'
        PROVE  /\ task'[u].batch \in Batches /\ Exists(task[u].batch)'
               /\ task'[u].batch = task[u].batch
               /\ task'[u].id \in 0 .. Len(jobs)
               /\ task'[u].kind = "check" \/ task'[u].pc = "wait" => task'[u].id # Missing
    <3>1. CASE u = s
      <4>1. Missing \in 0 .. Len(jobs)
        BY DEF Missing, IInv, TypeOK
      <4> QED BY <1>1, <3>1, <4>1 DEF IInv, IdsExist, Exists, Busy
    <3>2. CASE u # s
      BY <1>1, <2>1, <3>2 DEF IInv, IdsExist, Busy, Exists
    <3> QED BY <3>1, <3>2
  <2> QED BY <2>1 DEF IInv, IdsExist, Exists
<1>4. JobsProveRows'
  BY <1>2, SameJobs DEF IInv, JobsProveRows
<1>5. IdsAreOwn'
  BY <1>1 DEF IInv, IdsAreOwn, Busy
<1>6. VerdictsHold'
  BY <1>1 DEF IInv, VerdictsHold, Busy, Holds
<1>7. ProofsAreFresh'
  BY <1>1 DEF IInv, ProofsAreFresh, Busy
<1>8. ContractIsSound' /\ MarksAreRight'
  <2>1. Len(jobs) \in Nat
    BY DEF IInv, TypeOK
  <2> QED BY <1>2, <2>1, SameContract, SameMarks
<1> QED BY <1>3, <1>4, <1>5, <1>6, <1>7, <1>8 DEF IInv

LEMMA ProverAnswersStep ==
  ASSUME IInv, TypeOK', NEW s \in Slots, ProverAnswers(s) PROVE IInv'
<1>1. Busy(s) /\ task[s].kind = "submit" /\ task[s].id # Missing /\ task[s] \in Task
  BY DEF ProverAnswers, IInv, IdsExist, Busy, TypeOK
<1>2. PICK status \in {"pending", "proven", "failed"} : status = StatusOf(jobs[task[s].id])
  BY DEF StatusOf
<1>3. PICK t \in Task : t = [task[s] EXCEPT !.pc = "store", !.status = status]
  BY <1>1, TaskUpdates
<1>4. /\ t.kind = task[s].kind /\ t.batch = task[s].batch /\ t.pc = "store"
      /\ t.id = task[s].id /\ t.status = status
  BY <1>1, <1>3 DEF Task
<1>5. /\ task' = [task EXCEPT ![s] = t]
      /\ UNCHANGED <<row, jobs, monitor, chain, puts>> /\ faults' = faults
  BY <1>2, <1>3 DEF ProverAnswers
<1>6. Holds(t.status, t.id)
  BY <1>1, <1>2, <1>4, StatusHolds
<1> QED BY ONLY IInv, TypeOK', <1>1, <1>4, <1>5, <1>6, TaskLearns

LEMMA CheckStatusStep ==
  ASSUME IInv, TypeOK', NEW s \in Slots, CheckStatus(s) PROVE IInv'
<1>1. /\ Busy(s) /\ task[s].kind = "check" /\ task[s].id # Missing /\ task[s] \in Task
      /\ UNCHANGED <<row, jobs, monitor, chain, puts>> /\ faults' = faults
  BY DEF CheckStatus, IInv, IdsExist, Busy, TypeOK
<1>2. PICK status \in {"pending", "proven", "failed"} : status = StatusOf(jobs[task[s].id])
  BY DEF StatusOf
<1>3. CASE status = "pending"
  <2>1. task' = [task EXCEPT ![s] = NoTask]
    BY <1>2, <1>3 DEF CheckStatus, Finish
  <2>2. IdsExist' /\ JobsProveRows' /\ IdsAreOwn' /\ VerdictsHold' /\ ProofsAreFresh'
    BY <1>1, <2>1, TasksEnd DEF RowsKept, TodoKept, IInv, TypeOK
  <2>3. Len(jobs) \in Nat
    BY DEF IInv, TypeOK
  <2>4. ContractIsSound' /\ MarksAreRight'
    BY <1>1, <2>3, SameContract, SameMarks DEF Exists
  <2> QED BY <2>2, <2>4 DEF IInv
<1>4. CASE status # "pending"
  <2>1. PICK t \in Task : t = [task[s] EXCEPT !.pc = "store", !.status = status]
    BY <1>1, TaskUpdates
  <2>2. /\ t.kind = task[s].kind /\ t.batch = task[s].batch /\ t.pc = "store"
        /\ t.id = task[s].id /\ t.status = status
    BY <1>1, <2>1 DEF Task
  <2>3. task' = [task EXCEPT ![s] = t]
    BY <1>2, <1>4, <2>1 DEF CheckStatus
  <2>4. Holds(t.status, t.id) /\ t.status # "pending"
    BY <1>1, <1>2, <1>4, <2>2, StatusHolds
  <2> QED BY ONLY IInv, TypeOK', <1>1, <2>2, <2>3, <2>4, TaskLearns
<1> QED BY <1>3, <1>4

LEMMA SubmissionFailsStep ==
  ASSUME IInv, TypeOK', NEW s \in Slots, SubmissionFails(s) PROVE IInv'
<1> DEFINE t == [task[s] EXCEPT !.pc = "store", !.id = Missing, !.status = "failed"]
<1>1. Busy(s) /\ task[s].kind = "submit" /\ task[s] \in Task
  BY DEF SubmissionFails, IInv, Busy, TypeOK
<1>2. /\ t \in Task /\ t.kind = task[s].kind /\ t.batch = task[s].batch /\ t.pc = "store"
      /\ t.id = Missing /\ t.status = "failed"
  BY <1>1 DEF Task, Missing
<1>3. /\ task' = [task EXCEPT ![s] = t]
      /\ UNCHANGED <<row, jobs, monitor, chain, puts>>
      /\ faults' = 0 => faults = 0
  BY FaultType DEF SubmissionFails, IInv, Fault
<1>4. Holds(t.status, t.id)
  BY <1>2 DEF Holds
<1> QED BY <1>1, <1>2, <1>3, <1>4, TaskLearns

LEMMA TaskFailsStep ==
  ASSUME IInv, TypeOK', NEW s \in Slots, TaskFails(s) PROVE IInv'
<1>1. /\ task' = [task EXCEPT ![s] = NoTask]
      /\ UNCHANGED <<row, jobs, monitor, chain, puts>>
      /\ faults' = 0 => faults = 0
  BY FaultType DEF TaskFails, Finish, IInv
<1>2. IdsExist' /\ JobsProveRows' /\ IdsAreOwn' /\ VerdictsHold' /\ ProofsAreFresh'
  BY <1>1, TasksEnd DEF RowsKept, TodoKept, IInv, TypeOK
<1>3. Len(jobs) \in Nat
  BY DEF IInv, TypeOK
<1>4. ContractIsSound' /\ MarksAreRight'
  BY <1>1, <1>3, SameContract, SameMarks DEF Exists
<1> QED BY <1>2, <1>4 DEF IInv

LEMMA StoreProofStep ==
  ASSUME IInv, TypeOK', NEW s \in Slots, StoreProof(s) PROVE IInv'
<1> DEFINE b == task[s].batch
<1>1. /\ Busy(s) /\ task[s].pc = "store" /\ b \in Batches /\ Exists(b)
      /\ task[s].id \in 0 .. Len(jobs)
      /\ task[s].status \in {"pending", "proven", "failed"}
  BY DEF StoreProof, IInv, IdsExist, Busy, TypeOK, Task
<1>2. /\ row'[b].id = task[s].id /\ row'[b].status = task[s].status
      /\ row'[b].prev = row[b].prev /\ row'[b].final = row[b].final
      /\ row'[b].posted = row[b].posted /\ row'[b].rootless = row[b].rootless
      /\ \A c \in Batches : c # b => row'[c] = row[c]
  BY <1>1 DEF StoreProof, IInv, TypeOK, Row
<1>3. /\ task'[s].kind = "none" /\ task'[s].id = Missing
      /\ \A u \in Slots : u # s => task'[u] = task[u]
      /\ UNCHANGED <<jobs, monitor, chain, faults, puts>>
  BY DEF StoreProof, Finish, NoTask, IInv, TypeOK
<1>4. \A c \in Batches : /\ Exists(c)' <=> Exists(c)
                         /\ row'[c].prev = row[c].prev /\ row'[c].final = row[c].final
                         /\ row'[c].posted = row[c].posted /\ row'[c].rootless = row[c].rootless
  BY <1>1, <1>2 DEF Exists
<1>5. IdsExist'
  <2>1. \A c \in Batches : row'[c].id \in 0 .. Len(jobs') /\ (row'[c].rootless => Exists(c)')
    BY <1>1, <1>2, <1>3, <1>4 DEF IInv, IdsExist
  <2> QED BY <1>3, <1>4, <2>1 DEF IInv, IdsExist, Busy, TypeOK, Entry
<1>6. JobsProveRows'
  BY <1>3, <1>4, SameJobs DEF IInv, JobsProveRows
<1>7. IdsAreOwn'
  BY <1>1, <1>2, <1>3 DEF IInv, IdsAreOwn, Busy
<1>8. VerdictsHold'
  <2>1. \A u \in Slots : Busy(u)' => u # s /\ task'[u] = task[u] /\ Busy(u)
    BY <1>3 DEF Busy
  <2>2. Holds(task[s].status, task[s].id)
    BY <1>1 DEF IInv, VerdictsHold
  <2>3. puts = 0 => \A c \in Batches : Holds(row[c].status, row[c].id)
    BY DEF IInv, VerdictsHold
  <2>4. puts' = 0 => \A c \in Batches : Holds(row'[c].status, row'[c].id)
    BY <1>2, <1>3, <2>2, <2>3
  <2> QED BY <1>3, <2>1, <2>4 DEF IInv, VerdictsHold, Holds
<1>9. ProofsAreFresh'
  BY <1>1, <1>2, <1>3 DEF IInv, ProofsAreFresh, Busy
<1>10. ContractIsSound' /\ MarksAreRight'
  <2>1. Len(jobs) \in Nat
    BY DEF IInv, TypeOK
  <2> QED BY <1>3, <1>4, <2>1, SameContract, SameMarks
<1> QED BY <1>5, <1>6, <1>7, <1>8, <1>9, <1>10 DEF IInv

LEMMA JobEndsStep ==
  ASSUME IInv, TypeOK', NEW j \in 1 .. Len(jobs), JobEnds(j) PROVE IInv'
<1>1. PICK status \in {"Ready", "Failed"} : jobs' = [jobs EXCEPT ![j].status = status]
  BY DEF JobEnds
<1>2. /\ Len(jobs') = Len(jobs)
      /\ \A i \in 1 .. Len(jobs) :
           /\ jobs'[i].batch = jobs[i].batch
           /\ jobs'[i].initial = jobs[i].initial /\ jobs'[i].final = jobs[i].final
           /\ i # j => jobs'[i] = jobs[i]
  BY <1>1 DEF IInv, TypeOK
<1>3. jobs[j].status = "InProgress" /\ UNCHANGED <<row, task, monitor, chain, faults, puts>>
  BY DEF JobEnds
<1>4. \A i \in 0 .. Len(jobs) : i # Missing =>
        /\ jobs'[i].batch = jobs[i].batch
        /\ jobs[i].status \in {"Ready", "Failed"} => jobs'[i].status = jobs[i].status
  <2>1. \A i \in 0 .. Len(jobs) : i # Missing => i \in 1 .. Len(jobs)
    BY DEF Missing, IInv, TypeOK
  <2> QED BY <1>2, <1>3, <2>1
<1>5. IdsExist'
  BY <1>2, <1>3 DEF IInv, IdsExist, Busy, Exists
<1>6. JobsProveRows'
  BY <1>2, <1>3, SameJobs DEF IInv, JobsProveRows, Exists
<1>7. IdsAreOwn'
  BY <1>3, <1>4 DEF IInv, IdsAreOwn, IdsExist, Busy
<1>8. VerdictsHold'
  BY <1>3, <1>4 DEF IInv, VerdictsHold, IdsExist, Busy, Holds
<1>9. ProofsAreFresh'
  BY <1>3 DEF IInv, ProofsAreFresh, Busy
<1>10. ContractIsSound' /\ MarksAreRight'
  <2>1. Len(jobs) \in Nat
    BY DEF IInv, TypeOK
  <2> QED BY <1>2, <1>3, <2>1, SameContract, SameMarks DEF Exists
<1> QED BY <1>5, <1>6, <1>7, <1>8, <1>9, <1>10 DEF IInv

-----------------------------------------------------------------------------
(***************************************************************************)
(* The monitor.                                                            *)
(***************************************************************************)

\* A query's result are rows of the table; those to be posted are not on the
\* contract, unless something has failed.
LEMMA QueryStep ==
  ASSUME IInv, TypeOK', NEW phase \in {"submit", "check", "post"},
         NEW n, NEW S \in SUBSET Batches, Query(phase, Rows(n, S)),
         \A b \in S : Exists(b),
         phase = "check" => \A b \in S : row[b].id # Missing,
         phase = "post" => \A b \in S : ~row[b].posted,
         monitor.phase # "mark"
  PROVE  IInv'
<1>1. /\ UNCHANGED <<row, commits, jobs, task, chain, puts>>
      /\ monitor'.phase = phase /\ (faults' = 0 => faults = 0)
      /\ monitor'.todo \subseteq Rows(n, S)
  BY FaultType DEF Query, Fault, IInv
<1>2. /\ \A e \in monitor'.todo : e.batch \in S /\ e.batch \in Batches /\ e.id = row[e.batch].id
      /\ \A e, f \in monitor'.todo : e.batch = f.batch => e = f
  <2>1. /\ \A e \in Rows(n, S) : e.batch \in S /\ e.id = row[e.batch].id
        /\ \A e, f \in Rows(n, S) : e.batch = f.batch => e = f
    BY RowsOfTable
  <2> QED BY <1>1, <2>1
<1>3. IdsExist'
  <2>1. \A e \in monitor'.todo : /\ Exists(e.batch) /\ e.id \in 0 .. Len(jobs)
                                 /\ monitor'.phase = "check" => e.id # Missing
    BY <1>1, <1>2 DEF IInv, IdsExist
  <2> QED BY <1>1, <2>1 DEF IInv, IdsExist, Busy, Exists
<1>4. JobsProveRows'
  BY <1>1, SameJobs DEF IInv, JobsProveRows, Exists
<1>5. IdsAreOwn'
  BY <1>1, <1>2 DEF IInv, IdsAreOwn, Busy
<1>6. VerdictsHold'
  BY <1>1 DEF IInv, VerdictsHold, Busy, Holds
<1>7. ProofsAreFresh'
  BY <1>1, <1>2 DEF IInv, ProofsAreFresh, Busy
<1>8. ContractIsSound'
  <2>1. Len(jobs) \in Nat
    BY DEF IInv, TypeOK
  <2> QED BY <1>1, <2>1, SameContract DEF Exists
<1>9. MarksAreRight'
  <2>1. \A b \in Batches : row[b].posted => Mined(b)
    BY DEF IInv, MarksAreRight
  <2>2. CASE phase = "post"
    BY <1>1, <1>2, <2>1, <2>2 DEF IInv, MarksAreRight, InContract, Mined
  <2>3. CASE phase # "post"
    BY <1>1, <1>2, <2>1, <2>3 DEF IInv, MarksAreRight, InContract, Mined
  <2> QED BY <2>2, <2>3
<1> QED BY <1>3, <1>4, <1>5, <1>6, <1>7, <1>8, <1>9 DEF IInv

LEMMA BeginStep == IInv /\ TypeOK' /\ (BeginSubmit \/ BeginCheck \/ BeginPost) => IInv'
<1> SUFFICES ASSUME IInv, TypeOK', BeginSubmit \/ BeginCheck \/ BeginPost PROVE IInv'
  OBVIOUS
<1>1. CASE BeginSubmit
  <2>1. PICK S \in SUBSET Batches : S = {b \in Batches : Exists(b) /\ row[b].id = Missing}
    OBVIOUS
  <2> QED BY <1>1, <2>1, QueryStep DEF BeginSubmit, MissingProof
<1>2. CASE BeginCheck
  <2>1. PICK S \in SUBSET Batches :
          S = {b \in Batches : row[b].status = "pending" /\ row[b].id # Missing}
    OBVIOUS
  <2> QED BY <1>2, <2>1, QueryStep DEF BeginCheck, PendingProof, Exists
<1>3. CASE BeginPost
  <2>1. PICK S \in SUBSET Batches :
          S = {b \in Batches : row[b].status = "proven" /\ ~row[b].posted}
    OBVIOUS
  <2> QED BY <1>3, <2>1, QueryStep DEF BeginPost, ProvenUnposted, Exists
<1> QED BY <1>1, <1>2, <1>3

LEMMA SpawnStep ==
  ASSUME IInv, TypeOK', NEW e \in monitor.todo, SpawnSubmission(e) \/ SpawnCheck(e) PROVE IInv'
<1>1. /\ UNCHANGED <<row, commits, jobs, chain, faults, puts>>
      /\ monitor'.phase = monitor.phase /\ monitor.phase \in {"submit", "check"}
      /\ monitor'.todo = monitor.todo \ {e}
  BY DEF SpawnSubmission, SpawnCheck, Done, IInv, TypeOK
<1>2. RowsKept /\ TodoKept
  BY <1>1 DEF RowsKept, TodoKept
<1>3. e.batch \in Batches /\ e.id \in Nat /\ Exists(e.batch) /\ e.id \in 0 .. Len(jobs)
  BY DEF IInv, TypeOK, Entry, IdsExist
<1>4. IdsExist' /\ JobsProveRows' /\ IdsAreOwn' /\ VerdictsHold' /\ ProofsAreFresh'
  <2>1. ASSUME NEW s \in Slots, Spawn(s, SubmitTask(e.batch))
        PROVE  IdsExist' /\ JobsProveRows' /\ IdsAreOwn' /\ VerdictsHold' /\ ProofsAreFresh'
    <3>1. PICK t \in Task : t = SubmitTask(e.batch)
      BY <1>3, TaskTypes
    <3>2. /\ t.kind = "submit" /\ t.pc = "call" /\ t.batch = e.batch /\ t.id = Missing
          /\ Missing \in 0 .. Len(jobs)
      BY <3>1 DEF SubmitTask, NoTask, Missing, IInv, TypeOK
    <3> QED BY <1>1, <1>2, <1>3, <2>1, <3>1, <3>2, TaskBegins
  <2>2. ASSUME NEW s \in Slots, Spawn(s, CheckTask(e.batch, e.id)), monitor.phase = "check"
        PROVE  IdsExist' /\ JobsProveRows' /\ IdsAreOwn' /\ VerdictsHold' /\ ProofsAreFresh'
    <3>1. PICK t \in Task : t = CheckTask(e.batch, e.id)
      BY <1>3, TaskTypes
    <3>2. t.kind = "check" /\ t.pc = "call" /\ t.batch = e.batch /\ t.id = e.id
      BY <3>1 DEF CheckTask, NoTask
    <3>3. e.id # Missing
      BY <2>2 DEF IInv, IdsExist
    <3>4. puts = 0 => /\ jobs[e.id].batch = e.batch
                      /\ \A u \in Slots : task[u].kind = "submit" => task[u].id # e.id
      BY <3>3 DEF IInv, IdsAreOwn, ProofsAreFresh
    <3> QED BY <1>1, <1>2, <1>3, <2>2, <3>1, <3>2, <3>3, <3>4, TaskBegins
  <2> QED BY <2>1, <2>2 DEF SpawnSubmission, SpawnCheck
<1>5. ContractIsSound'
  <2>1. Len(jobs) \in Nat
    BY DEF IInv, TypeOK
  <2> QED BY <1>1, <2>1, SameContract DEF Exists
<1>6. MarksAreRight'
  BY <1>1 DEF IInv, MarksAreRight, InContract, Mined
<1> QED BY <1>4, <1>5, <1>6 DEF IInv

\* The steps of the posting phase do not concern rows' proofs and tasks.
LEMMA PostingKeeps ==
  ASSUME IInv, TypeOK', NEW e \in monitor.todo,
         PostBatch(e) \/ PostRejected(e) \/ PostFails(e) \/ PostReverted(e) \/ MarkPosted(e)
  PROVE  IdsExist' /\ JobsProveRows' /\ IdsAreOwn' /\ VerdictsHold' /\ ProofsAreFresh'
<1>1. jobs' = jobs /\ puts' = puts /\ task' = task
  BY DEF PostBatch, PostRejected, PostFails, PostReverted, MarkPosted
<1>2. RowsKept
  <2>1. CASE row' = row
    BY <2>1 DEF RowsKept
  <2>2. CASE row' = [row EXCEPT ![e.batch].posted = TRUE]
    BY <2>2 DEF RowsKept, IInv, TypeOK, Row
  <2> QED BY <2>1, <2>2 DEF PostBatch, PostRejected, PostFails, PostReverted, MarkPosted
<1>3. TodoKept
  BY DEF PostBatch, PostRejected, PostFails, PostReverted, MarkPosted, Confirmed, Done, TodoKept, IInv, TypeOK
<1> QED BY <1>1, <1>2, <1>3, TasksEnd

LEMMA EndCycleStep == IInv /\ TypeOK' /\ EndCycle => IInv'
<1> SUFFICES ASSUME IInv, TypeOK', EndCycle PROVE IInv'
  OBVIOUS
<1>1. /\ UNCHANGED <<row, commits, jobs, task, chain, faults, puts>>
      /\ monitor.phase = "post" /\ monitor'.phase = "idle" /\ monitor'.todo = {}
  BY DEF EndCycle
<1>2. IdsExist' /\ JobsProveRows' /\ IdsAreOwn' /\ VerdictsHold' /\ ProofsAreFresh'
  BY <1>1, TasksEnd DEF RowsKept, TodoKept
<1>3. ContractIsSound'
  <2>1. Len(jobs) \in Nat
    BY DEF IInv, TypeOK
  <2> QED BY <1>1, <2>1, SameContract DEF Exists
<1>4. MarksAreRight'
  BY <1>1 DEF IInv, MarksAreRight, InContract, Mined
<1> QED BY <1>2, <1>3, <1>4 DEF IInv

LEMMA PostRejectedStep ==
  ASSUME IInv, TypeOK', NEW e \in monitor.todo, PostRejected(e) PROVE IInv'
<1>1. /\ UNCHANGED <<row, commits, jobs, task, chain, faults, puts>>
      /\ monitor.phase = "post" /\ monitor'.phase = "post" /\ monitor'.todo = monitor.todo \ {e}
  BY DEF PostRejected, Done, IInv, TypeOK
<1>2. ContractIsSound'
  <2>1. Len(jobs) \in Nat
    BY DEF IInv, TypeOK
  <2> QED BY <1>1, <2>1, SameContract DEF Exists
<1>3. MarksAreRight'
  BY <1>1 DEF IInv, MarksAreRight, InContract, Mined
<1> QED BY <1>2, <1>3, PostingKeeps DEF IInv

\* What is sent to the contract is the finished proof of the batch.
LEMMA NewRootIsSound ==
  ASSUME IInv, NEW e \in monitor.todo, ContractAccepts(e)
  PROVE  /\ NewRoot(e).proof \in 1 .. Len(jobs) /\ jobs[NewRoot(e).proof].status = "Ready"
         /\ Exists(NewRoot(e).state) /\ NewRoot(e).root = row[NewRoot(e).state].final
         /\ puts = 0 => jobs[NewRoot(e).proof].batch = NewRoot(e).state
         /\ \A c \in contract : c.proof # NewRoot(e).proof
<1>1. /\ e.id \in 1 .. Len(jobs) /\ jobs[e.id].status = "Ready" /\ Exists(e.batch)
      /\ puts = 0 => jobs[e.id].batch = e.batch
      /\ \A c \in contract : c.proof # e.id
  BY DEF ContractAccepts, OnContract, Missing, IInv, IdsExist, IdsAreOwn
<1> QED BY <1>1 DEF NewRoot

\* The contract gets it now, or later.
LEMMA UpdateIsSound ==
  ASSUME IInv, TypeOK', NEW e \in monitor.todo, ContractAccepts(e),
         UNCHANGED <<row, jobs, puts>>,
         \/ Update(e)
         \/ sent' = sent \cup {NewRoot(e)} /\ UNCHANGED contract
  PROVE  ContractIsSound'
<1> DEFINE new == NewRoot(e)
<1>1. \/ contract' = contract \cup {new} /\ sent' = sent
      \/ contract' = contract /\ sent' = sent \cup {new}
  BY DEF Update
<1>2. /\ new.proof \in 1 .. Len(jobs) /\ jobs[new.proof].status = "Ready"
      /\ Exists(new.state) /\ new.root = row[new.state].final
      /\ puts = 0 => jobs[new.proof].batch = new.state
      /\ \A c \in contract : c.proof # new.proof
  BY NewRootIsSound
<1> HIDE DEF new
<1> QED BY <1>1, <1>2 DEF IInv, ContractIsSound, Exists

LEMMA OneCurrent ==
  ASSUME IInv, NEW e, NEW f, Current(e), Current(f) PROVE e = f
<1>1. e \in monitor.todo /\ f \in monitor.todo /\ e.batch <= f.batch /\ f.batch <= e.batch
  BY DEF Current
<1>2. e.batch \in Batches /\ f.batch \in Batches
  BY <1>1 DEF IInv, TypeOK, Entry
<1>3. e.batch \in Int /\ f.batch \in Int
  <2>1. \A b \in Batches : b \in Int
    BY ProofLifecycleAssumption
  <2> QED BY <1>2, <2>1
<1>4. e.batch = f.batch
  BY <1>1, <1>3
<1> QED BY <1>1, <1>4 DEF IInv, MarksAreRight

LEMMA PostBatchStep ==
  ASSUME IInv, TypeOK', NEW e \in monitor.todo, PostBatch(e) PROVE IInv'
<1> DEFINE new == NewRoot(e)
<1>1. /\ UNCHANGED <<row, jobs, puts>> /\ faults' = faults /\ Current(e)
      /\ contract' = contract \cup {new} /\ new.state = e.batch
      /\ sent' = sent /\ reverted' = reverted
      /\ monitor.phase = "post"
      /\ IF CacheReady THEN monitor'.phase = "mark" /\ monitor'.todo = monitor.todo
                       ELSE monitor'.phase = "post" /\ monitor'.todo = monitor.todo \ {e}
  BY DEF PostBatch, Update, Confirmed, Done, NewRoot, IInv, TypeOK
<1> HIDE DEF new
<1>2. ContractIsSound'
  BY UpdateIsSound DEF PostBatch
<1>3. MarksAreRight'
  <2>1. \A b \in Batches : InContract(b)' <=> InContract(b) \/ b = e.batch
    BY <1>1 DEF InContract
  <2>2. e.batch \in Batches /\ \A f \in monitor.todo : f.batch \in Batches
    BY DEF IInv, TypeOK, Entry
  <2>3. \A f \in monitor.todo : f # e => f.batch # e.batch /\ ~Current(f)
    BY <1>1, OneCurrent DEF IInv, MarksAreRight
  <2>4. /\ \A f, g \in monitor'.todo : f.batch = g.batch => f = g
        /\ \A b \in Batches : row'[b].posted => Mined(b)'
    BY <1>1, <2>1 DEF IInv, MarksAreRight, Mined
  <2>5. ASSUME monitor'.phase = "mark"
        PROVE  \A f \in monitor'.todo : Current(f)' => Mined(f.batch)'
    BY <1>1, <2>1, <2>2, <2>3, <2>5 DEF Current, Mined
  <2>6. ASSUME CacheReady, faults' = 0
        PROVE  /\ \A c, d \in contract' : c.state = d.state => c = d
               /\ \A b \in Batches : InContract(b)' /\ ~row'[b].posted =>
                    monitor'.phase = "mark" /\ \E f \in monitor'.todo : Current(f)' /\ f.batch = b
               /\ monitor'.phase = "post" => \A f \in monitor'.todo : ~InContract(f.batch)'
               /\ monitor'.phase = "mark" =>
                    \A f \in monitor'.todo : ~Current(f)' => ~InContract(f.batch)'
    <3>1. /\ \A f \in monitor.todo : ~InContract(f.batch)
          /\ \A c, d \in contract : c.state = d.state => c = d
          /\ \A b \in Batches : InContract(b) => row[b].posted
      BY <1>1, <2>6 DEF IInv, MarksAreRight
    <3>2. \A f \in monitor.todo : Current(f)' <=> Current(f)
      BY <1>1, <2>6 DEF Current
    <3>3. \A c, d \in contract' : c.state = d.state => c = d
      BY <1>1, <3>1 DEF InContract
    <3>4. \A b \in Batches : InContract(b)' /\ ~row'[b].posted =>
             monitor'.phase = "mark" /\ \E f \in monitor'.todo : Current(f)' /\ f.batch = b
      BY <1>1, <2>1, <2>6, <3>1, <3>2
    <3>5. \A f \in monitor'.todo : ~Current(f)' => ~InContract(f.batch)'
      BY <1>1, <2>1, <2>2, <2>3, <2>6, <3>1, <3>2
    <3> QED BY <1>1, <2>6, <3>3, <3>4, <3>5
  <2>7. sent' # {} => faults' # 0
    BY <1>1 DEF IInv, MarksAreRight
  <2> QED BY <2>4, <2>5, <2>6, <2>7 DEF MarksAreRight
<1> QED BY <1>2, <1>3, PostingKeeps DEF IInv

\* A transaction that reverts leaves the contract alone.
LEMMA PostRevertedStep ==
  ASSUME IInv, TypeOK', NEW e \in monitor.todo, PostReverted(e) PROVE IInv'
<1>1. /\ UNCHANGED <<row, jobs, contract, sent, puts>> /\ faults' # 0 /\ Current(e)
      /\ reverted' = reverted \cup {e.batch}
      /\ monitor.phase = "post"
      /\ IF CacheReady THEN monitor'.phase = "mark" /\ monitor'.todo = monitor.todo
                       ELSE monitor'.phase = "post" /\ monitor'.todo = monitor.todo \ {e}
  BY FaultType DEF PostReverted, Confirmed, Done, IInv, TypeOK
<1>2. ContractIsSound'
  <2>1. Len(jobs) \in Nat
    BY DEF IInv, TypeOK
  <2> QED BY <1>1, <2>1, SameContract DEF Exists
<1>3. MarksAreRight'
  <2>1. \A f \in monitor.todo : f # e => ~Current(f)
    BY <1>1, OneCurrent
  <2>2. /\ \A f, g \in monitor'.todo : f.batch = g.batch => f = g
        /\ \A b \in Batches : row'[b].posted => Mined(b)'
    BY <1>1 DEF IInv, MarksAreRight, Mined, InContract
  <2>3. ASSUME monitor'.phase = "mark"
        PROVE  \A f \in monitor'.todo : Current(f)' => Mined(f.batch)'
    BY <1>1, <2>1, <2>3 DEF Current, Mined
  <2> QED BY <1>1, <2>2, <2>3 DEF MarksAreRight
<1> QED BY <1>2, <1>3, PostingKeeps DEF IInv

LEMMA PostFailsStep ==
  ASSUME IInv, TypeOK', NEW e \in monitor.todo, PostFails(e) PROVE IInv'
<1>1. /\ UNCHANGED <<row, jobs, puts>> /\ faults' # 0
      /\ contract \subseteq contract' /\ reverted' = reverted
      /\ monitor.phase = "post" /\ monitor'.phase = "post" /\ monitor'.todo = monitor.todo \ {e}
  BY FaultType DEF PostFails, Update, Done, IInv, TypeOK
<1>2. ContractIsSound'
  <2>1. CASE UNCHANGED chain
    <3>1. Len(jobs) \in Nat
      BY DEF IInv, TypeOK
    <3> QED BY <1>1, <2>1, <3>1, SameContract DEF Exists
  <2>2. CASE ContractAccepts(e) /\ Update(e)
    BY <1>1, <2>2, UpdateIsSound
  <2>3. CASE ContractAccepts(e) /\ sent' = sent \cup {NewRoot(e)} /\ UNCHANGED contract
    BY <1>1, <2>3, UpdateIsSound
  <2> QED BY <2>1, <2>2, <2>3 DEF PostFails
<1>3. MarksAreRight'
  BY <1>1 DEF IInv, MarksAreRight, InContract, Mined
<1> QED BY <1>2, <1>3, PostingKeeps DEF IInv

\* What is mined late is as sound as what is mined at once.
LEMMA LateUpdateStep ==
  ASSUME IInv, TypeOK', NEW c \in sent, LateUpdate(c) PROVE IInv'
<1>1. /\ UNCHANGED <<row, commits, jobs, task, monitor, reverted, faults, puts>>
      /\ faults # 0 /\ contract \subseteq contract'
      /\ \/ contract' = contract /\ sent' \subseteq sent
         \/ /\ contract' = contract \cup {c} /\ sent' \subseteq sent
            /\ \A d \in contract : d.proof # c.proof
  BY DEF LateUpdate, OnContract, IInv, MarksAreRight
<1>2. IdsExist' /\ JobsProveRows' /\ IdsAreOwn' /\ VerdictsHold' /\ ProofsAreFresh'
  BY <1>1, TasksEnd DEF RowsKept, TodoKept
<1>3. ContractIsSound'
  BY <1>1 DEF IInv, ContractIsSound, Exists
<1>4. MarksAreRight'
  <2>1. \A e \in monitor.todo : Current(e)' <=> Current(e)
    BY <1>1 DEF Current
  <2> QED BY <1>1, <2>1 DEF IInv, MarksAreRight, InContract, Mined
<1> QED BY <1>2, <1>3, <1>4 DEF IInv

LEMMA MarkPostedStep ==
  ASSUME IInv, TypeOK', NEW e \in monitor.todo, MarkPosted(e) PROVE IInv'
<1>1. /\ UNCHANGED <<jobs, chain, puts>> /\ Current(e) /\ e.batch \in Batches
      /\ monitor.phase = "mark" /\ monitor'.phase = "post" /\ monitor'.todo = monitor.todo \ {e}
  BY DEF MarkPosted, IInv, TypeOK, Entry
<1>2. /\ \A b \in Batches : row'[b].status = row[b].status /\ row'[b].final = row[b].final
      /\ \A b \in Batches : b # e.batch => row'[b].posted = row[b].posted
      /\ \/ row'[e.batch].posted /\ faults' = faults
         \/ row'[e.batch].posted = row[e.batch].posted /\ faults' # 0
  <2>1. CASE row' = [row EXCEPT ![e.batch].posted = TRUE] /\ UNCHANGED faults
    <3>1. row[e.batch] \in Row
      BY <1>1 DEF IInv, TypeOK
    <3>2. /\ row'[e.batch] = [row[e.batch] EXCEPT !.posted = TRUE]
          /\ \A b \in Batches : b # e.batch => row'[b] = row[b]
      BY <1>1, <2>1 DEF IInv, TypeOK
    <3>3. /\ row'[e.batch].posted
          /\ row'[e.batch].status = row[e.batch].status
          /\ row'[e.batch].final = row[e.batch].final
      BY <3>1, <3>2 DEF Row
    <3> QED BY <2>1, <3>2, <3>3
  <2>2. CASE UNCHANGED row /\ Fault
    BY <2>2, FaultType DEF IInv
  <2> QED BY <2>1, <2>2 DEF MarkPosted
<1>3. ContractIsSound'
  <2>1. Len(jobs) \in Nat
    BY DEF IInv, TypeOK
  <2> QED BY <1>1, <1>2, <2>1, SameContract DEF Exists
<1>4. MarksAreRight'
  <2>1. \A f \in monitor.todo : f # e => ~Current(f)
    BY <1>1, OneCurrent
  <2>2. \A b \in Batches : InContract(b)' <=> InContract(b)
    BY <1>1 DEF InContract
  <2>3. \A b \in Batches : row'[b].posted => Mined(b)'
    <3>1. Mined(e.batch)
      BY <1>1 DEF IInv, MarksAreRight
    <3> QED BY <1>1, <1>2, <2>2, <3>1 DEF IInv, MarksAreRight, Mined
  <2>4. \A f, g \in monitor'.todo : f.batch = g.batch => f = g
    BY <1>1 DEF IInv, MarksAreRight
  <2>5. ASSUME CacheReady, faults' = 0
        PROVE  /\ \A c, d \in contract' : c.state = d.state => c = d
               /\ \A b \in Batches : InContract(b)' => row'[b].posted
               /\ \A f \in monitor'.todo : ~InContract(f.batch)'
    <3>1. faults = 0 /\ row'[e.batch].posted
      BY <1>2, <2>5
    <3>2. /\ \A c, d \in contract : c.state = d.state => c = d
          /\ \A b \in Batches : InContract(b) /\ ~row[b].posted =>
               \E f \in monitor.todo : Current(f) /\ f.batch = b
          /\ \A f \in monitor.todo : ~Current(f) => ~InContract(f.batch)
      BY <1>1, <2>5, <3>1 DEF IInv, MarksAreRight
    <3>3. \A b \in Batches : InContract(b)' => row'[b].posted
      BY <1>2, <2>1, <2>2, <3>1, <3>2
    <3>4. \A f \in monitor'.todo : ~InContract(f.batch)'
      BY <1>1, <2>1, <3>2 DEF InContract
    <3> QED BY <1>1, <3>2, <3>3, <3>4
  <2>6. sent' # {} => faults' # 0
    BY <1>1, <1>2 DEF IInv, MarksAreRight
  <2> QED BY <1>1, <2>3, <2>4, <2>5, <2>6 DEF MarksAreRight
<1> QED BY <1>3, <1>4, PostingKeeps DEF IInv

LEMMA CrashStep == IInv /\ TypeOK' /\ Crash => IInv'
<1> SUFFICES ASSUME IInv, TypeOK', Crash PROVE IInv'
  OBVIOUS
<1>1. /\ UNCHANGED <<jobs, chain, puts>> /\ faults' # 0
      /\ monitor'.phase = "idle" /\ monitor'.todo = {}
      /\ \A s \in Slots : task'[s] = NoTask
  BY FaultType DEF Crash, IInv
<1>2. RowsKept /\ \A b \in Batches : row'[b].posted = row[b].posted
  BY DEF Crash, RowsKept, IInv, TypeOK, Row
<1>3. IdsExist' /\ JobsProveRows' /\ IdsAreOwn' /\ VerdictsHold' /\ ProofsAreFresh'
  BY <1>1, <1>2, TasksEnd DEF TodoKept
<1>4. ContractIsSound'
  <2>1. Len(jobs) \in Nat
    BY DEF IInv, TypeOK
  <2> QED BY <1>1, <1>2, <2>1, SameContract DEF RowsKept, Exists
<1>5. MarksAreRight'
  BY <1>1, <1>2 DEF IInv, MarksAreRight, InContract, Mined
<1> QED BY <1>3, <1>4, <1>5 DEF IInv

-----------------------------------------------------------------------------
(***************************************************************************)
(* 32-bit words: "as i32" forgets multiples of a word.                     *)
(***************************************************************************)

LEMMA WordType == Word \in Nat /\ Word >= 1 /\ Word \div 2 \in Int
BY ProofLifecycleAssumption

LEMMA ModBounds == ASSUME NEW x \in Int PROVE x % Word \in 0 .. Word - 1
BY WordType

LEMMA Division ==
  ASSUME NEW x \in Int PROVE x \div Word \in Int /\ x = Word * (x \div Word) + (x % Word)
BY WordType

LEMMA ProductGrows == ASSUME NEW d \in Int, d >= 1 PROVE Word * d >= Word
BY WordType

LEMMA OneQuotient ==
  ASSUME NEW q \in Int, NEW p \in Int, NEW r \in 0 .. Word - 1, NEW s \in 0 .. Word - 1,
         Word * q + r = Word * p + s
  PROVE  r = s
<1>1. Word * (q - p) = s - r
  BY WordType
<1>2. ~(q - p >= 1)
  BY <1>1, ProductGrows, WordType
<1>3. ~(p - q >= 1)
  <2>1. Word * (p - q) = r - s
    BY WordType
  <2> QED BY <2>1, ProductGrows, WordType
<1>4. q = p
  BY <1>2, <1>3
<1> QED BY <1>4, WordType

LEMMA ModShift ==
  ASSUME NEW x \in Int, NEW k \in Int PROVE (x + Word * k) % Word = x % Word
<1>1. x = Word * (x \div Word) + (x % Word) /\ x \div Word \in Int
  BY Division
<1>2. PICK y \in Int : y = x + Word * k
  BY WordType
<1>3. y = Word * (y \div Word) + (y % Word) /\ y \div Word \in Int
  BY Division
<1>4. y = Word * ((x \div Word) + k) + (x % Word) /\ (x \div Word) + k \in Int
  BY <1>1, <1>2, WordType
<1>5. x % Word \in 0 .. Word - 1 /\ y % Word \in 0 .. Word - 1
  BY ModBounds
<1> QED BY <1>2, <1>3, <1>4, <1>5, OneQuotient

LEMMA AsI32Shift == ASSUME NEW x \in Int PROVE \E k \in Int : AsI32(x) = x + Word * k
<1> DEFINE h == Word \div 2
           q == (x + h) \div Word
<1>1. h \in Int
  BY WordType
<1>2. x + h = Word * q + ((x + h) % Word) /\ q \in Int
  BY <1>1, Division
<1>3. AsI32(x) = ((x + h) % Word) - h
  BY DEF AsI32
<1>4. (x + h) % Word \in Int
  BY <1>1, ModBounds
<1> HIDE DEF h, q
<1>5. AsI32(x) = x + Word * (-q)
  BY <1>1, <1>2, <1>3, <1>4, WordType
<1> QED BY <1>2, <1>5

LEMMA AsI32Period ==
  ASSUME NEW x \in Int, NEW k \in Int PROVE AsI32(x + Word * k) = AsI32(x)
<1>1. PICK h \in Int : h = Word \div 2
  BY WordType
<1>2. ((x + h) + Word * k) % Word = (x + h) % Word
  BY ModShift
<1>3. (x + Word * k) + h = (x + h) + Word * k
  BY WordType
<1> QED BY <1>1, <1>2, <1>3 DEF AsI32

\* Truncating before an addition or after it makes no difference.
LEMMA TruncateFirst ==
  ASSUME NEW x \in Int, NEW a \in Int PROVE AsI32(AsI32(x) + a) = AsI32(x + a)
<1>1. PICK k \in Int : AsI32(x) = x + Word * k
  BY AsI32Shift
<1>2. AsI32(x) + a = (x + a) + Word * k
  BY <1>1, WordType
<1>3. AsI32((x + a) + Word * k) = AsI32(x + a)
  BY AsI32Period
<1> QED BY <1>2, <1>3

LEMMA TruncationIsCongruent == ASSUME NEW x \in Int PROVE (AsI32(x) - x) % Word = 0
<1>1. PICK k \in Int : AsI32(x) = x + Word * k
  BY AsI32Shift
<1>2. AsI32(x) - x = 0 + Word * k
  BY <1>1, WordType
<1>3. (0 + Word * k) % Word = 0 % Word
  BY ModShift
<1>4. 0 % Word = 0
  BY WordType
<1> QED BY <1>2, <1>3, <1>4

\* A job computes the counter after its batch, as far as a word can hold it.
LEMMA JobsComputeFinals ==
  ASSUME IInv, NEW j \in 1 .. Len(jobs), NEW b \in Batches, jobs[j].batch = b
  PROVE  /\ jobs[j].initial = AsI32(row[b].prev)
         /\ jobs[j].final = AsI32(row[b].final)
<1>1. /\ Exists(b) /\ jobs[j].initial = AsI32(row[b].prev)
      /\ jobs[j].final = AsI32(AsI32(row[b].prev) + Amounts[b])
  BY DEF IInv, JobsProveRows, ProcessTransactions
<1>2. row[b].prev \in Int /\ row[b].final = row[b].prev + Amounts[b]
  BY <1>1 DEF IInv, JobsProveRows, TypeOK, Row
<1>3. Amounts[b] \in Int
  BY ProofLifecycleAssumption
<1> QED BY <1>1, <1>2, <1>3, TruncateFirst

-----------------------------------------------------------------------------
(***************************************************************************)
(* The theorems.                                                           *)
(***************************************************************************)

LEMMA InitIInv == Init => IInv
<1> SUFFICES ASSUME Init PROVE IInv
  OBVIOUS
<1> USE DEF Init
<1>1. TypeOK
  <2>1. row \in [Batches -> Row]
    BY DEF Row, Missing
  <2>2. task \in [Slots -> Task]
    BY TaskTypes
  <2>3. jobs \in Seq(Job) /\ commits \subseteq Commit
    OBVIOUS
  <2>4. faults \in 0 .. MaxDisturbances /\ puts \in 0 .. MaxDisturbances
    BY ProofLifecycleAssumption
  <2> QED BY <2>1, <2>2, <2>3, <2>4 DEF TypeOK
<1>2. \A b \in Batches : ~Exists(b) /\ row[b].id = Missing /\ ~row[b].rootless /\ ~row[b].posted
  BY DEF Exists
<1>3. \A s \in Slots : task[s] = NoTask /\ ~Busy(s)
  BY DEF Busy, NoTask
<1>4. IdsExist /\ IdsAreOwn
  BY <1>2, <1>3 DEF IdsExist, IdsAreOwn, Missing
<1>5. JobsProveRows
  BY <1>2 DEF JobsProveRows
<1>6. VerdictsHold
  BY <1>3 DEF VerdictsHold, Holds
<1>7. ProofsAreFresh
  BY <1>3 DEF ProofsAreFresh, NoTask
<1>8. ContractIsSound
  BY DEF ContractIsSound
<1>9. MarksAreRight
  BY <1>2 DEF MarksAreRight, InContract, Mined
<1> QED BY <1>1, <1>4, <1>5, <1>6, <1>7, <1>8, <1>9 DEF IInv

LEMMA Step == IInv /\ [Next]_vars => IInv'
<1> SUFFICES ASSUME IInv, [Next]_vars PROVE IInv'
  OBVIOUS
<1>1. CASE UNCHANGED vars
  <2>1. UNCHANGED <<row, commits, jobs, task, monitor, chain, faults, puts>>
    BY <1>1 DEF vars
  <2>2. TypeOK'
    BY <2>1 DEF IInv, TypeOK
  <2>3. RowsKept /\ TodoKept
    BY <2>1 DEF RowsKept, TodoKept
  <2>4. Len(jobs) \in Nat
    BY DEF IInv, TypeOK
  <2>5. IdsExist' /\ JobsProveRows' /\ IdsAreOwn' /\ VerdictsHold' /\ ProofsAreFresh'
    BY <2>1, <2>2, <2>3, TasksEnd
  <2>6. ContractIsSound' /\ MarksAreRight'
    BY <2>1, <2>4, SameContract, SameMarks DEF Exists
  <2> QED BY <2>2, <2>5, <2>6 DEF IInv
<1>2. CASE Next
  <2>1. TypeOK'
    BY <1>2, TypeStep DEF IInv
  <2>2. ASSUME NEW b \in Batches, CreateBatch(b) \/ StoreRoot(b) PROVE IInv'
    BY <2>1, <2>2, CreateBatchStep, StoreRootStep
  <2>3. ASSUME NEW b \in Batches, NEW id \in 0 .. Len(jobs), NEW status \in PutStatuses,
               PutProof(b, id, status)
        PROVE  IInv'
    BY <2>1, <2>3, PutProofStep
  <2>4. ASSUME NEW s \in Slots, TaskSteps(s) \/ SubmissionFails(s) \/ TaskFails(s) PROVE IInv'
    BY <2>1, <2>4, StartJobStep, ProverAnswersStep, CheckStatusStep, StoreProofStep,
       SubmissionFailsStep, TaskFailsStep DEF TaskSteps
  <2>5. ASSUME NEW j \in 1 .. Len(jobs), JobEnds(j) PROVE IInv'
    BY <2>1, <2>5, JobEndsStep
  <2>6. CASE BeginSubmit \/ BeginCheck \/ BeginPost \/ EndCycle
    BY <2>1, <2>6, BeginStep, EndCycleStep
  <2>7. ASSUME NEW e \in monitor.todo, LoopStep(e) \/ PostFails(e) \/ PostReverted(e)
        PROVE  IInv'
    BY <2>1, <2>7, SpawnStep, PostBatchStep, PostRejectedStep, MarkPostedStep, PostFailsStep,
       PostRevertedStep
    DEF LoopStep
  <2>8. CASE Crash
    BY <2>1, <2>8, CrashStep
  <2>9. ASSUME NEW c \in sent, LateUpdate(c) PROVE IInv'
    BY <2>1, <2>9, LateUpdateStep
  <2> QED BY <1>2, <2>2, <2>3, <2>4, <2>5, <2>6, <2>7, <2>8, <2>9 DEF Next, MonitorSteps
<1> QED BY <1>1, <1>2

\* The invariant holds in every reachable state.
THEOREM Invariance == Spec => []IInv
BY InitIInv, Step, PTL DEF Spec

\* The variables have their types.
THEOREM TypeCorrect == Spec => []TypeOK
<1>1. IInv => TypeOK
  BY DEF IInv
<1> QED BY <1>1, Invariance, PTL

\* Late answers of the prover, stored by an UPDATE without a condition, take no
\* verdict back: the tasks that store an answer for a proof that a row already
\* has are those that ask for a verdict, and a job has only one.
THEOREM VerdictsLast == Spec => VerdictsAreFinal
<1>1. IInv /\ [Next]_vars =>
        [puts' = 0 => \A b \in Batches :
           (row[b].id # Missing /\ row'[b].id = row[b].id
              /\ row[b].status \in {"proven", "failed"})
              => row'[b].status = row[b].status]_row
  <2> SUFFICES ASSUME IInv, [Next]_vars, row' # row, puts' = 0, NEW b \in Batches,
                      row[b].id # Missing, row'[b].id = row[b].id,
                      row[b].status \in {"proven", "failed"}, row'[b].status # row[b].status
               PROVE  FALSE
    OBVIOUS
  <2>1. PICK s \in Slots : StoreProof(s)
    <3>1. ASSUME NEW c \in Batches, CreateBatch(c) \/ StoreRoot(c) PROVE FALSE
      BY <3>1 DEF CreateBatch, StoreRoot, Exists, IInv, TypeOK, Row
    <3>2. ASSUME NEW c \in Batches, NEW id, NEW status, PutProof(c, id, status) PROVE FALSE
      BY <3>2 DEF PutProof, IInv, TypeOK
    <3>3. ASSUME NEW e \in monitor.todo, MarkPosted(e) PROVE FALSE
      <4>1. row' = [row EXCEPT ![e.batch].posted = TRUE]
        BY <3>3 DEF MarkPosted
      <4>2. row[b] \in Row /\ b \in DOMAIN row
        BY DEF IInv, TypeOK
      <4>3. row'[b] = row[b] \/ row'[b] = [row[b] EXCEPT !.posted = TRUE]
        BY <4>1, <4>2
      <4> QED BY <4>2, <4>3 DEF Row
    <3>4. ~Crash
      BY DEF Crash, IInv, TypeOK, Row
    <3> QED
      BY <3>1, <3>2, <3>3, <3>4
      DEF Next, vars, TaskSteps, MonitorSteps, LoopStep, StartJob, ProverAnswers, CheckStatus,
          SubmissionFails, TaskFails, JobEnds, BeginSubmit, BeginCheck, BeginPost, Query, EndCycle,
          SpawnSubmission, SpawnCheck, PostBatch, PostRejected, PostFails, PostReverted, LateUpdate
  <2>2. puts = 0 /\ Busy(s) /\ task[s].pc = "store"
    BY <2>1 DEF StoreProof, Busy
  <2>3. b = task[s].batch /\ task[s].id = row[b].id /\ task[s].status # row[b].status
    BY <2>1 DEF StoreProof, IInv, TypeOK
  <2>4. task[s].kind = "check"
    BY <2>2, <2>3 DEF IInv, ProofsAreFresh, Busy, TypeOK, Task
  <2>5. Holds(task[s].status, task[s].id) /\ Holds(row[b].status, row[b].id)
        /\ task[s].status \in {"proven", "failed"}
    BY <2>2, <2>4 DEF IInv, VerdictsHold, TypeOK, Task
  <2> QED BY <2>3, <2>5 DEF Holds
<1> QED BY <1>1, Invariance, PTL DEF Spec, VerdictsAreFinal

\* With the client's cache in place, what is marked was mined, and what is on
\* the contract is marked, once, unless something has failed.
THEOREM MarksTrackContract == CacheReady /\ Spec => []PostedTracksContract
<1>1. ASSUME CacheReady PROVE IInv => PostedTracksContract
  BY <1>1 DEF IInv, MarksAreRight, PostedTracksContract, InContract, Mined
<1> SUFFICES ASSUME CacheReady PROVE Spec => []PostedTracksContract
  OBVIOUS
<1>2. IInv => PostedTracksContract
  BY <1>1
<1> QED BY <1>2, Invariance, PTL

\* Whichever tasks overwrite a row, its proof is one for this very batch and
\* its status how the proof ended; the proof of a proven row verifies.
THEOREM RowsAreTrue == Spec => []RowsTellTheTruth
<1>1. IInv => RowsTellTheTruth
  <2> SUFFICES ASSUME IInv, puts = 0, NEW b \in Batches
               PROVE  LET id == row[b].id
                      IN  /\ id # Missing => id <= Len(jobs) /\ jobs[id].batch = b
                          /\ row[b].status = "proven" =>
                               /\ id # Missing
                               /\ VerifySindriProof(id, AsI32(row[b].prev), AsI32(row[b].final))
                          /\ row[b].status = "failed" /\ id # Missing => jobs[id].status = "Failed"
    BY DEF RowsTellTheTruth
  <2> DEFINE id == row[b].id
  <2>1. id \in 0 .. Len(jobs) /\ Len(jobs) \in Nat
    BY DEF IInv, IdsExist, TypeOK
  <2>2. id # Missing => id \in 1 .. Len(jobs) /\ jobs[id].batch = b
    BY <2>1 DEF IInv, IdsAreOwn, Missing
  <2>3. Holds(row[b].status, id)
    BY DEF IInv, VerdictsHold
  <2>4. ASSUME row[b].status = "proven"
        PROVE  id # Missing /\ VerifySindriProof(id, AsI32(row[b].prev), AsI32(row[b].final))
    <3>1. id # Missing /\ jobs[id].status = "Ready"
      BY <2>3, <2>4 DEF Holds
    <3> QED BY <2>2, <3>1, JobsComputeFinals DEF VerifySindriProof
  <2> QED BY <2>1, <2>2, <2>3, <2>4 DEF Holds
<1> QED BY <1>1, Invariance, PTL

\* A root on the contract is the one that its proof proves, up to a word.
THEOREM PostedRootsProven == Spec => []PostedRootsAreProven
<1>1. IInv => PostedRootsAreProven
  <2> SUFFICES ASSUME IInv PROVE PostedRootsAreProven
    OBVIOUS
  <2>1. ASSUME NEW c \in contract, puts = 0
        PROVE  /\ jobs[c.proof].batch = c.state
               /\ (jobs[c.proof].initial - row[c.state].prev) % Word = 0
               /\ (jobs[c.proof].final - c.root) % Word = 0
    <3>1. /\ c.proof \in 1 .. Len(jobs) /\ jobs[c.proof].batch = c.state
          /\ c.root = row[c.state].final /\ c.state \in Batches
      BY <2>1 DEF IInv, ContractIsSound, TypeOK
    <3>2. row[c.state].prev \in Int /\ row[c.state].final \in Int
      BY <3>1 DEF IInv, TypeOK, Row
    <3>3. /\ jobs[c.proof].initial = AsI32(row[c.state].prev)
          /\ jobs[c.proof].final = AsI32(row[c.state].final)
      BY <3>1, JobsComputeFinals
    <3> QED BY <3>1, <3>2, <3>3, TruncationIsCongruent
  <2> QED BY <2>1 DEF PostedRootsAreProven, IInv, ContractIsSound
<1> QED BY <1>1, Invariance, PTL

-----------------------------------------------------------------------------
(***************************************************************************)
(* What clients read.                                                      *)
(***************************************************************************)

\* Roots are stored for the batches they belong to, unless set by hand.
RootsAreOwn == puts = 0 => \A c \in commits : Exists(c.batch) /\ c.root = c.batch

\* Every batch continues an earlier one or begins with 0.
CountersContinue ==
  \A b \in Batches : Exists(b) /\ row[b].prev # 0 =>
    \E c \in Batches : c < b /\ Exists(c) /\ row[c].final = row[b].prev

RootsInv == RootsAreOwn /\ CountersContinue

LEMMA RootsStep == IInv /\ RootsInv /\ [Next]_vars => RootsInv'
<1> SUFFICES ASSUME IInv, RootsInv, [Next]_vars PROVE RootsInv'
  OBVIOUS
<1> DEFINE Counters(b) == row'[b].prev = row[b].prev /\ row'[b].final = row[b].final
<1>1. ASSUME \A b \in Batches : (Exists(b)' <=> Exists(b)) /\ Counters(b)
      PROVE  CountersContinue'
  BY <1>1 DEF RootsInv, CountersContinue
<1>2. ASSUME \A b \in Batches : Exists(b) => Exists(b)', commits' = commits, puts' = puts
      PROVE  RootsAreOwn'
  BY <1>2 DEF RootsInv, RootsAreOwn, IInv, TypeOK, Commit
<1>3. ASSUME UNCHANGED <<row, commits, puts>> PROVE RootsInv'
  BY <1>1, <1>2, <1>3 DEF RootsInv, Exists
<1>4. ASSUME NEW b \in Batches, CreateBatch(b) PROVE RootsInv'
  <2>1. PICK prev \in {0} \cup {row[c].final : c \in {c \in Batches : Exists(c) /\ c < b}} :
          row' = [row EXCEPT ![b].status = "pending", ![b].prev = prev,
                             ![b].final = prev + Amounts[b], ![b].rootless = TRUE]
    BY <1>4 DEF CreateBatch
  <2>2. /\ ~Exists(b) /\ Exists(b)' /\ row'[b].prev = prev
        /\ \A c \in Batches : c # b => row'[c] = row[c]
    <3>1. row[b] \in Row /\ b \in DOMAIN row /\ ~Exists(b)
      BY <1>4 DEF CreateBatch, IInv, TypeOK
    <3>2. /\ row'[b] = [row[b] EXCEPT !.status = "pending", !.prev = prev,
                                      !.final = prev + Amounts[b], !.rootless = TRUE]
          /\ \A c \in Batches : c # b => row'[c] = row[c]
      <4> DEFINE r == [row[b] EXCEPT !.status = "pending", !.prev = prev,
                                     !.final = prev + Amounts[b], !.rootless = TRUE]
      <4>1. row' = [row EXCEPT ![b] = r]
        BY <2>1
      <4>2. row \in [Batches -> Row]
        BY DEF IInv, TypeOK
      <4> HIDE DEF r
      <4>3. row'[b] = r /\ \A c \in Batches : c # b => row'[c] = row[c]
        BY ONLY <4>1, <4>2
      <4> QED BY <4>3 DEF r
    <3>3. row'[b].status = "pending" /\ row'[b].prev = prev
      BY <3>1, <3>2 DEF Row
    <3> QED BY <3>1, <3>2, <3>3 DEF Exists
  <2>3. \A c \in Batches : Exists(c) => Exists(c)' /\ Counters(c)
    BY <2>2 DEF Exists
  <2>4. CountersContinue'
    <3>1. ASSUME NEW c \in Batches, Exists(c)', row'[c].prev # 0
          PROVE  \E d \in Batches : d < c /\ Exists(d) /\ row[d].final = row'[c].prev
      <4>1. CASE c = b
        BY <2>2, <3>1, <4>1
      <4>2. CASE c # b
        BY <2>2, <3>1, <4>2 DEF RootsInv, CountersContinue, Exists
      <4> QED BY <4>1, <4>2
    <3> QED BY <2>3, <3>1 DEF CountersContinue
  <2> QED BY <1>2, <1>4, <2>3, <2>4 DEF CreateBatch, RootsInv
<1>5. ASSUME NEW b \in Batches, StoreRoot(b) PROVE RootsInv'
  <2>1. \A c \in Batches : (Exists(c)' <=> Exists(c)) /\ Counters(c)
    BY <1>5 DEF StoreRoot, Exists, IInv, TypeOK, Row
  <2>2. RootsAreOwn'
    <3>1. commits' = commits \cup {[batch |-> b, root |-> b]} \/ commits' = commits
      BY <1>5 DEF StoreRoot
    <3>2. Exists(b) /\ puts' = puts
      BY <1>5 DEF StoreRoot, IInv, IdsExist
    <3> QED BY <2>1, <3>1, <3>2 DEF RootsInv, RootsAreOwn, IInv, TypeOK, Commit
  <2> QED BY <1>1, <2>1, <2>2 DEF RootsInv
<1>6. ASSUME NEW b \in Batches, NEW id \in 0 .. Len(jobs), NEW status \in PutStatuses,
             PutProof(b, id, status)
      PROVE  RootsInv'
  <2>1. status # "absent"
    BY ProofLifecycleAssumption
  <2>2. \A c \in Batches : (Exists(c)' <=> Exists(c)) /\ Counters(c)
    BY <1>6, <2>1 DEF PutProof, Exists, IInv, TypeOK, Row
  <2>3. puts' # 0
    BY <1>6 DEF PutProof, IInv, TypeOK
  <2> QED BY <1>1, <2>2, <2>3 DEF RootsInv, RootsAreOwn
<1>7. ASSUME NEW s \in Slots, StoreProof(s) PROVE RootsInv'
  <2>1. Exists(task[s].batch) /\ task[s].status # "absent"
    BY <1>7 DEF StoreProof, IInv, IdsExist, Busy, TypeOK, Task
  <2>2. \A c \in Batches : (Exists(c)' <=> Exists(c)) /\ Counters(c)
    BY <1>7, <2>1 DEF StoreProof, Exists, IInv, TypeOK
  <2> QED BY <1>1, <1>2, <1>7, <2>2 DEF StoreProof, RootsInv
<1>8. ASSUME NEW e \in monitor.todo, MarkPosted(e) PROVE RootsInv'
  <2>1. \A c \in Batches : (Exists(c)' <=> Exists(c)) /\ Counters(c)
    <3>1. ASSUME NEW c \in Batches
          PROVE  row'[c] = row[c] \/ row'[c] = [row[c] EXCEPT !.posted = TRUE]
      BY <1>8 DEF MarkPosted, IInv, TypeOK
    <3>2. \A c \in Batches : row[c] \in Row
      BY DEF IInv, TypeOK
    <3> QED BY <3>1, <3>2 DEF Exists, Row
  <2> QED BY <1>1, <1>2, <1>8, <2>1 DEF MarkPosted, RootsInv
<1>9. CASE Crash
  <2>1. \A c \in Batches : (Exists(c)' <=> Exists(c)) /\ Counters(c)
    BY <1>9 DEF Crash, Exists, IInv, TypeOK, Row
  <2> QED BY <1>1, <1>2, <1>9, <2>1 DEF Crash, RootsInv
<1> QED
  BY <1>3, <1>4, <1>5, <1>6, <1>7, <1>8, <1>9
  DEF Next, vars, TaskSteps, MonitorSteps, LoopStep, StartJob, ProverAnswers, CheckStatus,
      SubmissionFails, TaskFails, JobEnds, BeginSubmit, BeginCheck, BeginPost, Query, EndCycle,
      SpawnSubmission, SpawnCheck, PostBatch, PostRejected, PostFails, PostReverted, LateUpdate

\* ORDER BY id DESC LIMIT 1 finds a row, if there is one.
LEMMA NewestIsNewest ==
  ASSUME NEW S \in SUBSET Batches, S # {}
  PROVE  Newest(S) \in S /\ \A c \in S : c <= Newest(S)
<1> DEFINE HasNewest(T) == \E b \in T : \A c \in T : c <= b
           Bad == {T \in FiniteSubsetsOf(Batches) : T # {} /\ ~HasNewest(T)}
<1>1. IsFiniteSet(Batches) /\ \A b \in Batches : b \in Int
  BY ProofLifecycleAssumption
<1>2. FiniteSubsetsOf(Batches) = SUBSET Batches
  BY <1>1, FS_FiniteSubsetsOfFinite
<1>3. Bad = {}
  <2> SUFFICES ASSUME Bad # {} PROVE FALSE
    OBVIOUS
  <2>1. PICK T \in Bad : \A U \in Bad : ~(<<U, T>> \in StrictSubsetOrdering(Batches))
    <3>1. Bad \subseteq FiniteSubsetsOf(Batches)
      OBVIOUS
    <3>2. IsWellFoundedOn(StrictSubsetOrdering(Batches), FiniteSubsetsOf(Batches))
      BY FS_StrictSubsetOrderingWellFounded
    <3> HIDE DEF Bad
    <3> QED BY <3>1, <3>2, WFMin
  <2>2. T \in SUBSET Batches /\ T # {} /\ ~HasNewest(T)
    BY <1>2, <2>1
  <2>3. PICK x \in T : TRUE
    BY <2>2
  <2> DEFINE U == T \ {x}
  <2>4. U \in SUBSET Batches /\ U # T
    BY <2>2, <2>3
  <2>5. <<U, T>> \in StrictSubsetOrdering(Batches)
    BY <2>2, <2>4 DEF StrictSubsetOrdering
  <2>6. U = {} \/ HasNewest(U)
    BY <1>2, <2>1, <2>4, <2>5
  <2>7. CASE U = {}
    <3>1. \A c \in T : c = x
      BY <2>7
    <3> QED BY <1>1, <2>2, <2>3, <3>1
  <2>8. CASE HasNewest(U)
    <3>1. PICK m \in U : \A c \in U : c <= m
      BY <2>8
    <3>2. \A c \in T : c \in Int /\ (c = x \/ c <= m)
      BY <1>1, <2>2, <3>1
    <3>3. x \in Int /\ m \in Int /\ m \in T
      BY <1>1, <2>2, <2>3, <3>1
    <3>4. CASE x <= m
      BY <2>2, <3>2, <3>3, <3>4
    <3>5. CASE m <= x
      <4>1. \A c \in T : c <= x
        BY <3>2, <3>3, <3>5
      <4> QED BY <2>2, <2>3, <4>1
    <3> QED BY <3>3, <3>4, <3>5
  <2> QED BY <2>6, <2>7, <2>8
<1>4. \E b \in S : \A c \in S : c <= b
  BY <1>2, <1>3
<1> QED BY <1>4, Zenon DEF Newest

\* The only root of a batch, if it has one, is its own.
LEMMA OneRoot ==
  ASSUME RootsInv, puts = 0, NEW b, NEW x \in Roots(b)
  PROVE  x = b /\ Exists(b)
BY DEF RootsInv, RootsAreOwn, Roots

\* A proven batch has a finished proof of its own counters.
LEMMA ProvenHasProof ==
  ASSUME IInv, puts = 0, NEW b \in Batches, row[b].status = "proven"
  PROVE  /\ row[b].id # Missing /\ jobs[row[b].id].status = "Ready"
         /\ jobs[row[b].id].final = AsI32(row[b].final)
<1>1. row[b].id # Missing /\ jobs[row[b].id].status = "Ready"
  BY DEF IInv, VerdictsHold, Holds
<1>2. row[b].id \in 1 .. Len(jobs) /\ jobs[row[b].id].batch = b
  BY <1>1 DEF IInv, IdsExist, IdsAreOwn, TypeOK, Missing
<1> QED BY <1>1, <1>2, JobsComputeFinals

\* The roots and counters that clients read belong together, for any number of
\* batches, as long as nobody sets a proof by hand.
THEOREM RootsMatch == Spec => []RootsBelongTogether
<1>1. Init => RootsInv
  BY DEF Init, RootsInv, RootsAreOwn, CountersContinue, Exists
<1>2. ASSUME IInv, RootsInv, puts = 0, FinalsDiffer, NEW b \in Batches,
             NEW data \in SubmissionData(b)
      PROVE  /\ data.new_merkle_root = b
             /\ data.prev_merkle_root # ZeroRoot =>
                  LET c == data.prev_merkle_root
                  IN  /\ c # b /\ row[c].id # Missing
                      /\ row[b].id # Missing => jobs[row[c].id].final = jobs[row[b].id].initial
  <2>1. /\ data.new_merkle_root \in Roots(b) \cup NextRoots(b)
        /\ data.prev_merkle_root \in PrevRoots(b)
    BY <1>2 DEF SubmissionData
  <2>2. data.new_merkle_root = b /\ Exists(b)
    BY <1>2, <2>1, OneRoot DEF NextRoots, IInv, IdsExist
  <2>3. ASSUME data.prev_merkle_root # ZeroRoot
        PROVE  LET c == data.prev_merkle_root
               IN  /\ c # b /\ row[c].id # Missing
                   /\ row[b].id # Missing => jobs[row[c].id].final = jobs[row[b].id].initial
    <3> DEFINE S == ProvenAt(row[b].prev)
    <3>1. row[b].prev # 0 /\ S # {} /\ data.prev_merkle_root \in Roots(Newest(S))
      BY <2>1, <2>3 DEF PrevRoots
    <3>2. S \in SUBSET Batches
      BY DEF ProvenAt
    <3>3. PICK c \in S : c = data.prev_merkle_root
      <4> HIDE DEF S
      <4>1. Newest(S) \in S
        BY <3>1, <3>2, NewestIsNewest
      <4>2. Newest(S) = data.prev_merkle_root
        BY <1>2, <3>1, OneRoot
      <4> QED BY <4>1, <4>2
    <3>4. c \in Batches /\ row[c].final = row[b].prev /\ row[c].status = "proven"
      BY <3>3 DEF ProvenAt
    <3>5. c # b
      <4> SUFFICES ASSUME c = b PROVE FALSE
        OBVIOUS
      <4>1. PICK d \in Batches : d < b /\ Exists(d) /\ row[d].final = row[b].prev
        BY <1>2, <2>2, <3>1 DEF RootsInv, CountersContinue
      <4>2. d # b
        BY <4>1, ProofLifecycleAssumption
      <4> QED BY <1>2, <2>2, <3>4, <4>1, <4>2 DEF FinalsDiffer
    <3>6. row[c].id # Missing /\ jobs[row[c].id].final = AsI32(row[b].prev)
      BY <1>2, <3>4, ProvenHasProof
    <3>7. ASSUME row[b].id # Missing PROVE jobs[row[b].id].initial = AsI32(row[b].prev)
      <4>1. row[b].id \in 1 .. Len(jobs) /\ jobs[row[b].id].batch = b
        BY <1>2, <3>7 DEF IInv, IdsExist, IdsAreOwn, TypeOK, Missing
      <4> QED BY <1>2, <4>1, JobsComputeFinals
    <3> QED BY <3>3, <3>5, <3>6, <3>7
  <2> QED BY <2>2, <2>3
<1>3. ASSUME IInv, RootsInv, puts = 0, NEW seen \in Seen, NEW state \in CurrentState(seen)
      PROVE  \/ state.last_batch_id = 0 /\ state.merkle_root = NoRoot
             \/ /\ state.last_batch_id \in Batches /\ row[state.last_batch_id].status = "proven"
                /\ state.merkle_root = state.last_batch_id
                /\ state.counter_value = CurrentCounter(seen)
  <2> DEFINE P == {b \in Batches : row[b].status = "proven"}
  <2>1. /\ state.counter_value = CurrentCounter(seen)
        /\ state.last_batch_id \in IF P = {} THEN {0} ELSE {Newest(P)}
        /\ state.merkle_root \in IF P = {} THEN {NoRoot} ELSE Roots(Newest(P))
    BY <1>3 DEF CurrentState
  <2>2. CASE P = {}
    BY <2>1, <2>2
  <2>3. CASE P # {}
    <3>1. state.last_batch_id = Newest(P) /\ state.merkle_root \in Roots(Newest(P))
      BY <2>1, <2>3
    <3>2. P \in SUBSET Batches /\ \A b \in P : row[b].status = "proven"
      OBVIOUS
    <3> HIDE DEF P
    <3>3. Newest(P) \in P
      BY <2>3, <3>2, NewestIsNewest
    <3>4. state.merkle_root = Newest(P)
      BY <1>3, <3>1, OneRoot
    <3> QED BY <2>1, <3>1, <3>2, <3>3, <3>4
  <2> QED BY <2>2, <2>3
<1>4. ASSUME IInv, RootsInv, puts = 0, NEW seen \in Seen, NEW state \in CurrentState(seen),
             state.last_batch_id # 0, state.last_batch_id \in seen,
             \A c \in seen : c <= state.last_batch_id
      PROVE  (jobs[row[state.last_batch_id].id].final - state.counter_value) % Word = 0
  <2>1. PICK b \in Batches : b = state.last_batch_id /\ row[b].status = "proven"
                             /\ state.counter_value = CurrentCounter(seen)
    BY <1>3, <1>4
  <2>2. CurrentCounter(seen) = row[b].final
    <3>1. seen \in SUBSET Batches /\ b \in seen /\ \A c \in seen : c <= b
      BY <1>4, <2>1 DEF Seen
    <3>2. CurrentCounter(seen) = row[Newest(seen)].final
      BY <3>1 DEF CurrentCounter
    <3>3. Newest(seen) \in seen /\ b <= Newest(seen)
      BY <3>1, NewestIsNewest
    <3>4. Newest(seen) <= b /\ b \in Int /\ Newest(seen) \in Int
      <4>1. \A c \in Batches : c \in Int
        BY ProofLifecycleAssumption
      <4>2. Newest(seen) \in Batches
        BY <3>1, <3>3
      <4> QED BY <3>1, <3>3, <4>1, <4>2
    <3>5. Newest(seen) = b
      BY <3>3, <3>4
    <3> QED BY <3>2, <3>5
  <2>3. row[b].final \in Int
    BY <1>4 DEF IInv, TypeOK, Row
  <2> QED BY <1>4, <2>1, <2>2, <2>3, ProvenHasProof, TruncationIsCongruent
<1>5. ASSUME IInv, RootsInv, puts = 0, NEW seen \in Seen,
             NEW response \in CurrentStateResponse(seen)
      PROVE  LET b == response.last_proven_batch_id
             IN  response.has_merkle_root <=>
                   b # 0 /\ row[b].id # Missing /\ jobs[row[b].id].status = "Ready"
  <2>1. PICK state \in CurrentState(seen) :
          /\ response.has_merkle_root <=> state.merkle_root # NoRoot
          /\ response.last_proven_batch_id =
               IF state.merkle_root # NoRoot THEN state.last_batch_id ELSE 0
    <3>1. PICK state \in CurrentState(seen) :
            response = [counter_value        |-> state.counter_value,
                        has_merkle_root      |-> state.merkle_root # NoRoot,
                        last_proven_batch_id |-> IF state.merkle_root # NoRoot
                                                 THEN state.last_batch_id ELSE 0]
      BY <1>5 DEF CurrentStateResponse
    <3>2. response.has_merkle_root = (state.merkle_root # NoRoot)
      BY <3>1, Zenon
    <3>3. response.last_proven_batch_id =
            IF state.merkle_root # NoRoot THEN state.last_batch_id ELSE 0
      BY <3>1
    <3> QED BY <3>2, <3>3
  <2>2. CASE state.last_batch_id = 0 /\ state.merkle_root = NoRoot
    BY <2>1, <2>2
  <2>3. CASE /\ state.last_batch_id \in Batches /\ row[state.last_batch_id].status = "proven"
             /\ state.merkle_root = state.last_batch_id
    <3>1. state.last_batch_id # 0 /\ state.last_batch_id # NoRoot
      BY <2>3, ProofLifecycleAssumption DEF NoRoot
    <3>2. response.has_merkle_root /\ response.last_proven_batch_id = state.last_batch_id
      BY <2>1, <2>3, <3>1
    <3> QED BY <1>5, <2>3, <3>1, <3>2, ProvenHasProof
  <2> QED BY <1>3, <1>5, <2>2, <2>3
<1>6. IInv /\ RootsInv => RootsBelongTogether
  <2> SUFFICES ASSUME IInv, RootsInv, puts = 0 PROVE RootsBelongTogether
    BY DEF RootsBelongTogether
  <2>1. \A seen \in Seen : \A state \in CurrentState(seen) :
          LET b == state.last_batch_id
          IN  b # 0 =>
                /\ state.merkle_root = b
                /\ b \in seen /\ (\A c \in seen : c <= b)
                     => (jobs[row[b].id].final - state.counter_value) % Word = 0
    BY <1>3, <1>4
  <2> QED BY <1>2, <1>5, <2>1 DEF RootsBelongTogether
<1> QED BY <1>1, <1>6, RootsStep, Invariance, PTL DEF Spec

=============================================================================
