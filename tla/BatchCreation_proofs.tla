------------------------ MODULE BatchCreation_proofs ------------------------
(***************************************************************************)
(* Theorems about BatchCreation, for any transactions, amounts, number of  *)
(* requests, sizes and faults.                                             *)
(***************************************************************************)
EXTENDS BatchCreation, FiniteSums, SequenceTheorems, TLAPS

-----------------------------------------------------------------------------
(***************************************************************************)
(* The inductive invariant.                                                *)
(***************************************************************************)

\* Rows are locked only between the claiming SELECT and the commit.
LocksWhileInSql ==
  \A w \in Workers :
    /\ req[w].pc \notin {"claim", "commit"} => req[w].claimed = {}
    /\ req[w].pc = "commit" => req[w].claimed # {}

\* Only visible rows are visited.
ScansAreVisible == \A w \in Workers : req[w].scan \subseteq inserted

\* The sequence: ids in use are distinct and below its next value.
IdsAreFresh ==
  /\ \A b \in batches : 0 < b.id /\ b.id < batchSeq
  /\ \A b, c \in batches : b.id = c.id => b = c
  /\ \A w \in Workers : req[w].pc = "commit" =>
       /\ req[w].id # 0 /\ req[w].id < batchSeq
       /\ \A b \in batches : b.id # req[w].id
  /\ \A v, w \in Workers : req[v].pc = "commit" /\ req[w].pc = "commit" /\ v # w
                             => req[v].id # req[w].id

\* What an unfinished create_batch read as the counter is an origin, and its
\* batch is older than the one being created.
ReadCounterHasAnOrigin ==
  \A w \in Workers : req[w].pc \in {"select", "claim", "commit"} =>
    \/ req[w].prev = 0
    \/ \E c \in batches : /\ c.final = req[w].prev
                          /\ req[w].pc = "commit" => c.id < req[w].id

\* ORDER BY id DESC LIMIT 1 finds a row.
LatestExists == batches # {} => \E b \in batches : IsLatest(b)

IInv ==
  /\ TypeOK
  /\ LinksMatchBatches
  /\ ClaimsAreExclusive
  /\ LocksWhileInSql
  /\ ScansAreVisible
  /\ IdsAreFresh
  /\ LatestExists
  /\ ReadCounterHasAnOrigin
  /\ EveryBatchHasAnOrigin

-----------------------------------------------------------------------------
(***************************************************************************)
(* Types.                                                                  *)
(***************************************************************************)

\* A sum of integer amounts is an integer.
LEMMA TotalIsInt == ASSUME NEW S \in SUBSET TxIds PROVE Total(S) \in Int
<1>1. Summable(Amount, S)
  <2>1. IsFiniteSet(S) /\ Amount \in [TxIds -> Int]
    BY BatchCreationAssumption, FS_Subset
  <2> QED BY <2>1 DEF Summable
<1> QED BY <1>1, SumIsInt DEF Total

LEMMA OldestIsSubset == ASSUME NEW n, NEW S PROVE Oldest(n, S) \subseteq S
BY DEF Oldest

LEMMA FreshType ==
  /\ Fresh \in Worker
  /\ \A w \in Workers : Returned(w) \in Worker /\ Returned(w).claimed = {}
                       /\ Returned(w).pc \in {"idle", "done"} /\ Returned(w).scan = {}
<1>1. Fresh \in Worker
  BY DEF Fresh, Worker, Phases
<1>2. ASSUME NEW w \in Workers PROVE Returned(w) \in Worker
  <2>1. CASE w \in Bg
    <3>1. Returned(w) = Fresh
      BY <2>1 DEF Returned, Fresh
    <3> QED BY <3>1, <1>1
  <2>2. CASE w \notin Bg
    <3>1. Returned(w) = [Fresh EXCEPT !.pc = "done"]
      BY <2>2 DEF Returned
    <3>2. "done" \in Phases
      BY DEF Phases
    <3> QED BY <3>1, <3>2, <1>1 DEF Worker
  <2> QED BY <2>1, <2>2
<1>3. ASSUME NEW w \in Workers
      PROVE  /\ Returned(w).claimed = {} /\ Returned(w).scan = {}
             /\ Returned(w).pc \in {"idle", "done"}
  BY DEF Returned, Fresh
<1> QED BY <1>1, <1>2, <1>3

\* The row that ORDER BY id DESC LIMIT 1 returns.
LEMMA CounterOrigin ==
  ASSUME LatestExists
  PROVE  \/ batches = {} /\ CurrentCounter = 0
         \/ \E b \in batches : IsLatest(b) /\ CurrentCounter = b.final
<1>1. CASE batches = {}
  BY <1>1 DEF CurrentCounter
<1>2. CASE batches # {}
  <2>1. \E b \in batches : IsLatest(b)
    BY <1>2 DEF LatestExists
  <2>2. (CHOOSE b \in batches : IsLatest(b)) \in batches /\ IsLatest(CHOOSE b \in batches : IsLatest(b))
    BY <2>1, Zenon
  <2> QED BY <1>2, <2>2 DEF CurrentCounter
<1> QED BY <1>1, <1>2

LEMMA CounterType == TypeOK /\ LatestExists => CurrentCounter \in Int
BY CounterOrigin DEF TypeOK, Batch

\* Replacing one worker's state keeps the type of req.
LEMMA OneWorkerChanges ==
  ASSUME TypeOK, NEW w \in Workers, NEW me \in Worker, req' = [req EXCEPT ![w] = me]
  PROVE  req' \in [Workers -> Worker]
BY DEF TypeOK

\* What reading the counter does to the workers.
LEMMA ReadsEffect ==
  ASSUME TypeOK, NEW w \in Workers, NEW c \in Int, req' = Reads(w, c)
  PROVE  /\ req' \in [Workers -> Worker]
         /\ req'[w].pc = "select" /\ req'[w].prev = c
         /\ req'[w].overlapped = \E u \in Workers : Reading(u)
         /\ \A v \in Workers :
              /\ req'[v].claimed = req[v].claimed /\ req'[v].scan = req[v].scan
              /\ req'[v].id = req[v].id
              /\ v # w =>
                   /\ req'[v].pc = req[v].pc /\ req'[v].prev = req[v].prev
                   /\ req'[v].mine = req[v].mine /\ req'[v].todo = req[v].todo
                   /\ req'[v].root = req[v].root
                   /\ req'[v].overlapped = (req[v].overlapped \/ Reading(v))
<1> DEFINE crowd == \E u \in Workers : Reading(u)
           me == [req[w] EXCEPT !.pc = "select", !.prev = c, !.overlapped = crowd]
           it(v) == [req[v] EXCEPT !.overlapped = req[v].overlapped \/ Reading(v)]
<1>1. \A v \in Workers : req[v] \in Worker
  BY DEF TypeOK
<1>2. req' = [v \in Workers |-> IF v = w THEN me ELSE it(v)]
  BY DEF Reads
<1>3. crowd \in BOOLEAN /\ \A v \in Workers : Reading(v) \in BOOLEAN
  BY DEF Reading
<1> HIDE DEF crowd
<1>4. me \in Worker /\ me.pc = "select" /\ me.prev = c /\ me.overlapped = crowd
      /\ me.claimed = req[w].claimed /\ me.scan = req[w].scan /\ me.id = req[w].id
  BY <1>1, <1>3 DEF Worker, Phases, SqlPhases
<1>5. ASSUME NEW v \in Workers
      PROVE  /\ it(v) \in Worker /\ it(v).pc = req[v].pc /\ it(v).prev = req[v].prev
             /\ it(v).claimed = req[v].claimed /\ it(v).scan = req[v].scan
             /\ it(v).id = req[v].id /\ it(v).mine = req[v].mine
             /\ it(v).todo = req[v].todo /\ it(v).root = req[v].root
             /\ it(v).overlapped = (req[v].overlapped \/ Reading(v))
  <2> DEFINE o == req[v].overlapped \/ Reading(v)
  <2>1. o \in BOOLEAN /\ req[v] \in Worker
    BY <1>1
  <2> HIDE DEF o
  <2>2. it(v) = [req[v] EXCEPT !.overlapped = o]
    BY DEF o
  <2>3. /\ it(v) \in Worker /\ it(v).pc = req[v].pc /\ it(v).prev = req[v].prev
        /\ it(v).claimed = req[v].claimed /\ it(v).scan = req[v].scan
        /\ it(v).id = req[v].id /\ it(v).mine = req[v].mine
        /\ it(v).todo = req[v].todo /\ it(v).root = req[v].root
        /\ it(v).overlapped = o
    BY ONLY <2>1, <2>2 DEF Worker
  <2> QED BY <2>3 DEF o
<1> HIDE DEF me, it
<1>6. req'[w] = me /\ \A v \in Workers : v # w => req'[v] = it(v)
  BY <1>2
<1>7. req' \in [Workers -> Worker]
  BY <1>2, <1>4, <1>5
<1> QED BY <1>4, <1>5, <1>6, <1>7 DEF crowd

\* What a crash does to a worker.
LEMMA CrashEffect ==
  ASSUME TypeOK, Crash, NEW w \in Workers
  PROVE  \/ req'[w] = Returned(w)
         \/ req[w].pc \in SqlPhases /\ req'[w] = [req[w] EXCEPT !.attached = FALSE]
         \/ req'[w] = req[w]
<1>1. PICK unsent \in SUBSET {v \in Workers : req[v].pc = "counter"} :
        req' = [v \in Workers |->
                  IF req[v].pc \in AppPhases \/ v \in unsent THEN Returned(v)
                  ELSE IF req[v].pc \in SqlPhases THEN [req[v] EXCEPT !.attached = FALSE]
                  ELSE req[v]]
  BY DEF Crash
<1> QED BY <1>1

LEMMA TypeStep == TypeOK /\ LatestExists /\ Next => TypeOK'
<1> SUFFICES ASSUME TypeOK, LatestExists, Next PROVE TypeOK'
  OBVIOUS
<1> USE FreshType DEF TypeOK, Phases, SqlPhases, AppPhases
<1>1. CASE \E t \in TxIds : Submit(t)
  BY <1>1 DEF Submit
<1>2. ASSUME NEW w \in Workers, ReadPending(w) PROVE TypeOK'
  <2>1. PICK n \in Sizes(w) :
          req' = [req EXCEPT ![w].pc = "counter",
                             ![w].mine = Oldest(n, Oldest(PendingLimit, Unbatched))]
    BY <1>2 DEF ReadPending, PendingTransactions
  <2>2. Oldest(n, Oldest(PendingLimit, Unbatched)) \subseteq TxIds
    BY OldestIsSubset DEF Unbatched
  <2>3. req' \in [Workers -> Worker]
    <3> DEFINE me == [req[w] EXCEPT !.pc = "counter",
                        !.mine = Oldest(n, Oldest(PendingLimit, Unbatched))]
    <3>1. me \in Worker
      BY <2>2 DEF Worker
    <3>2. req' = [req EXCEPT ![w] = me]
      BY <2>1
    <3> QED BY ONLY TypeOK, <3>1, <3>2, OneWorkerChanges
  <2> QED BY <1>2, <2>3 DEF ReadPending
<1>3. ASSUME NEW w \in Workers, ReadCounter(w) PROVE TypeOK'
  <2>1. CurrentCounter \in Int /\ req' = Reads(w, CurrentCounter)
    BY <1>3, CounterType DEF ReadCounter
  <2>2. req' \in [Workers -> Worker]
    BY ONLY TypeOK, <2>1, ReadsEffect
  <2> QED BY <1>3, <2>2 DEF ReadCounter
<1>4. ASSUME NEW w \in Workers, OpenSelect(w) PROVE TypeOK'
  <2>1. Unbatched \in SUBSET TxIds
    BY DEF Unbatched
  <2>2. req' \in [Workers -> Worker]
    <3> DEFINE me == [req[w] EXCEPT !.pc = "claim", !.scan = Unbatched]
    <3>1. me \in Worker
      BY <2>1 DEF Worker
    <3>2. req' = [req EXCEPT ![w] = me]
      BY <1>4 DEF OpenSelect
    <3> QED BY ONLY TypeOK, <3>1, <3>2, OneWorkerChanges
  <2> QED BY <1>4, <2>2 DEF OpenSelect
<1>5. ASSUME NEW w \in Workers, NEW t \in TxIds, VisitRow(w, t) PROVE TypeOK'
  <2>1. PICK C \in SUBSET TxIds :
          req' = [req EXCEPT ![w].scan = @ \ {t}, ![w].claimed = C]
    <3>1. req[w].claimed \in SUBSET TxIds
      BY DEF Worker
    <3>2. CASE t \notin Locked /\ link[t] = 0
      BY <1>5, <3>1, <3>2 DEF VisitRow
    <3>3. CASE ~(t \notin Locked /\ link[t] = 0)
      BY <1>5, <3>1, <3>3 DEF VisitRow
    <3> QED BY <3>2, <3>3
  <2>2. req' \in [Workers -> Worker]
    <3> DEFINE me == [req[w] EXCEPT !.scan = @ \ {t}, !.claimed = C]
    <3>1. req[w].scan \ {t} \in SUBSET TxIds
      BY DEF Worker
    <3>2. me \in Worker
      BY <3>1 DEF Worker
    <3>3. req' = [req EXCEPT ![w] = me]
      BY <2>1
    <3> QED BY ONLY TypeOK, <3>2, <3>3, OneWorkerChanges
  <2> QED BY <1>5, <2>2 DEF VisitRow
<1>6. ASSUME NEW w \in Workers, NothingClaimed(w) PROVE TypeOK'
  BY <1>6 DEF NothingClaimed, Return
<1>7. ASSUME NEW w \in Workers, InsertBatch(w) PROVE TypeOK'
  <2>1. batchSeq' \in Nat \ {0}
    BY <1>7 DEF InsertBatch
  <2>2. req' \in [Workers -> Worker]
    <3>1. req[w] \in Worker /\ batchSeq \in Nat
      OBVIOUS
    <3>2. [req[w] EXCEPT !.pc = "commit", !.id = batchSeq] \in Worker
      BY <3>1 DEF Worker
    <3> QED BY <1>7, <3>2 DEF InsertBatch
  <2> QED BY <1>7, <2>1, <2>2 DEF InsertBatch
<1>8. ASSUME NEW w \in Workers, CommitBatch(w) PROVE TypeOK'
  <2> DEFINE b == [id |-> req[w].id, prev |-> req[w].prev,
                   final |-> req[w].prev + Total(req[w].claimed), ids |-> req[w].claimed]
  <2>1. req[w] \in Worker
    OBVIOUS
  <2>2. b \in Batch
    <3>1. req[w].id \in Nat /\ req[w].prev \in Int /\ req[w].claimed \in SUBSET TxIds
      BY <2>1 DEF Worker
    <3>2. req[w].prev + Total(req[w].claimed) \in Int
      BY <3>1, TotalIsInt
    <3> QED BY <3>1, <3>2 DEF Batch
  <2>3. link' \in [TxIds -> Nat]
    BY <1>8, <2>1 DEF CommitBatch, NewBatch, Worker
  <2>4. req' \in [Workers -> Worker]
    BY <1>8, <2>1 DEF CommitBatch, NewBatch, Worker, Fresh
  <2> QED
    BY <1>8, <2>2, <2>3, <2>4 DEF CommitBatch, NewBatch
<1>9. ASSUME NEW w \in Workers, LockAds(w) PROVE TypeOK'
  <2> DEFINE me == [req[w] EXCEPT !.pc = "nullify", !.todo = req[w].mine]
  <2>1. me \in Worker
    <3>1. req[w] \in Worker
      OBVIOUS
    <3> QED BY <3>1 DEF Worker
  <2>2. req' = [req EXCEPT ![w] = me]
    BY <1>9 DEF LockAds
  <2>3. req' \in [Workers -> Worker]
    BY ONLY TypeOK, <2>1, <2>2, OneWorkerChanges
  <2> QED BY <1>9, <2>3 DEF LockAds
<1>10. ASSUME NEW w \in Workers, NEW t \in TxIds,
              InsertNullifier(w, t) \/ NullifierExists(w, t)
       PROVE TypeOK'
  <2>1. CASE InsertNullifier(w, t)
    <3>1. tree' \in Seq(TxIds)
      BY <2>1 DEF InsertNullifier
    <3> DEFINE me == [req[w] EXCEPT !.todo = @ \ {t}]
    <3>2. req' \in [Workers -> Worker]
      <4>1. req[w] \in Worker
        OBVIOUS
      <4>2. me \in Worker
        BY <4>1 DEF Worker
      <4>3. req' = [req EXCEPT ![w] = me]
        BY <2>1 DEF InsertNullifier
      <4> QED BY ONLY TypeOK, <4>2, <4>3, OneWorkerChanges
    <3> QED BY <2>1, <3>1, <3>2 DEF InsertNullifier
  <2>2. CASE NullifierExists(w, t)
    BY <2>2 DEF NullifierExists, Return
  <2> QED BY <1>10, <2>1, <2>2
<1>11. ASSUME NEW w \in Workers, UnlockAds(w) PROVE TypeOK'
  <2>1. Len(tree) \in Nat
    OBVIOUS
  <2>2. req' \in [Workers -> Worker]
    <3>1. req[w] \in Worker
      OBVIOUS
    <3>2. [req[w] EXCEPT !.pc = "store", !.root = Len(tree)] \in Worker
      BY <3>1, <2>1 DEF Worker
    <3> QED BY <1>11, <3>2 DEF UnlockAds
  <2> QED BY <1>11, <2>2 DEF UnlockAds
<1>12. ASSUME NEW w \in Workers, StoreCommit(w) PROVE TypeOK'
  <2>1. [batch |-> req[w].id, root |-> req[w].root, read |-> req[w].mine] \in StateCommit
    BY DEF StateCommit, Worker
  <2> QED BY <1>12, <2>1 DEF StoreCommit, Return
<1>13. ASSUME NEW w \in Workers, AbortBatch(w) \/ AdsFails(w) \/ StoreFails(w)
       PROVE TypeOK'
  <2>1. faults' \in 0..MaxFaults
    BY <1>13, BatchCreationAssumption DEF AbortBatch, AdsFails, StoreFails, Fault
  <2>2. req' \in [Workers -> Worker]
    BY <1>13 DEF AbortBatch, AdsFails, StoreFails, Return
  <2> QED BY <1>13, <2>1, <2>2 DEF AbortBatch, AdsFails, StoreFails
<1>14. ASSUME NEW r \in Requests, NothingPending(r) \/ Timeout(r) PROVE TypeOK'
  <2>1. r \in Workers
    BY DEF Workers
  <2>2. [req EXCEPT ![r].attached = FALSE] \in [Workers -> Worker]
    BY <2>1 DEF Worker
  <2>3. req' \in [Workers -> Worker]
    BY <1>14, <2>1, <2>2 DEF NothingPending, Timeout, Return
  <2> QED BY <1>14, <2>3 DEF NothingPending, Timeout
<1>15. CASE Crash
  <2>1. faults' \in 0..MaxFaults
    BY <1>15, BatchCreationAssumption DEF Crash, Fault
  <2>2. \A w \in Workers : [req[w] EXCEPT !.attached = FALSE] \in Worker
    BY DEF Worker
  <2>3. \A w \in Workers : req'[w] \in Worker
    BY <1>15, <2>2, CrashEffect
  <2>4. \E f : req' = [w \in Workers |-> f[w]]
    <3>1. PICK unsent : req' = [v \in Workers |->
                  IF req[v].pc \in AppPhases \/ v \in unsent THEN Returned(v)
                  ELSE IF req[v].pc \in SqlPhases THEN [req[v] EXCEPT !.attached = FALSE]
                  ELSE req[v]]
      BY <1>15 DEF Crash
    <3>2. req' = [w \in Workers |-> req'[w]]
      BY <3>1
    <3> QED BY <3>2
  <2>5. req' \in [Workers -> Worker]
    BY <2>3, <2>4
  <2> QED BY <1>15, <2>1, <2>5 DEF Crash
<1>16. CASE Drained
  BY <1>16 DEF Drained, vars
<1> QED
  BY <1>1, <1>2, <1>3, <1>4, <1>5, <1>6, <1>7, <1>8, <1>9, <1>10, <1>11, <1>12,
     <1>13, <1>14, <1>15, <1>16 DEF Next, CreateBatch, AdsSteps

-----------------------------------------------------------------------------
(***************************************************************************)
(* The invariant holds initially and every step preserves it.              *)
(***************************************************************************)

LEMMA InitIInv == Init => IInv
<1> SUFFICES ASSUME Init PROVE IInv
  OBVIOUS
<1>1. TypeOK
  BY FreshType, BatchCreationAssumption DEF Init, TypeOK, Workers
<1>2. \A w \in Workers : req[w].claimed = {} /\ req[w].scan = {} /\ req[w].pc = "idle"
  BY DEF Init, Fresh
<1>3. LinksMatchBatches /\ LatestExists /\ EveryBatchHasAnOrigin
  BY DEF Init, LinksMatchBatches, LatestExists, EveryBatchHasAnOrigin
<1>4. ClaimsAreExclusive /\ LocksWhileInSql /\ ScansAreVisible
  BY <1>2 DEF ClaimsAreExclusive, LocksWhileInSql, ScansAreVisible
<1>5. IdsAreFresh /\ ReadCounterHasAnOrigin
  BY <1>2 DEF IdsAreFresh, ReadCounterHasAnOrigin, Init
<1> QED BY <1>1, <1>3, <1>4, <1>5 DEF IInv

\* A worker keeps what matters to the database, or has let go of it.
Kept(w) ==
  /\ req'[w].claimed = req[w].claimed /\ req'[w].scan = req[w].scan
  /\ req'[w].pc = req[w].pc /\ req'[w].prev = req[w].prev /\ req'[w].id = req[w].id
  /\ req'[w].overlapped = req[w].overlapped
LetGo(w) ==
  /\ req'[w].claimed = {} /\ req'[w].scan \subseteq inserted
  /\ req'[w].pc \notin {"select", "claim", "commit"}

\* Steps outside of create_batch, and its failure, disturb nothing.
LEMMA QuietStep ==
  ASSUME IInv, TypeOK', inserted \subseteq inserted',
         link' = link, batches' = batches, batchSeq' = batchSeq,
         \A w \in Workers : Kept(w) \/ LetGo(w)
  PROVE  IInv'
<1>1. LinksMatchBatches' /\ LatestExists' /\ EveryBatchHasAnOrigin'
  BY DEF IInv, LinksMatchBatches, LatestExists, EveryBatchHasAnOrigin, IsLatest
<1>2. ClaimsAreExclusive'
  <2>1. \A w \in Workers : req'[w].claimed \subseteq req[w].claimed
    BY DEF Kept, LetGo
  <2>2. Unbatched \subseteq Unbatched'
    BY DEF Unbatched
  <2> QED BY <2>1, <2>2 DEF IInv, ClaimsAreExclusive
<1>3. LocksWhileInSql'
  BY DEF Kept, LetGo, IInv, LocksWhileInSql
<1>4. ScansAreVisible'
  BY DEF Kept, LetGo, IInv, ScansAreVisible
<1>5. IdsAreFresh'
  BY DEF Kept, LetGo, IInv, IdsAreFresh
<1>6. ReadCounterHasAnOrigin'
  BY DEF Kept, LetGo, IInv, ReadCounterHasAnOrigin
<1> QED BY <1>1, <1>2, <1>3, <1>4, <1>5, <1>6 DEF IInv

\* A worker that is not in create_batch returns or goes on outside of it.
LEMMA ReturnLetsGo ==
  ASSUME NEW w \in Workers, TypeOK, Return(w)
  PROVE  \A v \in Workers : Kept(v) \/ LetGo(v)
BY FreshType DEF Return, Kept, LetGo, TypeOK

LEMMA IdsKept ==
  ASSUME IdsAreFresh, batches' = batches, batchSeq' = batchSeq,
         \A w \in Workers : /\ req'[w].id = req[w].id
                            /\ req'[w].pc = "commit" => req[w].pc = "commit"
  PROVE  IdsAreFresh'
BY DEF IdsAreFresh

LEMMA OriginsKept ==
  ASSUME ReadCounterHasAnOrigin, batches' = batches,
         \A w \in Workers :
           /\ req'[w].id = req[w].id /\ req'[w].prev = req[w].prev
           /\ req'[w].pc = "commit" => req[w].pc = "commit"
           /\ req'[w].pc \in {"select", "claim"} => req[w].pc \in {"select", "claim"}
  PROVE  ReadCounterHasAnOrigin'
BY DEF ReadCounterHasAnOrigin

LEMMA ReadCounterStep ==
  ASSUME IInv, TypeOK', NEW w \in Workers, ReadCounter(w) PROVE IInv'
<1>1. TypeOK /\ LatestExists /\ CurrentCounter \in Int /\ req' = Reads(w, CurrentCounter)
  BY CounterType DEF IInv, ReadCounter
<1>2. \A v \in Workers : /\ req'[v].claimed = req[v].claimed /\ req'[v].scan = req[v].scan
                         /\ req'[v].id = req[v].id
                         /\ v # w => req'[v].pc = req[v].pc /\ req'[v].prev = req[v].prev
  BY ONLY <1>1, ReadsEffect
<1>3. req'[w].pc = "select" /\ req'[w].prev = CurrentCounter
  BY ONLY <1>1, ReadsEffect
<1>4. /\ req[w].pc = "counter" /\ inserted' = inserted /\ link' = link /\ batches' = batches
      /\ batchSeq' = batchSeq
  BY DEF ReadCounter
<1> USE DEF IInv
<1>5. LinksMatchBatches' /\ LatestExists' /\ EveryBatchHasAnOrigin'
  BY <1>4 DEF LinksMatchBatches, LatestExists, EveryBatchHasAnOrigin, IsLatest
<1>6. ClaimsAreExclusive' /\ ScansAreVisible'
  BY <1>2, <1>4 DEF ClaimsAreExclusive, ScansAreVisible, Unbatched
<1>7. LocksWhileInSql'
  BY <1>2, <1>3, <1>4 DEF LocksWhileInSql
<1>8. IdsAreFresh'
  <2>1. \A v \in Workers : req'[v].pc = "commit" => req[v].pc = "commit"
    BY <1>2, <1>3
  <2> QED BY <1>2, <1>4, <2>1, IdsKept
<1>9. ReadCounterHasAnOrigin'
  <2>1. CurrentCounter = 0 \/ \E c \in batches : c.final = CurrentCounter
    BY CounterOrigin
  <2>2. req'[w].pc # "commit"
    BY <1>3
  <2>3. \/ req'[w].prev = 0
        \/ \E c \in batches' : c.final = req'[w].prev
    BY <1>3, <1>4, <2>1
  <2>4. ReadCounterHasAnOrigin
    BY DEF IInv
  <2> HIDE DEF IInv
  <2> QED BY <1>2, <1>4, <2>2, <2>3, <2>4 DEF ReadCounterHasAnOrigin
<1> QED BY <1>1, <1>5, <1>6, <1>7, <1>8, <1>9

LEMMA OpenSelectStep ==
  ASSUME IInv, TypeOK', NEW w \in Workers, OpenSelect(w) PROVE IInv'
<1> USE DEF IInv, OpenSelect
<1>1. \A v \in Workers : /\ req'[v].claimed = req[v].claimed /\ req'[v].prev = req[v].prev
                         /\ req'[v].id = req[v].id
                         /\ v # w => req'[v] = req[v]
  BY DEF TypeOK
<1>2. req'[w].pc = "claim" /\ req'[w].scan = Unbatched /\ req[w].pc = "select"
  BY DEF TypeOK, Worker
<1>3. LinksMatchBatches' /\ LatestExists' /\ EveryBatchHasAnOrigin'
  BY DEF LinksMatchBatches, LatestExists, EveryBatchHasAnOrigin, IsLatest
<1>4. ClaimsAreExclusive' /\ ScansAreVisible'
  BY <1>1, <1>2 DEF ClaimsAreExclusive, ScansAreVisible, Unbatched
<1>5. LocksWhileInSql'
  BY <1>1, <1>2 DEF LocksWhileInSql
<1>6. IdsAreFresh' /\ ReadCounterHasAnOrigin'
  <2>1. \A v \in Workers :
          /\ req'[v].pc = "commit" => req[v].pc = "commit"
          /\ req'[v].pc \in {"select", "claim"} => req[v].pc \in {"select", "claim"}
    BY <1>1, <1>2
  <2> QED BY <1>1, <2>1, IdsKept, OriginsKept
<1> QED BY <1>3, <1>4, <1>5, <1>6

LEMMA VisitRowStep ==
  ASSUME IInv, TypeOK', NEW w \in Workers, NEW t \in TxIds, VisitRow(w, t) PROVE IInv'
<1> USE DEF IInv, VisitRow
<1>1. \A v \in Workers : /\ req'[v].pc = req[v].pc /\ req'[v].prev = req[v].prev
                         /\ req'[v].id = req[v].id
                         /\ v # w => req'[v] = req[v]
  BY DEF TypeOK
<1>2. req[w].pc = "claim" /\ req'[w].scan \subseteq req[w].scan /\ t \in req[w].scan
  BY DEF TypeOK, Worker, IsOldest
<1>3. \/ req'[w].claimed = req[w].claimed
      \/ /\ req'[w].claimed = req[w].claimed \cup {t}
         /\ t \notin Locked /\ link[t] = 0
  BY DEF TypeOK, Worker
<1>4. LinksMatchBatches' /\ LatestExists' /\ EveryBatchHasAnOrigin'
  BY DEF LinksMatchBatches, LatestExists, EveryBatchHasAnOrigin, IsLatest
<1>5. ScansAreVisible'
  BY <1>1, <1>2 DEF ScansAreVisible
<1>6. ClaimsAreExclusive'
  <2>1. Unbatched' = Unbatched
    BY DEF Unbatched
  <2>2. CASE req'[w].claimed = req[w].claimed
    <3>1. \A v \in Workers : req'[v].claimed = req[v].claimed
      BY <2>2, <1>1
    <3>2. ClaimsAreExclusive
      OBVIOUS
    <3> QED BY ONLY <2>1, <3>1, <3>2 DEF ClaimsAreExclusive
  <2>3. CASE /\ req'[w].claimed = req[w].claimed \cup {t}
             /\ t \notin Locked /\ link[t] = 0
    <3>1. t \in Unbatched
      BY <2>3, <1>2 DEF ScansAreVisible, Unbatched
    <3>2. \A v \in Workers : t \notin req[v].claimed
      BY <2>3 DEF Locked
    <3>3. \A v \in Workers : req'[v].claimed \subseteq Unbatched'
      <4>1. \A v \in Workers : req[v].claimed \subseteq Unbatched
        BY DEF ClaimsAreExclusive
      <4>2. \A v \in Workers : v # w => req'[v].claimed = req[v].claimed
        BY <1>1
      <4> QED BY ONLY <4>1, <4>2, <2>1, <2>3, <3>1
    <3>4. ASSUME NEW u \in Workers, NEW v \in Workers, u # v
          PROVE  req'[u].claimed \cap req'[v].claimed = {}
      <4>1. req[u].claimed \cap req[v].claimed = {}
        BY <3>4 DEF ClaimsAreExclusive
      <4>2. CASE u = w
        <5>1. req'[v] = req[v] /\ t \notin req[v].claimed
          BY <4>2, <3>2, <3>4, <1>1
        <5> QED BY ONLY <4>1, <4>2, <5>1, <2>3
      <4>3. CASE v = w
        <5>1. req'[u] = req[u] /\ t \notin req[u].claimed
          BY <4>3, <3>2, <3>4, <1>1
        <5> QED BY ONLY <4>1, <4>3, <5>1, <2>3
      <4>4. CASE u # w /\ v # w
        BY <4>1, <4>4, <1>1
      <4> QED BY <4>2, <4>3, <4>4
    <3> QED BY <3>3, <3>4 DEF ClaimsAreExclusive
  <2> QED BY <1>3, <2>2, <2>3
<1>7. LocksWhileInSql'
  BY <1>1, <1>2 DEF LocksWhileInSql
<1>8. IdsAreFresh' /\ ReadCounterHasAnOrigin'
  BY <1>1, IdsKept, OriginsKept
<1> QED BY <1>4, <1>5, <1>6, <1>7, <1>8

LEMMA InsertBatchStep ==
  ASSUME IInv, TypeOK', NEW w \in Workers, InsertBatch(w) PROVE IInv'
<1> USE DEF IInv, InsertBatch
<1>1. \A v \in Workers : /\ req'[v].claimed = req[v].claimed /\ req'[v].scan = req[v].scan
                         /\ req'[v].prev = req[v].prev
                         /\ v # w => req'[v] = req[v]
  BY DEF TypeOK
<1>2. /\ req'[w].pc = "commit" /\ req'[w].id = batchSeq
      /\ req[w].pc = "claim" /\ req[w].claimed # {}
  BY DEF TypeOK, Worker
<1>3. batchSeq \in Nat \ {0} /\ batchSeq' = batchSeq + 1 /\ batches \subseteq Batch
  BY DEF TypeOK
<1>4. LinksMatchBatches' /\ LatestExists' /\ EveryBatchHasAnOrigin'
  BY DEF LinksMatchBatches, LatestExists, EveryBatchHasAnOrigin, IsLatest
<1>5. ClaimsAreExclusive' /\ ScansAreVisible'
  BY <1>1 DEF ClaimsAreExclusive, ScansAreVisible, Unbatched
<1>6. LocksWhileInSql'
  BY <1>1, <1>2 DEF LocksWhileInSql
<1>7. IdsAreFresh'
  <2> HIDE DEF IInv, InsertBatch
  <2>1. \A b \in batches : b.id \in Nat /\ 0 < b.id /\ b.id < batchSeq
    BY <1>3 DEF Batch, IdsAreFresh, IInv
  <2>2. ASSUME NEW v \in Workers, v # w, req'[v].pc = "commit"
        PROVE  /\ req'[v].id \in Nat /\ req'[v].id # 0 /\ req'[v].id < batchSeq
               /\ \A b \in batches : b.id # req'[v].id
    BY <2>2, <1>1 DEF IdsAreFresh, IInv, TypeOK, Worker
  <2>3. ASSUME NEW v \in Workers, req'[v].pc = "commit"
        PROVE  /\ req'[v].id # 0 /\ req'[v].id < batchSeq'
               /\ \A b \in batches : b.id # req'[v].id
    <3>1. CASE v = w
      BY <1>2, <1>3, <2>1, <3>1
    <3>2. CASE v # w
      BY <2>2, <2>3, <1>3, <3>2
    <3> QED BY <3>1, <3>2
  <2>4. ASSUME NEW u \in Workers, NEW v \in Workers, u # v,
               req'[u].pc = "commit", req'[v].pc = "commit"
        PROVE  req'[u].id # req'[v].id
    <3>1. CASE u = w
      BY <1>2, <1>3, <2>2, <2>4, <3>1
    <3>2. CASE v = w
      BY <1>2, <1>3, <2>2, <2>4, <3>2
    <3>3. CASE u # w /\ v # w
      BY <1>1, <2>4, <3>3 DEF IdsAreFresh, IInv
    <3> QED BY <3>1, <3>2, <3>3
  <2>5. \A b \in batches' : 0 < b.id /\ b.id < batchSeq'
    BY <1>3, <2>1 DEF InsertBatch
  <2>6. \A b, c \in batches' : b.id = c.id => b = c
    BY DEF IdsAreFresh, IInv, InsertBatch
  <2> QED BY <2>3, <2>4, <2>5, <2>6 DEF IdsAreFresh, InsertBatch
<1>8. ReadCounterHasAnOrigin'
  <2>1. CASE req[w].prev = 0
    BY <1>1, <1>2, <2>1 DEF ReadCounterHasAnOrigin
  <2>2. ASSUME NEW c \in batches, c.final = req[w].prev
        PROVE  c.final = req'[w].prev /\ c.id < req'[w].id
    BY <1>1, <1>2, <2>2 DEF IdsAreFresh
  <2>3. req'[w].prev = 0 \/ \E c \in batches : c.final = req'[w].prev /\ c.id < req'[w].id
    BY <1>1, <1>2, <2>1, <2>2 DEF ReadCounterHasAnOrigin
  <2>4. ASSUME NEW v \in Workers, v # w, req'[v].pc \in {"select", "claim", "commit"}
        PROVE  \/ req'[v].prev = 0
               \/ \E c \in batches : /\ c.final = req'[v].prev
                                     /\ req'[v].pc = "commit" => c.id < req'[v].id
    <3>1. req'[v] = req[v]
      BY <1>1, <2>4
    <3>2. ReadCounterHasAnOrigin
      OBVIOUS
    <3> QED BY ONLY <2>4, <3>1, <3>2 DEF ReadCounterHasAnOrigin
  <2>5. batches' = batches
    OBVIOUS
  <2> QED BY ONLY <2>3, <2>4, <2>5 DEF ReadCounterHasAnOrigin
<1> QED BY <1>4, <1>5, <1>6, <1>7, <1>8

LEMMA CommitBatchStep ==
  ASSUME IInv, TypeOK', NEW w \in Workers, CommitBatch(w) PROVE IInv'
<1> DEFINE me == req[w]
           new == [id |-> me.id, prev |-> me.prev, final |-> me.prev + Total(me.claimed),
                   ids |-> me.claimed]
<1> USE DEF IInv
<1>1. /\ me.pc = "commit" /\ batches' = batches \cup {new} /\ batchSeq' = batchSeq
      /\ inserted' = inserted
      /\ link' = [t \in TxIds |-> IF t \in me.claimed THEN me.id ELSE link[t]]
  BY DEF CommitBatch, NewBatch
<1>2. \A v \in Workers : v # w => req'[v] = req[v]
  BY DEF CommitBatch, NewBatch, TypeOK
<1>3. /\ req'[w].claimed = {} /\ req'[w].scan = {}
      /\ req'[w].pc \notin {"select", "claim", "commit"}
  BY FreshType DEF CommitBatch, NewBatch, TypeOK, Fresh
<1>4. /\ me.id \in Nat /\ me.id # 0 /\ me.id < batchSeq /\ batchSeq \in Nat
      /\ \A b \in batches : b.id # me.id /\ b.id \in Nat
  BY <1>1 DEF IdsAreFresh, TypeOK, Worker, Batch
<1>5. me.claimed \subseteq TxIds /\ me.claimed # {} /\ \A t \in me.claimed : link[t] = 0
  BY <1>1 DEF ClaimsAreExclusive, Unbatched, TypeOK, Worker, LocksWhileInSql
<1>6. new.id = me.id /\ new.ids = me.claimed /\ new.prev = me.prev
  OBVIOUS
<1> HIDE DEF new
<1>7. \A t \in TxIds : link'[t] = IF t \in me.claimed THEN me.id ELSE link[t]
  BY <1>1
<1>8. LinksMatchBatches'
  <2>1. ASSUME NEW b \in batches' PROVE b.ids = {t \in TxIds : link'[t] = b.id}
    <3>1. CASE b = new
      <4>1. \A t \in TxIds : link[t] # me.id
        BY <1>4 DEF LinksMatchBatches
      <4> QED BY <1>5, <1>6, <1>7, <3>1, <4>1
    <3>2. CASE b \in batches
      <4>1. b.ids = {t \in TxIds : link[t] = b.id} /\ b.id # me.id /\ 0 < b.id
        BY <3>2, <1>4 DEF LinksMatchBatches, IdsAreFresh
      <4>2. \A t \in TxIds : link'[t] = b.id <=> link[t] = b.id
        BY <1>5, <1>7, <4>1
      <4> QED BY <4>1, <4>2
    <3> QED BY <1>1, <3>1, <3>2
  <2>2. ASSUME NEW t \in TxIds, link'[t] # 0 PROVE \E b \in batches' : b.id = link'[t]
    <3>1. CASE t \in me.claimed
      BY <1>1, <1>6, <1>7, <3>1
    <3>2. CASE t \notin me.claimed
      BY <1>1, <1>7, <2>2, <3>2 DEF LinksMatchBatches
    <3> QED BY <3>1, <3>2
  <2> QED BY <2>1, <2>2 DEF LinksMatchBatches
<1>9. ClaimsAreExclusive'
  <2>1. ASSUME NEW v \in Workers, v # w PROVE req'[v].claimed \subseteq Unbatched'
    <3>1. req[v].claimed \cap me.claimed = {} /\ req[v].claimed \subseteq Unbatched
      BY <2>1 DEF ClaimsAreExclusive
    <3> QED BY <1>1, <1>2, <1>7, <2>1, <3>1 DEF Unbatched, TypeOK
  <2>2. \A u, v \in Workers : u # v => req'[u].claimed \cap req'[v].claimed = {}
    BY <1>2, <1>3 DEF ClaimsAreExclusive
  <2> QED BY <2>1, <2>2, <1>3 DEF ClaimsAreExclusive
<1>10. LocksWhileInSql' /\ ScansAreVisible'
  BY <1>1, <1>2, <1>3 DEF LocksWhileInSql, ScansAreVisible
<1>11. IdsAreFresh'
  <2>1. \A b \in batches' : 0 < b.id /\ b.id < batchSeq'
    BY <1>1, <1>4, <1>6 DEF IdsAreFresh
  <2>2. \A b, c \in batches' : b.id = c.id => b = c
    BY <1>1, <1>4, <1>6 DEF IdsAreFresh
  <2>3. ASSUME NEW v \in Workers, req'[v].pc = "commit"
        PROVE  /\ req'[v].id # 0 /\ req'[v].id < batchSeq'
               /\ \A b \in batches' : b.id # req'[v].id
    <3>1. v # w /\ req'[v] = req[v]
      BY <1>2, <1>3, <2>3
    <3>2. req[v].id # me.id
      BY <1>1, <2>3, <3>1 DEF IdsAreFresh
    <3> QED BY <1>1, <1>6, <2>3, <3>1, <3>2 DEF IdsAreFresh
  <2>4. \A u, v \in Workers : req'[u].pc = "commit" /\ req'[v].pc = "commit" /\ u # v
                                => req'[u].id # req'[v].id
    BY <1>2, <1>3 DEF IdsAreFresh
  <2> QED BY <2>1, <2>2, <2>3, <2>4 DEF IdsAreFresh
<1>12. LatestExists'
  <2>1. CASE batches = {}
    BY <1>1, <1>4, <1>6, <2>1 DEF LatestExists, IsLatest
  <2>2. CASE batches # {}
    <3>1. PICK b \in batches : \A c \in batches : c.id <= b.id
      BY <2>2 DEF LatestExists, IsLatest
    <3>2. CASE b.id <= me.id
      <4>1. \A c \in batches' : c.id <= new.id
        BY <1>1, <1>4, <1>6, <3>1, <3>2
      <4> QED BY <1>1, <4>1 DEF LatestExists, IsLatest
    <3>3. CASE ~(b.id <= me.id)
      <4>1. \A c \in batches' : c.id <= b.id
        BY <1>1, <1>4, <1>6, <3>1, <3>3
      <4> QED BY <1>1, <4>1 DEF LatestExists, IsLatest
    <3> QED BY <3>2, <3>3
  <2> QED BY <2>1, <2>2
<1>13. EveryBatchHasAnOrigin'
  <2>1. me.prev = 0 \/ \E c \in batches : c.final = me.prev /\ c.id < me.id
    BY <1>1 DEF ReadCounterHasAnOrigin
  <2> QED BY <1>1, <1>6, <2>1 DEF EveryBatchHasAnOrigin
<1>14. ReadCounterHasAnOrigin'
  BY <1>1, <1>2, <1>3 DEF ReadCounterHasAnOrigin
<1> QED BY <1>8, <1>9, <1>10, <1>11, <1>12, <1>13, <1>14

LEMMA Step == IInv /\ [Next]_vars => IInv'
<1> SUFFICES ASSUME IInv, [Next]_vars PROVE IInv'
  OBVIOUS
<1>1. TypeOK'
  <2>1. CASE Next
    BY <2>1, TypeStep DEF IInv
  <2>2. CASE UNCHANGED vars
    BY <2>2 DEF vars, IInv, TypeOK
  <2> QED BY <2>1, <2>2
<1>2. TypeOK /\ LocksWhileInSql /\ ScansAreVisible
  BY DEF IInv
<1>3. CASE UNCHANGED vars \/ Drained \/ \E t \in TxIds : Submit(t)
  <2>1. /\ req' = req /\ link' = link /\ batches' = batches /\ batchSeq' = batchSeq
        /\ inserted \subseteq inserted'
    BY <1>3 DEF vars, Drained, Submit
  <2>2. \A w \in Workers : Kept(w)
    BY <2>1 DEF Kept
  <2> QED BY <1>1, <2>1, <2>2, QuietStep
<1>4. ASSUME NEW w \in Workers, ReadPending(w) \/ LockAds(w) \/ UnlockAds(w) PROVE IInv'
  <2>1. \A v \in Workers : Kept(v) \/ LetGo(v)
    <3>1. req[w].pc \in {"idle", "await", "nullify"}
      BY <1>4 DEF ReadPending, LockAds, UnlockAds
    <3>2. /\ req'[w].pc \in {"counter", "nullify", "store"}
          /\ req'[w].claimed = req[w].claimed /\ req'[w].scan = req[w].scan
          /\ \A v \in Workers : v # w => req'[v] = req[v]
      <4>1. CASE ReadPending(w)
        BY <1>2, <4>1 DEF ReadPending, TypeOK, Worker
      <4>2. CASE LockAds(w)
        BY <1>2, <4>2 DEF LockAds, TypeOK, Worker
      <4>3. CASE UnlockAds(w)
        BY <1>2, <4>3 DEF UnlockAds, TypeOK, Worker
      <4> QED BY <1>4, <4>1, <4>2, <4>3
    <3> QED BY <1>2, <3>1, <3>2 DEF Kept, LetGo, LocksWhileInSql, ScansAreVisible
  <2> QED BY <1>1, <1>4, <2>1, QuietStep DEF ReadPending, LockAds, UnlockAds
<1>5. ASSUME NEW w \in Workers, NEW t \in TxIds,
             InsertNullifier(w, t) \/ NullifierExists(w, t)
      PROVE  IInv'
  <2>1. CASE InsertNullifier(w, t)
    <3>1. \A v \in Workers : Kept(v) \/ LetGo(v)
      BY <1>2, <2>1 DEF InsertNullifier, Kept, TypeOK, Worker
    <3> QED BY <1>1, <2>1, <3>1, QuietStep DEF InsertNullifier
  <2>2. CASE NullifierExists(w, t)
    BY <1>1, <1>2, <2>2, ReturnLetsGo, QuietStep DEF NullifierExists
  <2> QED BY <1>5, <2>1, <2>2
<1>6. ASSUME NEW w \in Workers,
             NothingClaimed(w) \/ StoreCommit(w) \/ AbortBatch(w) \/ AdsFails(w) \/ StoreFails(w)
      PROVE  IInv'
  BY <1>1, <1>2, <1>6, ReturnLetsGo, QuietStep
     DEF NothingClaimed, StoreCommit, AbortBatch, AdsFails, StoreFails
<1>7. ASSUME NEW r \in Requests, NothingPending(r) \/ Timeout(r) PROVE IInv'
  <2>1. r \in Workers
    BY DEF Workers
  <2>2. \A v \in Workers : Kept(v) \/ LetGo(v)
    <3>1. CASE Return(r)
      BY <1>2, <2>1, <3>1, ReturnLetsGo
    <3>2. CASE req' = [req EXCEPT ![r].attached = FALSE]
      BY <1>2, <2>1, <3>2 DEF Kept, TypeOK, Worker
    <3> QED BY <1>7, <3>1, <3>2 DEF NothingPending, Timeout
  <2> QED BY <1>1, <1>7, <2>2, QuietStep DEF NothingPending, Timeout
<1>8. CASE Crash
  <2>1. ASSUME NEW v \in Workers PROVE Kept(v) \/ LetGo(v)
    <3>1. CASE req'[v] = [req[v] EXCEPT !.attached = FALSE]
      BY <1>2, <3>1 DEF Kept, TypeOK, Worker
    <3>2. CASE req'[v] = Returned(v)
      BY <3>2, FreshType DEF LetGo
    <3>3. CASE req'[v] = req[v]
      BY <3>3 DEF Kept
    <3> QED BY <1>2, <1>8, <3>1, <3>2, <3>3, CrashEffect
  <2> QED BY <1>1, <1>8, <2>1, QuietStep DEF Crash
<1> QED
  BY <1>1, <1>3, <1>4, <1>5, <1>6, <1>7, <1>8, ReadCounterStep, OpenSelectStep,
     VisitRowStep, InsertBatchStep, CommitBatchStep DEF Next, CreateBatch, AdsSteps

-----------------------------------------------------------------------------
(***************************************************************************)
(* Theorems.                                                               *)
(***************************************************************************)

\* Everything create_batch keeps true, however its calls interleave.
THEOREM Invariance == Spec => []IInv
BY InitIInv, Step, PTL DEF Spec

\* The variables have their types.
THEOREM TypeCorrect == Spec => []TypeOK
<1>1. IInv => TypeOK
  BY DEF IInv
<1> QED BY <1>1, Invariance, PTL

\* transaction_ids and included_in_batch_id agree: no transaction is ever in
\* two batches, for any number of requests that overlap, fail or are cut off.
THEOREM NoDoubleBatching == Spec => []LinksMatchBatches
<1>1. IInv => LinksMatchBatches
  BY DEF IInv
<1> QED BY <1>1, Invariance, PTL

\* SKIP LOCKED and the check of the latest row version keep unfinished calls
\* of create_batch apart.
THEOREM ExclusiveClaims == Spec => []ClaimsAreExclusive
<1>1. IInv => ClaimsAreExclusive
  BY DEF IInv
<1> QED BY <1>1, Invariance, PTL

\* The batches form a tree of counters rooted at 0 (a chain only if no two
\* calls overlap).
THEOREM BatchOrigins == Spec => []EveryBatchHasAnOrigin
<1>1. IInv => EveryBatchHasAnOrigin
  BY DEF IInv
<1> QED BY <1>1, Invariance, PTL

\* A transaction never leaves its batch.
THEOREM ClaimsLast == Spec => ClaimsAreForever
<1>1. IInv /\ [Next]_vars => [\A t \in TxIds : link[t] # 0 => link'[t] = link[t]]_link
  <2> SUFFICES ASSUME IInv, [Next]_vars, link' # link, NEW t \in TxIds, link[t] # 0
               PROVE  link'[t] = link[t]
    OBVIOUS
  <2>1. PICK w \in Workers : CommitBatch(w)
    BY DEF Next, CreateBatch, AdsSteps, vars, Submit, ReadPending, ReadCounter, OpenSelect,
           VisitRow, NothingClaimed, InsertBatch, LockAds, InsertNullifier, NullifierExists,
           UnlockAds, StoreCommit, AbortBatch, AdsFails, StoreFails, NothingPending, Timeout,
           Crash, Drained
  <2>2. t \notin req[w].claimed
    BY DEF IInv, ClaimsAreExclusive, Unbatched
  <2> QED BY <2>1, <2>2 DEF CommitBatch, NewBatch
<1> QED BY <1>1, Invariance, PTL DEF Spec, ClaimsAreForever

-----------------------------------------------------------------------------
(***************************************************************************)
(* Roots: what the write lock on the ADS is for.                           *)
(***************************************************************************)

\* The last nullifiers among the first k of a tree are those of S.
EndsWith(s, k, S) ==
  LET n == Cardinality(S)
  IN n <= k /\ k <= Len(s) /\ S = {s[i] : i \in (k - n + 1) .. k}

\* One worker inserts at a time; what it has inserted is the end of the tree,
\* and the root it takes away, or has stored, ends with what it inserted.
RootInv ==
  /\ \A v, w \in Workers : req[v].pc = "nullify" /\ req[w].pc = "nullify" => v = w
  /\ \A w \in Workers : req[w].pc = "nullify" =>
       req[w].todo \subseteq req[w].mine /\ EndsWith(tree, Len(tree), req[w].mine \ req[w].todo)
  /\ \A w \in Workers : req[w].pc = "store" => EndsWith(tree, req[w].root, req[w].mine)
  /\ \A c \in commits : EndsWith(tree, c.root, c.read)

LEMMA FiniteIds ==
  ASSUME NEW S, S \subseteq TxIds
  PROVE  IsFiniteSet(S) /\ Cardinality(S) \in Nat
BY BatchCreationAssumption, FS_Subset, FS_CardinalityType

\* Insertions after it do not touch the end of an older root.
LEMMA EndStays ==
  ASSUME NEW s \in Seq(TxIds), NEW t \in TxIds, NEW k \in Nat, NEW S, S \subseteq TxIds,
         EndsWith(s, k, S)
  PROVE  EndsWith(Append(s, t), k, S)
<1> DEFINE n == Cardinality(S)
           a == Append(s, t)
<1>1. n \in Nat /\ Len(s) \in Nat
  BY FiniteIds, LenProperties
<1>2. n <= k /\ k <= Len(s) /\ S = {s[i] : i \in (k - n + 1) .. k}
  BY DEF EndsWith
<1>3. Len(a) = Len(s) + 1 /\ \A i \in 1 .. Len(s) : a[i] = s[i]
  OBVIOUS
<1> HIDE DEF a, n
<1>4. \A i \in (k - n + 1) .. k : a[i] = s[i]
  BY <1>1, <1>2, <1>3
<1>5. S = {a[i] : i \in (k - n + 1) .. k}
  BY <1>2, <1>4
<1>6. n <= k /\ k <= Len(a)
  BY <1>1, <1>2, <1>3
<1> QED BY <1>5, <1>6 DEF EndsWith, a, n

LEMMA EndGrows ==
  ASSUME NEW s \in Seq(TxIds), NEW t \in TxIds, NEW S, S \subseteq TxIds,
         EndsWith(s, Len(s), S), t \notin Range(s)
  PROVE  EndsWith(Append(s, t), Len(Append(s, t)), S \cup {t})
<1> DEFINE n == Cardinality(S)
           a == Append(s, t)
           m == Len(s)
<1>1. n \in Nat /\ m \in Nat /\ IsFiniteSet(S) /\ DOMAIN s = 1 .. m
  BY FiniteIds, LenProperties
<1>2. n <= m /\ S = {s[i] : i \in (m - n + 1) .. m}
  BY DEF EndsWith
<1>3. Len(a) = m + 1 /\ a[m + 1] = t /\ \A i \in 1 .. m : a[i] = s[i]
  OBVIOUS
<1>4. t \notin S
  <2>1. \A i \in 1 .. m : s[i] # t
    BY <1>1 DEF Range
  <2> QED BY <1>1, <1>2, <2>1
<1>5. Cardinality(S \cup {t}) = n + 1
  BY <1>1, <1>4, FS_AddElement
<1> HIDE DEF a, n, m
<1>6. S \cup {t} = {a[i] : i \in (m - n + 1) .. (m + 1)}
  <2>1. \A i \in (m - n + 1) .. m : a[i] = s[i]
    BY <1>1, <1>2, <1>3
  <2>2. (m - n + 1) .. (m + 1) = ((m - n + 1) .. m) \cup {m + 1}
    BY <1>1, <1>2
  <2> QED BY <1>2, <1>3, <2>1, <2>2
<1>7. (m + 1) - (n + 1) + 1 = m - n + 1 /\ n + 1 <= m + 1
  BY <1>1, <1>2
<1>8. S \cup {t} = {a[i] : i \in ((m + 1) - Cardinality(S \cup {t}) + 1) .. (m + 1)}
  BY <1>5, <1>6, <1>7
<1>9. EndsWith(a, m + 1, S \cup {t})
  <2> DEFINE R == S \cup {t}
  <2>1. Cardinality(R) <= m + 1 /\ m + 1 <= Len(a)
    BY <1>1, <1>3, <1>5, <1>7
  <2>2. R = {a[i] : i \in ((m + 1) - Cardinality(R) + 1) .. (m + 1)}
    BY <1>8
  <2> HIDE DEF R
  <2>3. EndsWith(a, m + 1, R)
    BY <2>1, <2>2 DEF EndsWith
  <2> QED BY <2>3 DEF R
<1> QED BY <1>3, <1>9 DEF a

\* A worker keeps its part in the insertion, or is not or no more inserting.
SameRoot(w) ==
  \/ req'[w].pc \notin {"nullify", "store"}
  \/ /\ req'[w].pc = req[w].pc /\ req'[w].mine = req[w].mine
     /\ req'[w].todo = req[w].todo /\ req'[w].root = req[w].root

LEMMA QuietRootStep ==
  ASSUME RootInv, tree' = tree, commits' = commits, \A w \in Workers : SameRoot(w)
  PROVE  RootInv'
BY DEF RootInv, SameRoot

LEMMA RootStep ==
  ASSUME TypeOK, LatestExists, RootInv, [Next]_vars
  PROVE  RootInv'
<1> USE DEF TypeOK
<1>1. ASSUME NEW w \in Workers, Return(w) PROVE \A v \in Workers : SameRoot(v)
  BY <1>1, FreshType DEF Return, SameRoot
<1>2. CASE UNCHANGED vars
  <2>1. tree' = tree /\ commits' = commits /\ req' = req
    BY <1>2 DEF vars
  <2>2. \A w \in Workers : SameRoot(w)
    BY <2>1 DEF SameRoot
  <2> QED BY <2>1, <2>2, QuietRootStep
<1>3. CASE \E t \in TxIds : Submit(t)
  <2>1. tree' = tree /\ commits' = commits /\ req' = req
    BY <1>3 DEF Submit
  <2>2. \A w \in Workers : SameRoot(w)
    BY <2>1 DEF SameRoot
  <2> QED BY <2>1, <2>2, QuietRootStep
<1>4. ASSUME NEW w \in Workers,
             \/ ReadPending(w) \/ OpenSelect(w)
             \/ \E t \in TxIds : VisitRow(w, t)
             \/ InsertBatch(w) \/ CommitBatch(w)
      PROVE  RootInv'
  <2>1. tree' = tree /\ commits' = commits
    BY <1>4 DEF ReadPending, OpenSelect, VisitRow, InsertBatch, CommitBatch
  <2>2. \A v \in Workers : v # w => req'[v] = req[v]
    BY <1>4 DEF ReadPending, OpenSelect, VisitRow, InsertBatch, CommitBatch
  <2>3. req'[w].pc \notin {"nullify", "store"}
    <3>1. CASE CommitBatch(w)
      BY <3>1, FreshType DEF CommitBatch, Fresh
    <3>2. CASE ReadPending(w) \/ OpenSelect(w)
      BY <3>2 DEF ReadPending, OpenSelect, Worker
    <3>3. CASE InsertBatch(w) \/ \E t \in TxIds : VisitRow(w, t)
      BY <3>3 DEF VisitRow, InsertBatch, Worker
    <3> QED BY <1>4, <3>1, <3>2, <3>3
  <2>4. \A v \in Workers : SameRoot(v)
    BY <2>2, <2>3 DEF SameRoot
  <2> QED BY <2>1, <2>4, QuietRootStep
<1>5. ASSUME NEW w \in Workers,
             \/ NothingClaimed(w) \/ NothingPending(w)
             \/ \E t \in TxIds : NullifierExists(w, t)
             \/ AbortBatch(w) \/ AdsFails(w) \/ StoreFails(w)
      PROVE  RootInv'
  <2>1. tree' = tree /\ commits' = commits /\ Return(w)
    BY <1>5 DEF NothingClaimed, NullifierExists, NothingPending, AbortBatch, AdsFails, StoreFails
  <2> QED BY <1>1, <2>1, QuietRootStep
<1>6. ASSUME NEW w \in Workers, Timeout(w) PROVE RootInv'
  <2>1. tree' = tree /\ commits' = commits
    BY <1>6 DEF Timeout
  <2>2. CASE Return(w)
    BY <1>1, <2>1, <2>2, QuietRootStep
  <2>3. CASE req' = [req EXCEPT ![w].attached = FALSE]
    <3>1. \A v \in Workers : SameRoot(v)
      BY <2>3 DEF SameRoot, Worker
    <3> QED BY <2>1, <3>1, QuietRootStep
  <2> QED BY <1>6, <2>2, <2>3 DEF Timeout
<1>7. CASE Crash
  <2>1. tree' = tree /\ commits' = commits
    BY <1>7 DEF Crash
  <2>2. ASSUME NEW w \in Workers PROVE SameRoot(w)
    <3>1. [req[w] EXCEPT !.attached = FALSE].pc = req[w].pc
      BY DEF Worker
    <3>2. Returned(w).pc \in {"idle", "done"}
      BY FreshType
    <3> QED BY <1>7, <3>1, <3>2, CrashEffect DEF SameRoot, SqlPhases
  <2> QED BY <2>1, <2>2, QuietRootStep
<1>14. ASSUME NEW w \in Workers, ReadCounter(w) PROVE RootInv'
  <2>1. tree' = tree /\ commits' = commits /\ req' = Reads(w, CurrentCounter)
    BY <1>14 DEF ReadCounter
  <2>2. \A v \in Workers : SameRoot(v)
    BY <2>1, ReadsEffect, CounterType DEF SameRoot
  <2> QED BY <2>1, <2>2, QuietRootStep
<1>8. ASSUME NEW w \in Workers, LockAds(w) PROVE RootInv'
  <2>1. tree' = tree /\ commits' = commits /\ \A v \in Workers : req[v].pc # "nullify"
    BY <1>8 DEF LockAds
  <2>2. \A v \in Workers : v # w => req'[v] = req[v]
    BY <1>8 DEF LockAds
  <2>3. req'[w].pc = "nullify" /\ req'[w].todo = req'[w].mine
    BY <1>8 DEF LockAds, Worker
  <2>4. EndsWith(tree, Len(tree), {})
    <3>1. Cardinality({}) = 0 /\ Len(tree) \in Nat
      BY FS_EmptySet, LenProperties
    <3>2. (Len(tree) - 0 + 1) .. Len(tree) = {}
      BY <3>1
    <3> QED BY <3>1, <3>2 DEF EndsWith
  <2>5. req'[w].mine \ req'[w].todo = {}
    BY <2>3
  <2> QED BY <2>1, <2>2, <2>3, <2>4, <2>5 DEF RootInv
<1>9. ASSUME NEW w \in Workers, NEW t \in TxIds, InsertNullifier(w, t) PROVE RootInv'
  <2>1. /\ req[w].pc = "nullify" /\ t \in req[w].todo /\ t \notin Range(tree)
        /\ tree' = Append(tree, t) /\ commits' = commits
        /\ req' = [req EXCEPT ![w].todo = @ \ {t}]
    BY <1>9 DEF InsertNullifier, IsOldest
  <2>2. /\ \A v \in Workers : v # w => req'[v] = req[v]
        /\ req'[w].pc = "nullify" /\ req'[w].mine = req[w].mine
        /\ req'[w].todo = req[w].todo \ {t}
    BY <2>1 DEF Worker
  <2>3. \A v \in Workers : req'[v].pc = req[v].pc
    BY <2>1, <2>2
  <2>4. \A v \in Workers : v # w => req[v].pc # "nullify"
    BY <2>1 DEF RootInv
  <2>5. EndsWith(tree', Len(tree'), req'[w].mine \ req'[w].todo)
    <3> DEFINE S == req[w].mine \ req[w].todo
    <3>1. EndsWith(tree, Len(tree), S) /\ req[w].todo \subseteq req[w].mine
      BY <2>1 DEF RootInv
    <3>2. S \subseteq TxIds
      BY DEF Worker
    <3>3. req'[w].mine \ req'[w].todo = S \cup {t}
      BY <2>1, <2>2, <3>1
    <3> HIDE DEF S
    <3> QED BY <2>1, <3>1, <3>2, <3>3, EndGrows
  <2>6. \A v \in Workers : req'[v].pc = "store" => EndsWith(tree', req'[v].root, req'[v].mine)
    <3>1. ASSUME NEW v \in Workers, req'[v].pc = "store"
          PROVE  EndsWith(tree', req'[v].root, req'[v].mine)
      <4>1. v # w /\ req'[v] = req[v]
        BY <2>2, <3>1
      <4>2. EndsWith(tree, req[v].root, req[v].mine)
        BY <3>1, <4>1 DEF RootInv
      <4>3. req[v].root \in Nat /\ req[v].mine \subseteq TxIds
        BY DEF Worker
      <4> QED BY <2>1, <4>1, <4>2, <4>3, EndStays
    <3> QED BY <3>1
  <2>7. \A c \in commits : EndsWith(tree', c.root, c.read)
    <3>1. \A c \in commits : /\ c.root \in Nat /\ c.read \subseteq TxIds
                            /\ EndsWith(tree, c.root, c.read)
      BY DEF StateCommit, RootInv
    <3> QED BY <2>1, <3>1, EndStays
  <2>8. req'[w].todo \subseteq req'[w].mine
    BY <2>1, <2>2 DEF RootInv
  <2> QED BY <2>1, <2>2, <2>3, <2>4, <2>5, <2>6, <2>7, <2>8 DEF RootInv
<1>10. ASSUME NEW w \in Workers, UnlockAds(w) PROVE RootInv'
  <2>1. /\ tree' = tree /\ commits' = commits /\ req[w].pc = "nullify" /\ req[w].todo = {}
        /\ \A v \in Workers : v # w => req'[v] = req[v]
    BY <1>10 DEF UnlockAds
  <2>2. /\ req'[w].pc = "store" /\ req'[w].root = Len(tree) /\ req'[w].mine = req[w].mine
    BY <1>10 DEF UnlockAds, Worker
  <2>3. EndsWith(tree, Len(tree), req[w].mine)
    <3>1. req[w].mine \ req[w].todo = req[w].mine
      BY <2>1
    <3> QED BY <2>1, <3>1 DEF RootInv
  <2> QED BY <2>1, <2>2, <2>3 DEF RootInv
<1>11. ASSUME NEW w \in Workers, StoreCommit(w) PROVE RootInv'
  <2> DEFINE new == [batch |-> req[w].id, root |-> req[w].root, read |-> req[w].mine]
  <2>1. tree' = tree /\ commits' = commits \cup {new} /\ Return(w) /\ req[w].pc = "store"
    BY <1>11 DEF StoreCommit
  <2>2. EndsWith(tree, new.root, new.read)
    BY <2>1 DEF RootInv
  <2>3. \A v \in Workers : SameRoot(v)
    BY <1>1, <2>1
  <2> HIDE DEF new
  <2> QED BY <2>1, <2>2, <2>3 DEF RootInv, SameRoot
<1>12. Requests \subseteq Workers
  BY DEF Workers
<1>13. CASE Drained
  BY <1>2, <1>13 DEF Drained
<1> QED BY <1>2, <1>3, <1>4, <1>5, <1>6, <1>7, <1>8, <1>9, <1>10, <1>11, <1>12, <1>13, <1>14
        DEF Next, CreateBatch, AdsSteps

\* The root stored for a batch ends with the nullifiers its worker inserted,
\* in one piece, for any number of workers that insert, fail or are cut off.
THEOREM RootsEndWithOwnNullifiers == Spec => []RootEndsWithOwnNullifiers
<1>1. Init => RootInv
  BY DEF Init, RootInv, Fresh
<1>2. IInv /\ RootInv /\ [Next]_vars => RootInv'
  BY RootStep DEF IInv
<1>3. RootInv => RootEndsWithOwnNullifiers
  BY DEF RootInv, RootEndsWithOwnNullifiers, EndsWith
<1> QED BY <1>1, <1>2, <1>3, Invariance, PTL DEF Spec

-----------------------------------------------------------------------------
(***************************************************************************)
(* BatchCreation implements BatchLedger.  What this adds to the invariant: *)
(* while a call of create_batch overlaps no other, the counter it read is  *)
(* still current, and its batch will be the latest.                        *)
(***************************************************************************)
CrowdInv ==
  /\ \A v, w \in Workers : Reading(v) /\ Reading(w) /\ v # w => req[w].overlapped
  /\ \A w \in Workers : Reading(w) /\ ~req[w].overlapped =>
       /\ req[w].prev = CurrentCounter
       /\ req[w].pc = "commit" => \A b \in batches : b.id < req[w].id
  /\ \A t \in TxIds : link[t] # 0 => t \in inserted

\* What the variables of BatchLedger are mapped to.
pastCounters == {0} \cup {b.final : b \in batches}
takenIds == {t \in TxIds : link[t] # 0}
ledgerVars == <<Unbatched, takenIds, CurrentCounter, pastCounters, Crowded>>

LEMMA CrowdIsBoolean == Crowded \in BOOLEAN /\ Crowded' \in BOOLEAN
BY DEF Crowded

\* Steps that change no batch only make or end a crowd.
LEMMA QuietLedgerStep ==
  ASSUME UNCHANGED <<inserted, link, batches>>
  PROVE  CurrentCounter' = CurrentCounter /\ Ledger!Crowd
<1>1. /\ Unbatched' = Unbatched /\ takenIds' = takenIds /\ CurrentCounter' = CurrentCounter
      /\ pastCounters' = pastCounters
  BY DEF Unbatched, takenIds, CurrentCounter, IsLatest, pastCounters
<1> QED BY <1>1, CrowdIsBoolean DEF Ledger!Crowd, takenIds, pastCounters

LEMMA QuietCrowdStep ==
  ASSUME CrowdInv, UNCHANGED <<inserted, link, batches>>,
         \A w \in Workers : Kept(w) \/ LetGo(w)
  PROVE  CrowdInv'
<1>1. CurrentCounter' = CurrentCounter
  BY QuietLedgerStep
<1> QED BY <1>1 DEF CrowdInv, Kept, LetGo, Reading

\* The row that ORDER BY id DESC LIMIT 1 returns after a batch is inserted:
\* the new one, if its id is the greatest, or the one returned before.
LEMMA CommitCounter ==
  ASSUME IInv, IInv', NEW w \in Workers, CommitBatch(w)
  PROVE  /\ \/ CurrentCounter' = req[w].prev + Total(req[w].claimed)
            \/ CurrentCounter' = CurrentCounter
         /\ (\A b \in batches : b.id < req[w].id)
              => CurrentCounter' = req[w].prev + Total(req[w].claimed)
<1> DEFINE new == NewBatch(req[w])
           last == CHOOSE c \in batches' : c \in batches' /\ \A d \in batches' : d.id <= c.id
<1>1. batches' = batches \cup {new} /\ batches \subseteq Batch /\ req[w].id \in Nat
  BY DEF CommitBatch, IInv, TypeOK, Worker
<1>2. new.id = req[w].id /\ new.final = req[w].prev + Total(req[w].claimed)
  BY DEF NewBatch
<1> HIDE DEF new
<1>3. last \in batches' /\ \A d \in batches' : d.id <= last.id
  <2>1. \E c \in batches' : c \in batches' /\ \A d \in batches' : d.id <= c.id
    BY <1>1 DEF IInv, LatestExists, IsLatest
  <2> QED BY <2>1
<1>4. CurrentCounter' = last.final
  BY <1>1 DEF CurrentCounter, IsLatest
<1> HIDE DEF last
<1>5. CASE last = new
  BY <1>2, <1>4, <1>5
<1>6. CASE last # new
  <2>1. last \in batches /\ \A d \in batches : d.id <= last.id
    BY <1>1, <1>3, <1>6
  <2>2. \A c \in batches : (\A d \in batches : d.id <= c.id) => c = last
    BY <1>1, <2>1 DEF IInv, IdsAreFresh, Batch
  <2>3. CurrentCounter = last.final
    <3>1. (CHOOSE b \in batches : IsLatest(b)) = last
      BY <2>1, <2>2 DEF IsLatest
    <3> QED BY <2>1, <3>1 DEF CurrentCounter
  <2>4. req[w].id <= last.id
    BY <1>1, <1>2, <1>3
  <2>5. ~(\A b \in batches : b.id < req[w].id)
    BY <1>1, <2>1, <2>4 DEF Batch
  <2> QED BY <1>4, <2>3, <2>5
<1> QED BY <1>5, <1>6

LEMMA CommitBatchTakes ==
  ASSUME IInv, IInv', CrowdInv, NEW w \in Workers, CommitBatch(w),
         NEW S, S = req[w].claimed
  PROVE  Ledger!TakeBatch(S)
<1> DEFINE from == req[w].prev
<1>1. /\ req[w].pc = "commit" /\ batches' = batches \cup {NewBatch(req[w])}
      /\ inserted' = inserted
      /\ link' = [t \in TxIds |-> IF t \in S THEN req[w].id ELSE link[t]]
  BY DEF CommitBatch
<1>2. S # {} /\ S \subseteq Unbatched /\ S \subseteq TxIds /\ req[w].id # 0
  BY <1>1 DEF IInv, LocksWhileInSql, ClaimsAreExclusive, IdsAreFresh, TypeOK, Worker
<1>3. Unbatched' = Unbatched \ S
  BY <1>1, <1>2 DEF Unbatched, IInv, TypeOK
<1>4. takenIds' = takenIds \cup S
  BY <1>1, <1>2 DEF takenIds
<1>5. pastCounters' = pastCounters \cup {from + Total(S)}
  <2> DEFINE new == NewBatch(req[w])
  <2>1. new.final = from + Total(S)
    BY DEF NewBatch
  <2>2. batches' = batches \cup {new}
    BY <1>1
  <2> HIDE DEF new, from
  <2> QED BY <2>1, <2>2 DEF pastCounters
<1>6. Reading(w)
  BY <1>1 DEF Reading
<1>7. from \in (IF Crowded THEN pastCounters ELSE {CurrentCounter})
  <2>1. from \in pastCounters
    BY <1>6 DEF IInv, ReadCounterHasAnOrigin, pastCounters, Reading
  <2>2. ~req[w].overlapped => from = CurrentCounter
    BY <1>6 DEF CrowdInv
  <2>3. req[w].overlapped => Crowded
    BY <1>6 DEF Crowded
  <2> QED BY <2>1, <2>2, <2>3
<1>8. CurrentCounter' = from + Total(S) \/ (Crowded /\ CurrentCounter' = CurrentCounter)
  <2>1. CASE req[w].overlapped
    <3>1. Crowded
      BY <1>6, <2>1 DEF Crowded
    <3> QED BY <3>1, CommitCounter
  <2>2. CASE ~req[w].overlapped
    <3>1. \A b \in batches : b.id < req[w].id
      BY <1>1, <1>6, <2>2 DEF CrowdInv
    <3> QED BY <3>1, CommitCounter
  <2> QED BY <2>1, <2>2
<1> HIDE DEF from
<1> QED BY <1>2, <1>3, <1>4, <1>5, <1>7, <1>8, CrowdIsBoolean
        DEF Ledger!TakeBatch, takenIds, pastCounters

LEMMA CommitBatchCrowd ==
  ASSUME IInv, CrowdInv, NEW w \in Workers, CommitBatch(w)
  PROVE  CrowdInv'
<1>1. Reading(w) /\ \A v \in Workers : v # w => req'[v] = req[v]
  BY DEF CommitBatch, Reading, IInv, TypeOK
<1>2. req'[w].pc \notin {"select", "claim", "commit"}
  BY FreshType DEF CommitBatch, IInv, TypeOK, Fresh
<1>3. \A v \in Workers : Reading(v)' => v # w /\ req'[v] = req[v] /\ req'[v].overlapped
  BY <1>1, <1>2 DEF Reading, CrowdInv
<1>4. \A t \in TxIds : link'[t] # 0 => t \in inserted'
  BY DEF CommitBatch, CrowdInv, IInv, ClaimsAreExclusive, Unbatched
<1> QED BY <1>3, <1>4 DEF CrowdInv

LEMMA ReadCounterCrowd ==
  ASSUME IInv, CrowdInv, NEW w \in Workers, ReadCounter(w)
  PROVE  CrowdInv'
<1>1. TypeOK /\ CurrentCounter \in Int /\ req' = Reads(w, CurrentCounter)
      /\ req[w].pc = "counter" /\ UNCHANGED <<inserted, link, batches>>
  BY CounterType DEF IInv, ReadCounter
<1>2. CurrentCounter' = CurrentCounter
  BY <1>1, QuietLedgerStep
<1>3. /\ req'[w].pc = "select" /\ req'[w].prev = CurrentCounter
      /\ req'[w].overlapped = \E u \in Workers : Reading(u)
      /\ \A v \in Workers : v # w =>
           /\ req'[v].pc = req[v].pc
           /\ req'[v].overlapped = (req[v].overlapped \/ Reading(v))
  BY ONLY <1>1, ReadsEffect
<1>4. \A v \in Workers : v # w => (Reading(v)' <=> Reading(v))
  BY <1>3 DEF Reading
<1>5. \A v \in Workers : v # w /\ Reading(v)' => req'[v].overlapped /\ req'[w].overlapped
  BY <1>3, <1>4
<1>6. \A t \in TxIds : link'[t] # 0 => t \in inserted'
  BY <1>1 DEF CrowdInv
<1> QED BY <1>2, <1>3, <1>5, <1>6 DEF CrowdInv

\* The steps between reading the counter and the commit.
LEMMA InSqlCrowd ==
  ASSUME IInv, CrowdInv, NEW w \in Workers,
         OpenSelect(w) \/ InsertBatch(w) \/ \E t \in TxIds : VisitRow(w, t)
  PROVE  CrowdInv' /\ UNCHANGED <<inserted, link, batches>>
<1>1. /\ UNCHANGED <<inserted, link, batches>>
      /\ Reading(w) /\ req'[w].prev = req[w].prev /\ req'[w].overlapped = req[w].overlapped
      /\ \A v \in Workers : v # w => req'[v] = req[v]
      /\ req'[w].pc = "commit" => req'[w].id = batchSeq
  <2> USE DEF IInv, TypeOK, Worker, Reading
  <2>1. CASE OpenSelect(w)
    BY <2>1 DEF OpenSelect
  <2>2. CASE InsertBatch(w)
    BY <2>2 DEF InsertBatch
  <2>3. ASSUME NEW t \in TxIds, VisitRow(w, t)
        PROVE  /\ UNCHANGED <<inserted, link, batches>>
               /\ req[w].pc = "claim" /\ req'[w].pc = "claim" /\ req'[w].prev = req[w].prev
               /\ req'[w].overlapped = req[w].overlapped
               /\ \A v \in Workers : v # w => req'[v] = req[v]
    <3>1. PICK C : req' = [req EXCEPT ![w].scan = @ \ {t}, ![w].claimed = C]
      BY <2>3 DEF VisitRow
    <3>2. UNCHANGED <<inserted, link, batches>> /\ req[w].pc = "claim"
      BY <2>3 DEF VisitRow
    <3>3. req \in [Workers -> Worker]
      OBVIOUS
    <3>4. /\ req'[w].pc = req[w].pc /\ req'[w].prev = req[w].prev
          /\ req'[w].overlapped = req[w].overlapped
          /\ \A v \in Workers : v # w => req'[v] = req[v]
      BY ONLY <3>1, <3>3 DEF Worker
    <3> QED BY <3>2, <3>4
  <2> QED BY <2>1, <2>2, <2>3
<1>2. CurrentCounter' = CurrentCounter
  BY <1>1, QuietLedgerStep
<1>3. \A b \in batches : b.id < batchSeq
  BY DEF IInv, IdsAreFresh
<1>4. \A v \in Workers : Reading(v)' => Reading(v)
  BY <1>1 DEF Reading
<1>5. \A v \in Workers : req'[v].overlapped = req[v].overlapped /\ req'[v].prev = req[v].prev
  BY <1>1
<1>6. \A v, u \in Workers : Reading(v)' /\ Reading(u)' /\ v # u => req'[u].overlapped
  BY <1>4, <1>5 DEF CrowdInv
<1>7. ASSUME NEW v \in Workers, Reading(v)', ~req'[v].overlapped
      PROVE  /\ req'[v].prev = CurrentCounter'
             /\ req'[v].pc = "commit" => \A b \in batches' : b.id < req'[v].id
  <2>1. Reading(v) /\ ~req[v].overlapped
    BY <1>4, <1>5, <1>7
  <2>2. req'[v].prev = CurrentCounter'
    BY <1>2, <1>5, <2>1 DEF CrowdInv
  <2>3. CASE v = w
    BY <1>1, <1>3, <2>2, <2>3
  <2>4. CASE v # w
    BY <1>1, <2>1, <2>2, <2>4 DEF CrowdInv
  <2> QED BY <2>3, <2>4
<1>8. \A t \in TxIds : link'[t] # 0 => t \in inserted'
  BY <1>1 DEF CrowdInv
<1> QED BY <1>1, <1>6, <1>7, <1>8 DEF CrowdInv

LEMMA SubmitLedger ==
  ASSUME CrowdInv, NEW t \in TxIds, Submit(t)
  PROVE  CrowdInv' /\ Ledger!Submit(t)
<1>1. /\ inserted' = inserted \cup {t} /\ t \notin inserted /\ link[t] = 0
      /\ link' = link /\ batches' = batches /\ req' = req
  BY DEF Submit, CrowdInv
<1>2. CurrentCounter' = CurrentCounter /\ pastCounters' = pastCounters /\ Crowded' = Crowded
  BY <1>1 DEF CurrentCounter, IsLatest, pastCounters, Crowded, Reading
<1>3. t \notin Unbatched \cup takenIds /\ Unbatched' = Unbatched \cup {t} /\ takenIds' = takenIds
  BY <1>1 DEF Unbatched, takenIds
<1>4. CrowdInv'
  BY <1>1, <1>2 DEF CrowdInv, Reading
<1>5. Ledger!Submit(t)
  BY <1>2, <1>3 DEF Ledger!Submit, takenIds, pastCounters
<1> QED BY <1>4, <1>5

LEMMA LedgerStep ==
  ASSUME IInv, IInv', CrowdInv, [Next]_vars
  PROVE  CrowdInv' /\ [Ledger!Next]_(Ledger!vars)
<1> DEFINE Quiet == /\ UNCHANGED <<inserted, link, batches>>
                    /\ \A v \in Workers : Kept(v) \/ LetGo(v)
<1>1. TypeOK /\ LocksWhileInSql /\ ScansAreVisible
  BY DEF IInv
<1>2. ASSUME Quiet PROVE CrowdInv' /\ Ledger!Next
  BY <1>2, QuietCrowdStep, QuietLedgerStep DEF Ledger!Next
<1> HIDE DEF Quiet
<1>3. CASE UNCHANGED vars \/ Drained
  BY <1>3, <1>2 DEF vars, Drained, Kept, Quiet
<1>4. ASSUME NEW t \in TxIds, Submit(t) PROVE CrowdInv' /\ Ledger!Next
  BY <1>4, SubmitLedger DEF Ledger!Next
<1>5. ASSUME NEW w \in Workers, ReadCounter(w) PROVE CrowdInv' /\ Ledger!Next
  BY <1>5, ReadCounterCrowd, QuietLedgerStep DEF Ledger!Next, ReadCounter
<1>6. ASSUME NEW w \in Workers,
             OpenSelect(w) \/ InsertBatch(w) \/ \E t \in TxIds : VisitRow(w, t)
      PROVE  CrowdInv' /\ Ledger!Next
  BY <1>6, InSqlCrowd, QuietLedgerStep DEF Ledger!Next
<1>7. ASSUME NEW w \in Workers, CommitBatch(w) PROVE CrowdInv' /\ Ledger!Next
  <2>1. CrowdInv'
    BY <1>7, CommitBatchCrowd
  <2>2. PICK S \in SUBSET TxIds : S = req[w].claimed
    BY <1>1 DEF TypeOK, Worker
  <2>3. Ledger!TakeBatch(S)
    BY <1>7, <2>2, CommitBatchTakes
  <2> QED BY <2>1, <2>3 DEF Ledger!Next
<1>8. ASSUME NEW w \in Workers, ReadPending(w) \/ LockAds(w) \/ UnlockAds(w)
      PROVE  Quiet
  <2>1. /\ UNCHANGED <<inserted, link, batches>>
        /\ req[w].pc \in {"idle", "await", "nullify"}
    BY <1>8 DEF ReadPending, LockAds, UnlockAds
  <2>2. /\ req'[w].pc \in {"counter", "nullify", "store"}
        /\ req'[w].claimed = req[w].claimed /\ req'[w].scan = req[w].scan
        /\ \A v \in Workers : v # w => req'[v] = req[v]
    <3>1. CASE ReadPending(w)
      BY <1>1, <3>1 DEF ReadPending, TypeOK, Worker
    <3>2. CASE LockAds(w)
      BY <1>1, <3>2 DEF LockAds, TypeOK, Worker
    <3>3. CASE UnlockAds(w)
      BY <1>1, <3>3 DEF UnlockAds, TypeOK, Worker
    <3> QED BY <1>8, <3>1, <3>2, <3>3
  <2> QED BY <1>1, <2>1, <2>2 DEF Kept, LetGo, LocksWhileInSql, ScansAreVisible, Quiet
<1>9. ASSUME NEW w \in Workers,
             \/ NothingClaimed(w) \/ StoreCommit(w) \/ AbortBatch(w) \/ AdsFails(w)
             \/ StoreFails(w) \/ \E t \in TxIds : NullifierExists(w, t)
      PROVE  Quiet
  BY <1>1, <1>9, ReturnLetsGo
     DEF NothingClaimed, StoreCommit, AbortBatch, AdsFails, StoreFails, NullifierExists, Quiet
<1>10. ASSUME NEW w \in Workers, NEW t \in TxIds, InsertNullifier(w, t) PROVE Quiet
  BY <1>1, <1>10 DEF InsertNullifier, Kept, TypeOK, Worker, Quiet
<1>11. ASSUME NEW r \in Requests, NothingPending(r) \/ Timeout(r) PROVE Quiet
  <2>1. r \in Workers /\ UNCHANGED <<inserted, link, batches>>
    BY <1>11 DEF Workers, NothingPending, Timeout
  <2>2. CASE Return(r)
    BY <1>1, <2>1, <2>2, ReturnLetsGo DEF Quiet
  <2>3. CASE req' = [req EXCEPT ![r].attached = FALSE]
    BY <1>1, <2>1, <2>3 DEF Kept, TypeOK, Worker, Quiet
  <2> QED BY <1>11, <2>2, <2>3 DEF NothingPending, Timeout
<1>12. CASE Crash
  <2>1. ASSUME NEW v \in Workers PROVE Kept(v) \/ LetGo(v)
    <3>1. CASE req'[v] = [req[v] EXCEPT !.attached = FALSE]
      BY <1>1, <3>1 DEF Kept, TypeOK, Worker
    <3>2. CASE req'[v] = Returned(v)
      BY <3>2, FreshType DEF LetGo
    <3>3. CASE req'[v] = req[v]
      BY <3>3 DEF Kept
    <3> QED BY <1>1, <1>12, <3>1, <3>2, <3>3, CrashEffect
  <2>2. Quiet
    BY <1>12, <2>1 DEF Crash, Quiet
  <2> QED BY <1>2, <2>2
<1>13. ASSUME NEW w \in Workers, CreateBatch(w) PROVE CrowdInv' /\ Ledger!Next
  BY <1>2, <1>5, <1>6, <1>7, <1>9, <1>13 DEF CreateBatch
<1>14. ASSUME NEW w \in Workers, ReadPending(w) \/ AdsSteps(w)
       PROVE  CrowdInv' /\ Ledger!Next
  BY <1>2, <1>8, <1>9, <1>10, <1>14 DEF AdsSteps
<1>15. ASSUME NEW w \in Workers, AbortBatch(w) \/ AdsFails(w) \/ StoreFails(w)
       PROVE  CrowdInv' /\ Ledger!Next
  BY <1>2, <1>9, <1>15
<1>16. ASSUME NEW r \in Requests, NothingPending(r) \/ Timeout(r)
       PROVE  CrowdInv' /\ Ledger!Next
  BY <1>2, <1>11, <1>16
<1>17. \/ UNCHANGED vars \/ Drained \/ Crash
       \/ \E t \in TxIds : Submit(t)
       \/ \E w \in Workers : CreateBatch(w)
       \/ \E w \in Workers : ReadPending(w) \/ AdsSteps(w)
       \/ \E w \in Workers : AbortBatch(w) \/ AdsFails(w) \/ StoreFails(w)
       \/ \E r \in Requests : NothingPending(r) \/ Timeout(r)
  BY DEF Next
<1> QED BY <1>3, <1>4, <1>12, <1>13, <1>14, <1>15, <1>16, <1>17

(***************************************************************************)
(* Batch creation implements the ledger, for any number of requests and    *)
(* background processors, through every failure and crash: batches whose   *)
(* calls do not overlap keep one continuous counter.                       *)
(***************************************************************************)
THEOREM BatchesImplementLedger == Spec => ImplementsLedger
<1>1. Init => CrowdInv /\ Ledger!Init
  BY DEF Init, CrowdInv, Fresh, Ledger!Init, Unbatched, CurrentCounter, Crowded, Reading
<1>2. IInv /\ IInv' /\ CrowdInv /\ [Next]_vars => CrowdInv' /\ [Ledger!Next]_(Ledger!vars)
  BY LedgerStep
<1> QED BY <1>1, <1>2, Invariance, PTL DEF Spec, ImplementsLedger, Ledger!Spec

=============================================================================
