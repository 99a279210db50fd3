----------------------- MODULE ArithmeticContract_proofs -----------------------
(***************************************************************************)
(* Proofs about ArithmeticContract, for every finite set of accounts and   *)
(* states, any proofs, results and hashes, batches of any size and any     *)
(* number of calls.                                                        *)
(*                                                                         *)
(* Everything is proved of a value of the storage: Sound is preserved by   *)
(* the body that single and batched updates share (PostIsSound), hence by  *)
(* every turn of the loop of a batch (BatchIsSound), by the counting of    *)
(* an update and by the counting of reads.  The actions follow.            *)
(***************************************************************************)
EXTENDS ArithmeticContract, FiniteSums, SequenceTheorems

\* Every proof in the enumeration exists, at the place its index says, and
\* every proof that exists is at its place.
Enumerated(s) ==
  /\ \A k \in 1 .. Len(s.allProofIds) :
       /\ Exists(s, s.allProofIds[k])
       /\ s.proofIdToIndex[s.allProofIds[k]] = k - 1
  /\ \A id \in ProofIds : Exists(s, id) =>
       /\ s.proofIdToIndex[id] + 1 \in 1 .. Len(s.allProofIds)
       /\ s.allProofIds[s.proofIdToIndex[id] + 1] = id

\* Metadata is that of a proof with this hash, which the verifier accepts.
Genuine(s) ==
  \A id \in ProofIds : Exists(s, id) =>
    /\ Keccak[s.proofMetadata[id].proof] = id
    /\ <<s.proofMetadata[id].result, s.proofMetadata[id].proof>> \in Accepted

\* The proofs of a state are those filed under it, in the order of the enumeration.
FiledUnder(s, i) ==
  LET list == s.stateToProofs[i]
  IN /\ \A m \in 1 .. Len(list) :
          Exists(s, list[m]) /\ s.proofMetadata[list[m]].stateId = i
     /\ \A id \in ProofIds : Exists(s, id) /\ s.proofMetadata[id].stateId = i =>
          \E m \in 1 .. Len(list) : list[m] = id
     /\ \A m, n \in 1 .. Len(list) :
          m < n => s.proofIdToIndex[list[m]] < s.proofIdToIndex[list[n]]

\* The roots of a state and its proofs go together.
Paired(s, i) ==
  LET history == s.stateHistory[i]
      proofs == s.stateToProofs[i]
  IN /\ Len(history) = Len(proofs)
     /\ s.currentState[i] = IF history = <<>> THEN None ELSE history[Len(history)]
     /\ s.latestProofForState[i] = IF proofs = <<>> THEN None ELSE proofs[Len(proofs)]

\* All that a count has counted
AllOf(count) == SumFunction(count)

Counted(s) ==
  LET stats == s.eventStats
      updates == stats.stateUpdates + stats.batchUpdates + stats.proofStored
      counted == AllOf(s.eventCountBySubmitter)
  IN /\ stats.proofStored = Len(s.allProofIds)
     /\ AllOf(s.eventCountByStateId) = Len(s.allProofIds) + stats.stateReads
     /\ counted >= updates + stats.stateReads
     /\ counted >= updates + stats.proofReads

Sound(s) ==
  /\ s \in Storage
  /\ Enumerated(s)
  /\ Genuine(s)
  /\ \A i \in StateIds : FiledUnder(s, i) /\ Paired(s, i)
  /\ Counted(s)

\* Nothing recorded in s is different in t.
Keeps(s, t) ==
  /\ \A id \in ProofIds : Exists(s, id) => t.proofMetadata[id] = s.proofMetadata[id]
  /\ \A i \in StateIds :
       /\ Len(s.stateHistory[i]) <= Len(t.stateHistory[i])
       /\ \A k \in 1 .. Len(s.stateHistory[i]) : t.stateHistory[i][k] = s.stateHistory[i][k]

IInv ==
  /\ owner \in Accounts
  /\ authorizedPosters \subseteq Accounts
  /\ readEventTrackingEnabled \in BOOLEAN
  /\ Sound(storage)

-----------------------------------------------------------------------------
(***************************************************************************)
(* Counting                                                                *)
(***************************************************************************)

Stats == [stateUpdates: Nat, batchUpdates: Nat, proofStored: Nat,
          stateReads: Nat, proofReads: Nat]

\* A count is a function into the naturals; one more for one argument.
LEMMA OneMore ==
  ASSUME NEW S, IsFiniteSet(S), NEW f \in [S -> Nat], NEW x \in S
  PROVE  /\ [f EXCEPT ![x] = @ + 1] \in [S -> Nat]
         /\ AllOf([f EXCEPT ![x] = @ + 1]) = AllOf(f) + 1
         /\ AllOf(f) \in Int
<1> DEFINE g == [f EXCEPT ![x] = @ + 1]
<1>1. g \in [S -> Nat]
  OBVIOUS
<1>2. f \in [S -> Int] /\ g \in [S -> Int]
  BY <1>1
<1>3. g[x] = f[x] + 1 /\ \A y \in S \ {x} : g[y] = f[y]
  OBVIOUS
<1> HIDE DEF g
<1>4. SumFunction(g) = SumFunction(f) + 1 /\ SumFunction(f) \in Int
  BY <1>2, <1>3, SumGoesUp
<1> QED BY <1>1, <1>4 DEF g, AllOf

LEMMA NothingCounted ==
  ASSUME NEW S, IsFiniteSet(S), NEW f \in [S -> {0}]
  PROVE  AllOf(f) = 0
<1>1. SumFunctionOnSet(f, S) = 0
  BY SumIsZero
<1>2. SumFunction(f) = SumFunctionOnSet(f, S)
  BY DEF SumFunction
<1> QED BY <1>1, <1>2 DEF AllOf

\* What only counts leaves the records as they are.
SameRecords(s, t) ==
  /\ t.currentState = s.currentState
  /\ t.stateHistory = s.stateHistory
  /\ t.proofMetadata = s.proofMetadata
  /\ t.proofIdToIndex = s.proofIdToIndex
  /\ t.allProofIds = s.allProofIds
  /\ t.stateToProofs = s.stateToProofs
  /\ t.latestProofForState = s.latestProofForState

LEMMA SameRecordsSound ==
  ASSUME NEW s, NEW t, Sound(s), t \in Storage, SameRecords(s, t), Counted(t)
  PROVE  Sound(t) /\ Keeps(s, t)
<1>1. Enumerated(t)
  BY DEF Sound, Enumerated, SameRecords, Exists
<1>2. Genuine(t)
  BY DEF Sound, Genuine, SameRecords, Exists
<1>3. \A i \in StateIds : FiledUnder(t, i)
  BY DEF Sound, FiledUnder, SameRecords, Exists
<1>4. \A i \in StateIds : Paired(t, i)
  BY DEF Sound, Paired, SameRecords
<1>5. Keeps(s, t)
  BY DEF Sound, Storage, Keeps, SameRecords
<1> QED BY <1>1, <1>2, <1>3, <1>4, <1>5 DEF Sound

\* One event of a kind, by the sender, is counted.
CountsOne(s, sender, kind, t) ==
  /\ t \in Storage
  /\ SameRecords(s, t)
  /\ t.eventStats = [s.eventStats EXCEPT ![kind] = @ + 1]
  /\ t.eventCountBySubmitter = [s.eventCountBySubmitter EXCEPT ![sender] = @ + 1]
  /\ t.eventCountByStateId = s.eventCountByStateId

LEMMA StatsFields ==
  ASSUME NEW s \in Storage, NEW sender \in Accounts,
         NEW kind \in {"stateUpdates", "batchUpdates", "proofStored"},
         NEW t, t = UpdateEventStats(s, sender, kind)
  PROVE  CountsOne(s, sender, kind, t)
<1>1. t = [[s EXCEPT !.eventStats = [s.eventStats EXCEPT ![kind] = @ + 1]]
             EXCEPT !.eventCountBySubmitter = [s.eventCountBySubmitter EXCEPT ![sender] = @ + 1]]
  BY DEF UpdateEventStats, Storage
<1>2. /\ SameRecords(s, t)
      /\ t.eventStats = [s.eventStats EXCEPT ![kind] = @ + 1]
      /\ t.eventCountBySubmitter = [s.eventCountBySubmitter EXCEPT ![sender] = @ + 1]
      /\ t.eventCountByStateId = s.eventCountByStateId
  BY <1>1 DEF Storage, SameRecords
<1>3. [s.eventStats EXCEPT ![kind] = @ + 1] \in Stats
  <2>1. s.eventStats \in Stats
    BY DEF Storage, Stats
  <2> QED BY <2>1 DEF Stats
<1>4. [s.eventCountBySubmitter EXCEPT ![sender] = @ + 1] \in [Accounts -> Nat]
  BY DEF Storage
<1>5. t \in Storage
  BY <1>1, <1>3, <1>4 DEF Storage, Stats
<1> QED BY <1>2, <1>5 DEF CountsOne

\* An update or a batch is counted.
LEMMA CountingIsSound ==
  ASSUME NEW s, Sound(s), NEW sender \in Accounts,
         NEW kind \in {"stateUpdates", "batchUpdates"},
         NEW t, t = UpdateEventStats(s, sender, kind)
  PROVE  Sound(t) /\ Keeps(s, t)
<1>1. /\ t \in Storage
      /\ SameRecords(s, t)
      /\ t.eventStats = [s.eventStats EXCEPT ![kind] = @ + 1]
      /\ t.eventCountBySubmitter = [s.eventCountBySubmitter EXCEPT ![sender] = @ + 1]
      /\ t.eventCountByStateId = s.eventCountByStateId
  <2>1. s \in Storage /\ kind \in {"stateUpdates", "batchUpdates", "proofStored"}
    BY DEF Sound
  <2>2. CountsOne(s, sender, kind, t)
    BY <2>1, StatsFields
  <2> QED BY <2>2 DEF CountsOne
<1>2. /\ AllOf(t.eventCountBySubmitter) = AllOf(s.eventCountBySubmitter) + 1
      /\ AllOf(s.eventCountBySubmitter) \in Int
  <2>1. IsFiniteSet(Accounts)
    BY ContractAssumption
  <2>2. s.eventCountBySubmitter \in [Accounts -> Nat]
    BY DEF Sound, Storage
  <2> QED BY <1>1, <2>1, <2>2, OneMore
<1>3. s.eventStats \in Stats
  BY DEF Sound, Storage, Stats
<1>4. /\ t.eventStats.stateUpdates + t.eventStats.batchUpdates =
           s.eventStats.stateUpdates + s.eventStats.batchUpdates + 1
      /\ t.eventStats.proofStored = s.eventStats.proofStored
      /\ t.eventStats.stateReads = s.eventStats.stateReads
      /\ t.eventStats.proofReads = s.eventStats.proofReads
      /\ t.eventStats.stateUpdates \in Nat /\ t.eventStats.batchUpdates \in Nat
  BY <1>1, <1>3 DEF Stats
<1>5. t.allProofIds = s.allProofIds
  BY <1>1 DEF SameRecords
<1>6. Counted(t)
  <2>1. Counted(s)
    BY DEF Sound
  <2>2. AllOf(t.eventCountByStateId) = AllOf(s.eventCountByStateId)
    BY <1>1
  <2> DEFINE f == s.eventStats
             g == t.eventStats
  <2>3. /\ f.stateUpdates \in Nat /\ f.batchUpdates \in Nat /\ f.proofStored \in Nat
        /\ f.stateReads \in Nat /\ f.proofReads \in Nat
    BY <1>3 DEF Stats
  <2>4. /\ g.proofStored = Len(t.allProofIds)
        /\ AllOf(t.eventCountByStateId) = Len(t.allProofIds) + g.stateReads
    BY <1>4, <1>5, <2>1, <2>2 DEF Counted
  <2>5. LET updates == f.stateUpdates + f.batchUpdates + f.proofStored
            counted == AllOf(s.eventCountBySubmitter)
        IN /\ counted >= updates + f.stateReads
           /\ counted >= updates + f.proofReads
    BY <2>1 DEF Counted
  <2>6. LET updates == g.stateUpdates + g.batchUpdates + g.proofStored
            counted == AllOf(t.eventCountBySubmitter)
        IN /\ counted >= updates + g.stateReads
           /\ counted >= updates + g.proofReads
    BY <1>2, <1>4, <2>3, <2>5
  <2> QED BY <2>4, <2>6 DEF Counted
<1> QED BY <1>1, <1>6, SameRecordsSound

-----------------------------------------------------------------------------
(***************************************************************************)
(* One update                                                              *)
(***************************************************************************)

\* t is s with the update u recorded under a hash that s does not know.
Records(s, sender, u, id, t) ==
  /\ t \in Storage
  /\ id \in ProofIds
  /\ ~Exists(s, id)
  /\ t.currentState = [s.currentState EXCEPT ![u.stateId] = u.newState]
  /\ t.stateHistory = [s.stateHistory EXCEPT ![u.stateId] = Append(@, u.newState)]
  /\ t.proofMetadata = [s.proofMetadata EXCEPT
       ![id] = [stateId |-> u.stateId, submitter |-> sender, proof |-> u.proof, result |-> u.result]]
  /\ t.proofIdToIndex = [s.proofIdToIndex EXCEPT ![id] = Len(s.allProofIds)]
  /\ t.allProofIds = Append(s.allProofIds, id)
  /\ t.stateToProofs = [s.stateToProofs EXCEPT ![u.stateId] = Append(@, id)]
  /\ t.latestProofForState = [s.latestProofForState EXCEPT ![u.stateId] = id]
  /\ t.eventStats = [s.eventStats EXCEPT !.proofStored = @ + 1]
  /\ t.eventCountBySubmitter = [s.eventCountBySubmitter EXCEPT ![sender] = @ + 1]
  /\ t.eventCountByStateId = [s.eventCountByStateId EXCEPT ![u.stateId] = @ + 1]

LEMMA PostRecords ==
  ASSUME NEW s \in Storage, NEW sender \in Accounts, NEW u \in Update,
         NEW t \in Post(s, sender, u)
  PROVE  Records(s, sender, u, Keccak[u.proof], t)
<1> DEFINE id == Keccak[u.proof]
           i == u.stateId
           history == [s.stateHistory EXCEPT ![i] = Append(@, u.newState)]
           current == [s.currentState EXCEPT ![i] = u.newState]
           p == [s EXCEPT !.currentState[i] = u.newState,
                          !.stateHistory[i] = Append(@, u.newState)]
           metadata == [stateId |-> u.stateId, submitter |-> sender,
                        proof |-> u.proof, result |-> u.result]
           q == [p EXCEPT !.proofMetadata[id] = metadata,
                          !.proofIdToIndex[id] = Len(p.allProofIds),
                          !.allProofIds = Append(@, id),
                          !.stateToProofs[u.stateId] = Append(@, id),
                          !.latestProofForState[u.stateId] = id]
           r == UpdateEventStats(q, sender, "proofStored")
<1>1. id \in ProofIds /\ i \in StateIds /\ u.newState \in Roots /\ metadata \in Metadata
  BY ContractAssumption DEF Update, Metadata
<1>2. ~Exists(p, id) /\ t = [r EXCEPT !.eventCountByStateId[i] = @ + 1]
  BY DEF Post, StoreProofMetadata, WithProof
<1> HIDE DEF r, metadata
<1>3. current \in [StateIds -> Roots \cup {None}] /\ history \in [StateIds -> Seq(Roots)]
  BY <1>1 DEF Storage
<1>4. p = [s EXCEPT !.currentState = current, !.stateHistory = history]
  OBVIOUS
<1>5. /\ p \in Storage
      /\ p.currentState = current /\ p.stateHistory = history
      /\ p.proofMetadata = s.proofMetadata /\ p.proofIdToIndex = s.proofIdToIndex
      /\ p.allProofIds = s.allProofIds /\ p.stateToProofs = s.stateToProofs
      /\ p.latestProofForState = s.latestProofForState /\ p.eventStats = s.eventStats
      /\ p.eventCountBySubmitter = s.eventCountBySubmitter
      /\ p.eventCountByStateId = s.eventCountByStateId
  BY <1>3, <1>4 DEF Storage
<1> HIDE DEF p, current, history
<1> DEFINE known == [s.proofMetadata EXCEPT ![id] = metadata]
           index == [s.proofIdToIndex EXCEPT ![id] = Len(s.allProofIds)]
           all == Append(s.allProofIds, id)
           byState == [s.stateToProofs EXCEPT ![i] = Append(@, id)]
           latest == [s.latestProofForState EXCEPT ![i] = id]
<1>6. /\ known \in [ProofIds -> Metadata \cup {None}]
      /\ index \in [ProofIds -> Nat]
      /\ all \in Seq(ProofIds)
      /\ byState \in [StateIds -> Seq(ProofIds)]
      /\ latest \in [StateIds -> ProofIds \cup {None}]
  <2>1. /\ s.proofMetadata \in [ProofIds -> Metadata \cup {None}]
        /\ s.proofIdToIndex \in [ProofIds -> Nat]
        /\ s.allProofIds \in Seq(ProofIds)
        /\ s.stateToProofs \in [StateIds -> Seq(ProofIds)]
        /\ s.latestProofForState \in [StateIds -> ProofIds \cup {None}]
    BY DEF Storage
  <2>2. known \in [ProofIds -> Metadata \cup {None}] /\ latest \in [StateIds -> ProofIds \cup {None}]
    BY <1>1, <2>1
  <2>3. index \in [ProofIds -> Nat] /\ all \in Seq(ProofIds)
    BY <1>1, <2>1
  <2>4. byState \in [StateIds -> Seq(ProofIds)]
    BY <1>1, <2>1
  <2> QED BY <2>2, <2>3, <2>4
<1>7. q = [p EXCEPT !.proofMetadata = known, !.proofIdToIndex = index, !.allProofIds = all,
                    !.stateToProofs = byState, !.latestProofForState = latest]
  BY <1>5
<1>8. /\ q \in Storage
      /\ q.proofMetadata = known /\ q.proofIdToIndex = index /\ q.allProofIds = all
      /\ q.stateToProofs = byState /\ q.latestProofForState = latest
      /\ q.currentState = current /\ q.stateHistory = history /\ q.eventStats = s.eventStats
      /\ q.eventCountBySubmitter = s.eventCountBySubmitter
      /\ q.eventCountByStateId = s.eventCountByStateId
  BY <1>5, <1>6, <1>7 DEF Storage
<1> HIDE DEF q
<1>9. CountsOne(q, sender, "proofStored", r)
  BY <1>8, StatsFields DEF r
<1> DEFINE count == [s.eventCountByStateId EXCEPT ![i] = @ + 1]
<1>10. count \in [StateIds -> Nat]
  BY <1>1 DEF Storage
<1>11. t = [r EXCEPT !.eventCountByStateId = count]
  BY <1>2, <1>8, <1>9 DEF CountsOne
<1>12. /\ t \in Storage
       /\ t.eventCountByStateId = count
       /\ SameRecords(q, t)
       /\ t.eventStats = [s.eventStats EXCEPT !.proofStored = @ + 1]
       /\ t.eventCountBySubmitter = [s.eventCountBySubmitter EXCEPT ![sender] = @ + 1]
  BY <1>8, <1>9, <1>10, <1>11 DEF CountsOne, SameRecords, Storage
<1>13. ~Exists(s, id)
  BY <1>2, <1>5 DEF Exists
<1> QED BY <1>1, <1>8, <1>12, <1>13 DEF Records, SameRecords, current, history, metadata

\* What the new storage holds, in terms of the old one
LEMMA RecordedValues ==
  ASSUME NEW s \in Storage, NEW sender \in Accounts, NEW u \in Update, NEW id, NEW t,
         Records(s, sender, u, id, t)
  PROVE  /\ Exists(t, id) /\ t.proofMetadata[id].stateId = u.stateId
         /\ t.proofMetadata[id].proof = u.proof /\ t.proofMetadata[id].result = u.result
         /\ \A o \in ProofIds \ {id} : t.proofMetadata[o] = s.proofMetadata[o]
         /\ \A o \in ProofIds : Exists(t, o) <=> o = id \/ Exists(s, o)
<1> DEFINE metadata == [stateId |-> u.stateId, submitter |-> sender,
                        proof |-> u.proof, result |-> u.result]
<1>1. metadata \in Metadata
  BY DEF Update, Metadata
<1>2. metadata # None
  BY <1>1, ContractAssumption
<1>3. /\ metadata.stateId = u.stateId /\ metadata.proof = u.proof /\ metadata.result = u.result
  OBVIOUS
<1> HIDE DEF metadata
<1>4. t.proofMetadata = [s.proofMetadata EXCEPT ![id] = metadata] /\ id \in ProofIds
  BY DEF Records, metadata
<1>5. /\ t.proofMetadata[id] = metadata
      /\ \A o \in ProofIds \ {id} : t.proofMetadata[o] = s.proofMetadata[o]
  BY <1>4 DEF Storage
<1> QED BY <1>2, <1>3, <1>5 DEF Exists

LEMMA KeptByUpdate ==
  ASSUME NEW s, Sound(s), NEW sender \in Accounts, NEW u \in Update, NEW id, NEW t,
         Records(s, sender, u, id, t)
  PROVE  Keeps(s, t)
<1>1. s \in Storage /\ ~Exists(s, id) /\ u.stateId \in StateIds /\ u.newState \in Roots
  BY DEF Sound, Records, Update
<1>2. \A o \in ProofIds : Exists(s, o) => t.proofMetadata[o] = s.proofMetadata[o]
  BY <1>1, RecordedValues
<1>3. ASSUME NEW i \in StateIds
      PROVE  /\ Len(s.stateHistory[i]) <= Len(t.stateHistory[i])
             /\ \A k \in 1 .. Len(s.stateHistory[i]) :
                  t.stateHistory[i][k] = s.stateHistory[i][k]
  <2>1. s.stateHistory[i] \in Seq(Roots)
    BY <1>1 DEF Storage
  <2>2. t.stateHistory = [s.stateHistory EXCEPT ![u.stateId] = Append(@, u.newState)]
    BY DEF Records
  <2>3. s.stateHistory \in [StateIds -> Seq(Roots)]
    BY <1>1 DEF Storage
  <2>4. t.stateHistory[i] = s.stateHistory[i]
          \/ t.stateHistory[i] = Append(s.stateHistory[i], u.newState)
    BY <2>2, <2>3
  <2> QED BY <1>1, <2>1, <2>4
<1> QED BY <1>2, <1>3 DEF Keeps

LEMMA UpdateIsEnumerated ==
  ASSUME NEW s, Sound(s), NEW sender \in Accounts, NEW u \in Update, NEW id, NEW t,
         Records(s, sender, u, id, t)
  PROVE  /\ Enumerated(t)
         /\ \A o \in ProofIds : Exists(s, o) => t.proofIdToIndex[o] = s.proofIdToIndex[o]
         /\ \A o \in ProofIds : Exists(s, o) => t.proofIdToIndex[o] < t.proofIdToIndex[id]
<1>1. s \in Storage /\ ~Exists(s, id) /\ id \in ProofIds /\ Enumerated(s)
  BY DEF Sound, Records
<1> DEFINE all == s.allProofIds
           n == Len(all)
<1>2. /\ all \in Seq(ProofIds) /\ n \in Nat
      /\ s.proofIdToIndex \in [ProofIds -> Nat]
  BY <1>1 DEF Storage
<1>3. t.allProofIds = Append(all, id)
  BY DEF Records
<1>4. /\ Len(t.allProofIds) = n + 1 /\ t.allProofIds[n + 1] = id
      /\ \A k \in 1 .. n : t.allProofIds[k] = all[k] /\ all[k] \in ProofIds
  BY <1>1, <1>2, <1>3
<1>5. /\ t.proofIdToIndex[id] = n
      /\ \A o \in ProofIds \ {id} : t.proofIdToIndex[o] = s.proofIdToIndex[o]
  BY <1>1, <1>2 DEF Records
<1>6. /\ Exists(t, id)
      /\ \A o \in ProofIds : Exists(t, o) <=> o = id \/ Exists(s, o)
  BY <1>1, RecordedValues
<1>7. \A k \in 1 .. n : Exists(s, all[k]) /\ s.proofIdToIndex[all[k]] = k - 1
  BY <1>1 DEF Enumerated
<1>8. \A o \in ProofIds : Exists(s, o) =>
        /\ s.proofIdToIndex[o] + 1 \in 1 .. n
        /\ all[s.proofIdToIndex[o] + 1] = o
  BY <1>1 DEF Enumerated
<1> HIDE DEF all, n
<1>9. \A o \in ProofIds : Exists(s, o) =>
        t.proofIdToIndex[o] = s.proofIdToIndex[o] /\ t.proofIdToIndex[o] < n
  BY <1>1, <1>2, <1>5, <1>8
<1>10. ASSUME NEW k \in 1 .. n + 1
       PROVE  /\ Exists(t, t.allProofIds[k])
              /\ t.proofIdToIndex[t.allProofIds[k]] = k - 1
  <2>1. CASE k = n + 1
    BY <1>2, <1>4, <1>5, <1>6, <2>1
  <2>2. CASE k # n + 1
    <3>1. k \in 1 .. n
      BY <1>2, <2>2
    <3>2. t.allProofIds[k] = all[k] /\ all[k] \in ProofIds /\ Exists(s, all[k])
      BY <1>4, <1>7, <3>1
    <3> QED BY <1>6, <1>7, <1>9, <3>1, <3>2
  <2> QED BY <2>1, <2>2
<1>11. ASSUME NEW o \in ProofIds, Exists(t, o)
       PROVE  /\ t.proofIdToIndex[o] + 1 \in 1 .. n + 1
              /\ t.allProofIds[t.proofIdToIndex[o] + 1] = o
  <2>1. CASE o = id
    BY <1>2, <1>4, <1>5, <2>1
  <2>2. CASE o # id
    <3>1. Exists(s, o)
      BY <1>6, <1>11, <2>2
    <3>2. s.proofIdToIndex[o] + 1 \in 1 .. n /\ t.proofIdToIndex[o] = s.proofIdToIndex[o]
      BY <1>8, <1>9, <3>1
    <3> QED BY <1>2, <1>4, <1>8, <3>1, <3>2
  <2> QED BY <2>1, <2>2
<1>12. Enumerated(t)
  BY <1>4, <1>10, <1>11 DEF Enumerated
<1> QED BY <1>5, <1>9, <1>12

LEMMA UpdateIsFiled ==
  ASSUME NEW s, Sound(s), NEW sender \in Accounts, NEW u \in Update, NEW id, NEW t,
         Records(s, sender, u, id, t), NEW i \in StateIds
  PROVE  FiledUnder(t, i)
<1>1. s \in Storage /\ ~Exists(s, id) /\ id \in ProofIds /\ FiledUnder(s, i) /\ u.stateId \in StateIds
  BY DEF Sound, Records, Update
<1> DEFINE old == s.stateToProofs[i]
           list == t.stateToProofs[i]
           n == Len(old)
<1>2. /\ Exists(t, id) /\ t.proofMetadata[id].stateId = u.stateId
      /\ \A o \in ProofIds \ {id} : t.proofMetadata[o] = s.proofMetadata[o]
      /\ \A o \in ProofIds : Exists(t, o) <=> o = id \/ Exists(s, o)
  BY <1>1, RecordedValues
<1>3. old \in Seq(ProofIds) /\ n \in Nat
  BY <1>1 DEF Storage
<1>4. IF i = u.stateId THEN list = Append(old, id) ELSE list = old
  <2>1. s.stateToProofs \in [StateIds -> Seq(ProofIds)]
    BY <1>1 DEF Storage
  <2>2. t.stateToProofs = [s.stateToProofs EXCEPT ![u.stateId] = Append(@, id)]
    BY DEF Records
  <2> QED BY <1>1, <2>1, <2>2
<1>5. /\ \A m \in 1 .. n : list[m] = old[m] /\ old[m] \in ProofIds \ {id}
                             /\ Exists(s, old[m]) /\ s.proofMetadata[old[m]].stateId = i
      /\ IF i = u.stateId THEN Len(list) = n + 1 /\ list[n + 1] = id ELSE Len(list) = n
  <2>1. \A m \in 1 .. n : old[m] \in ProofIds \ {id} /\ Exists(s, old[m])
                              /\ s.proofMetadata[old[m]].stateId = i
    BY <1>1, <1>3 DEF FiledUnder
  <2> QED BY <1>3, <1>4, <2>1, <1>1
<1>6. \A m, k \in 1 .. n : m < k => s.proofIdToIndex[old[m]] < s.proofIdToIndex[old[k]]
  BY <1>1 DEF FiledUnder
<1>7. /\ \A o \in ProofIds : Exists(s, o) => t.proofIdToIndex[o] = s.proofIdToIndex[o]
      /\ \A o \in ProofIds : Exists(s, o) => t.proofIdToIndex[o] < t.proofIdToIndex[id]
  BY UpdateIsEnumerated
<1>8. \A o \in ProofIds : Exists(s, o) /\ s.proofMetadata[o].stateId = i =>
        \E m \in 1 .. n : old[m] = o
  BY <1>1 DEF FiledUnder
<1> HIDE DEF old, list, n
<1>9. ASSUME NEW m \in 1 .. Len(list)
      PROVE  /\ Exists(t, list[m]) /\ t.proofMetadata[list[m]].stateId = i
             /\ m \in 1 .. n \/ (m = n + 1 /\ list[m] = id)
  <2>1. CASE m \in 1 .. n
    BY <1>2, <1>5, <2>1
  <2>2. CASE m \notin 1 .. n
    <3>1. i = u.stateId /\ m = n + 1
      BY <1>3, <1>5, <2>2
    <3> QED BY <1>2, <1>5, <3>1
  <2> QED BY <2>1, <2>2
<1>10. ASSUME NEW o \in ProofIds, Exists(t, o), t.proofMetadata[o].stateId = i
       PROVE  \E m \in 1 .. Len(list) : list[m] = o
  <2>1. CASE o = id
    <3>1. i = u.stateId
      BY <1>2, <1>10, <2>1
    <3>2. n + 1 \in 1 .. Len(list) /\ list[n + 1] = id
      BY <1>3, <1>5, <3>1
    <3> QED BY <2>1, <3>2
  <2>2. CASE o # id
    <3>1. PICK m \in 1 .. n : old[m] = o
      BY <1>2, <1>8, <1>10, <2>2
    <3>2. m \in 1 .. Len(list) /\ list[m] = o
      BY <1>3, <1>5, <3>1
    <3> QED BY <3>2
  <2> QED BY <2>1, <2>2
<1>11. ASSUME NEW m \in 1 .. Len(list), NEW k \in 1 .. Len(list), m < k
       PROVE  t.proofIdToIndex[list[m]] < t.proofIdToIndex[list[k]]
  <2>1. m \in 1 .. n
    <3>1. Len(list) <= n + 1 /\ Len(list) \in Nat
      BY <1>3, <1>5
    <3> QED BY <1>3, <1>11, <3>1
  <2>2. /\ list[m] = old[m] /\ old[m] \in ProofIds /\ Exists(s, old[m])
    BY <1>5, <2>1
  <2>3. CASE k \in 1 .. n
    <3>1. list[k] = old[k] /\ old[k] \in ProofIds /\ Exists(s, old[k])
      BY <1>5, <2>3
    <3>2. s.proofIdToIndex[old[m]] < s.proofIdToIndex[old[k]]
      BY <1>6, <1>11, <2>1, <2>3
    <3> QED BY <1>7, <2>2, <3>1, <3>2
  <2>4. CASE list[k] = id
    BY <1>7, <2>2, <2>4
  <2> QED BY <1>9, <2>3, <2>4
<1> QED BY <1>9, <1>10, <1>11 DEF FiledUnder, list

LEMMA UpdateIsPaired ==
  ASSUME NEW s, Sound(s), NEW sender \in Accounts, NEW u \in Update, NEW id, NEW t,
         Records(s, sender, u, id, t), NEW i \in StateIds
  PROVE  Paired(t, i)
<1>1. s \in Storage /\ id \in ProofIds /\ Paired(s, i) /\ u.stateId \in StateIds /\ u.newState \in Roots
  BY DEF Sound, Records, Update
<1>2. s.stateHistory[i] \in Seq(Roots) /\ s.stateToProofs[i] \in Seq(ProofIds)
  BY <1>1 DEF Storage
<1>3. CASE i = u.stateId
  <2>1. /\ t.stateHistory[i] = Append(s.stateHistory[i], u.newState)
        /\ t.stateToProofs[i] = Append(s.stateToProofs[i], id)
        /\ t.currentState[i] = u.newState
        /\ t.latestProofForState[i] = id
    BY <1>1, <1>3 DEF Records, Storage
  <2>2. Len(s.stateHistory[i]) = Len(s.stateToProofs[i])
    BY <1>1 DEF Paired
  <2> DEFINE n == Len(s.stateToProofs[i])
  <2>3. /\ Len(t.stateHistory[i]) = n + 1 /\ t.stateHistory[i][n + 1] = u.newState
        /\ Len(t.stateToProofs[i]) = n + 1 /\ t.stateToProofs[i][n + 1] = id /\ n \in Nat
    <3>1. /\ Len(t.stateHistory[i]) = Len(s.stateHistory[i]) + 1
          /\ t.stateHistory[i][Len(s.stateHistory[i]) + 1] = u.newState
      BY <1>1, <1>2, <2>1
    <3>2. /\ Len(t.stateToProofs[i]) = n + 1 /\ t.stateToProofs[i][n + 1] = id /\ n \in Nat
      BY <1>1, <1>2, <2>1
    <3> QED BY <2>2, <3>1, <3>2
  <2>4. t.stateHistory[i] # <<>> /\ t.stateToProofs[i] # <<>>
    BY <2>3
  <2> QED BY <2>1, <2>3, <2>4 DEF Paired
<1>4. CASE i # u.stateId
  <2>1. /\ t.stateHistory[i] = s.stateHistory[i]
        /\ t.stateToProofs[i] = s.stateToProofs[i]
        /\ t.currentState[i] = s.currentState[i]
        /\ t.latestProofForState[i] = s.latestProofForState[i]
    BY <1>1, <1>4 DEF Records, Storage
  <2> QED BY <1>1, <2>1 DEF Paired
<1> QED BY <1>3, <1>4

LEMMA UpdateIsCounted ==
  ASSUME NEW s, Sound(s), NEW sender \in Accounts, NEW u \in Update, NEW id, NEW t,
         Records(s, sender, u, id, t)
  PROVE  Counted(t)
<1>1. s \in Storage /\ id \in ProofIds /\ Counted(s) /\ u.stateId \in StateIds
  BY DEF Sound, Records, Update
<1>2. IsFiniteSet(Accounts) /\ IsFiniteSet(StateIds)
  BY ContractAssumption
<1>3. s.eventCountBySubmitter \in [Accounts -> Nat] /\ s.eventCountByStateId \in [StateIds -> Nat]
  BY <1>1 DEF Storage
<1>4. /\ AllOf(t.eventCountBySubmitter) = AllOf(s.eventCountBySubmitter) + 1
      /\ AllOf(s.eventCountBySubmitter) \in Int
  <2>1. t.eventCountBySubmitter = [s.eventCountBySubmitter EXCEPT ![sender] = @ + 1]
    BY DEF Records
  <2> QED BY <1>2, <1>3, <2>1, OneMore
<1>5. /\ AllOf(t.eventCountByStateId) = AllOf(s.eventCountByStateId) + 1
      /\ AllOf(s.eventCountByStateId) \in Int
  <2>1. t.eventCountByStateId = [s.eventCountByStateId EXCEPT ![u.stateId] = @ + 1]
    BY DEF Records
  <2> QED BY <1>1, <1>2, <1>3, <2>1, OneMore
<1>6. Len(t.allProofIds) = Len(s.allProofIds) + 1 /\ Len(s.allProofIds) \in Nat
  <2>1. s.allProofIds \in Seq(ProofIds) /\ t.allProofIds = Append(s.allProofIds, id)
    BY <1>1 DEF Records, Storage
  <2> QED BY <1>1, <2>1
<1> DEFINE f == s.eventStats
           g == t.eventStats
<1>7. f \in Stats
  BY <1>1 DEF Storage, Stats
<1>8. g = [f EXCEPT !.proofStored = @ + 1]
  BY DEF Records
<1>9. /\ f.stateUpdates \in Nat /\ f.batchUpdates \in Nat /\ f.proofStored \in Nat
      /\ f.stateReads \in Nat /\ f.proofReads \in Nat
      /\ g.stateUpdates = f.stateUpdates /\ g.batchUpdates = f.batchUpdates
      /\ g.proofStored = f.proofStored + 1
      /\ g.stateReads = f.stateReads /\ g.proofReads = f.proofReads
  BY <1>7, <1>8 DEF Stats
<1>10. /\ g.proofStored = Len(t.allProofIds)
       /\ AllOf(t.eventCountByStateId) = Len(t.allProofIds) + g.stateReads
  <2>1. f.proofStored = Len(s.allProofIds)
        /\ AllOf(s.eventCountByStateId) = Len(s.allProofIds) + f.stateReads
    BY <1>1 DEF Counted
  <2> QED BY <1>5, <1>6, <1>9, <2>1
<1>11. LET updates == f.stateUpdates + f.batchUpdates + f.proofStored
           counted == AllOf(s.eventCountBySubmitter)
       IN /\ counted >= updates + f.stateReads
          /\ counted >= updates + f.proofReads
  BY <1>1 DEF Counted
<1>12. LET updates == g.stateUpdates + g.batchUpdates + g.proofStored
           counted == AllOf(t.eventCountBySubmitter)
       IN /\ counted >= updates + g.stateReads
          /\ counted >= updates + g.proofReads
  BY <1>4, <1>9, <1>11
<1> QED BY <1>10, <1>12 DEF Counted

\* One verified update, alone or in a batch, keeps the storage sound.
LEMMA PostIsSound ==
  ASSUME NEW s, Sound(s), NEW sender \in Accounts, NEW u \in Update, Verifies(u),
         NEW t \in Post(s, sender, u)
  PROVE  Sound(t) /\ Keeps(s, t)
<1> DEFINE id == Keccak[u.proof]
<1>1. s \in Storage
  BY DEF Sound
<1>2. Records(s, sender, u, id, t)
  BY <1>1, PostRecords
<1>3. Genuine(t)
  <2>1. /\ t.proofMetadata[id].proof = u.proof /\ t.proofMetadata[id].result = u.result
        /\ \A o \in ProofIds \ {id} : t.proofMetadata[o] = s.proofMetadata[o]
        /\ \A o \in ProofIds : Exists(t, o) <=> o = id \/ Exists(s, o)
    BY <1>1, <1>2, RecordedValues
  <2> QED BY <2>1 DEF Genuine, Sound, Verifies
<1> HIDE DEF id
<1>4. Enumerated(t) /\ Counted(t) /\ Keeps(s, t)
  BY <1>2, UpdateIsEnumerated, UpdateIsCounted, KeptByUpdate
<1>5. \A i \in StateIds : FiledUnder(t, i) /\ Paired(t, i)
  BY <1>2, UpdateIsFiled, UpdateIsPaired
<1>6. t \in Storage
  BY <1>2 DEF Records
<1> QED BY <1>3, <1>4, <1>5, <1>6 DEF Sound

-----------------------------------------------------------------------------
(***************************************************************************)
(* A batch                                                                 *)
(***************************************************************************)

LEMMA LengthsAreNumbers ==
  ASSUME NEW s \in Storage, NEW i \in StateIds
  PROVE  Len(s.stateHistory[i]) \in Nat
<1>1. s.stateHistory[i] \in Seq(Roots)
  BY DEF Storage
<1> QED BY <1>1

LEMMA KeepsIsTransitive ==
  ASSUME NEW s \in Storage, NEW t \in Storage, NEW r \in Storage, Keeps(s, t), Keeps(t, r)
  PROVE  Keeps(s, r)
<1>1. ASSUME NEW id \in ProofIds, Exists(s, id)
      PROVE  r.proofMetadata[id] = s.proofMetadata[id]
  BY <1>1 DEF Keeps, Exists
<1>2. ASSUME NEW i \in StateIds
      PROVE  /\ Len(s.stateHistory[i]) <= Len(r.stateHistory[i])
             /\ \A k \in 1 .. Len(s.stateHistory[i]) :
                  r.stateHistory[i][k] = s.stateHistory[i][k]
  <2>1. /\ Len(s.stateHistory[i]) \in Nat /\ Len(t.stateHistory[i]) \in Nat
        /\ Len(r.stateHistory[i]) \in Nat
    BY LengthsAreNumbers
  <2>2. /\ Len(s.stateHistory[i]) <= Len(t.stateHistory[i])
        /\ Len(t.stateHistory[i]) <= Len(r.stateHistory[i])
    BY DEF Keeps
  <2>3. ASSUME NEW k \in 1 .. Len(s.stateHistory[i])
        PROVE  r.stateHistory[i][k] = s.stateHistory[i][k]
    <3>1. k \in 1 .. Len(t.stateHistory[i])
      BY <2>1, <2>2
    <3>2. t.stateHistory[i][k] = s.stateHistory[i][k]
      BY DEF Keeps
    <3>3. r.stateHistory[i][k] = t.stateHistory[i][k]
      BY <3>1 DEF Keeps
    <3> QED BY <3>2, <3>3
  <2> QED BY <2>1, <2>2, <2>3
<1> QED BY <1>1, <1>2 DEF Keeps

LEMMA KeepsItself == ASSUME NEW s \in Storage PROVE Keeps(s, s)
<1>1. \A i \in StateIds : Len(s.stateHistory[i]) \in Nat
  BY LengthsAreNumbers
<1> QED BY <1>1 DEF Keeps

\* The storages a turn of the loop may leave, from those that the turn before left
Turn(before, sender, u) ==
  IF Verifies(u) THEN UNION {Post(t, sender, u) : t \in before} ELSE before

\* g[i] are the storages after i turns, up to n.
Turns(g, s, sender, us, n) ==
  g = [i \in 0 .. n |-> IF i = 0 THEN {s} ELSE Turn(g[i - 1], sender, us[i])]

After(s, sender, us, n) == CHOOSE g : Turns(g, s, sender, us, n)

LEMMA PostAllIsAfter ==
  ASSUME NEW s, NEW sender, NEW us
  PROVE  PostAll(s, sender, us) = After(s, sender, us, Len(us))[Len(us)]
BY DEF PostAll, After, Turns, Turn

LEMMA TurnsExist ==
  ASSUME NEW s, NEW sender, NEW us
  PROVE  \A n \in Nat : \E g : Turns(g, s, sender, us, n)
<1> DEFINE T == {n \in Nat : ~\E g : Turns(g, s, sender, us, n)}
<1>1. SUFFICES ASSUME T # {} PROVE FALSE
  OBVIOUS
<1>2. PICK n \in T : \A m \in T : n <= m
  BY <1>1, LeastNumber
<1>3. CASE n = 0
  <2> DEFINE g == [i \in 0 .. 0 |-> {s}]
  <2>1. g = [i \in 0 .. 0 |-> IF i = 0 THEN {s} ELSE Turn(g[i - 1], sender, us[i])]
    OBVIOUS
  <2> HIDE DEF g
  <2> QED BY <1>2, <1>3, <2>1 DEF Turns
<1>4. CASE n # 0
  <2>1. n \in Nat /\ n - 1 \in Nat /\ n - 1 \notin T
    BY <1>2, <1>4
  <2>2. PICK h : Turns(h, s, sender, us, n - 1)
    BY <2>1
  <2> DEFINE g == [i \in 0 .. n |-> IF i = n THEN Turn(h[n - 1], sender, us[n]) ELSE h[i]]
             f == [i \in 0 .. n |-> IF i = 0 THEN {s} ELSE Turn(g[i - 1], sender, us[i])]
  <2>3. \A i \in 0 .. n - 1 : h[i] = IF i = 0 THEN {s} ELSE Turn(h[i - 1], sender, us[i])
    BY <2>2 DEF Turns
  <2>4. ASSUME NEW i \in 0 .. n PROVE g[i] = f[i]
    <3>1. CASE i = n
      <4>1. g[n] = Turn(h[n - 1], sender, us[n]) /\ g[n - 1] = h[n - 1]
        BY <2>1
      <4>2. f[n] = Turn(g[n - 1], sender, us[n])
        BY <1>4, <2>1
      <4> QED BY <3>1, <4>1, <4>2
    <3>2. CASE i # n /\ i # 0
      <4>1. g[i] = h[i] /\ g[i - 1] = h[i - 1] /\ i \in 0 .. n - 1
        BY <2>1, <3>2
      <4>2. f[i] = Turn(g[i - 1], sender, us[i])
        BY <3>2
      <4> QED BY <2>3, <3>2, <4>1, <4>2
    <3>3. CASE i # n /\ i = 0
      <4>1. g[0] = h[0] /\ h[0] = {s} /\ f[0] = {s}
        BY <2>1, <2>3, <3>3
      <4> QED BY <3>3, <4>1
    <3> QED BY <3>1, <3>2, <3>3
  <2>5. g = f
    <3>1. g = [i \in 0 .. n |-> g[i]] /\ f = [i \in 0 .. n |-> f[i]]
      OBVIOUS
    <3> HIDE DEF g, f
    <3> QED BY <2>4, <3>1
  <2>6. Turns(g, s, sender, us, n)
    <3> HIDE DEF g
    <3> QED BY <2>5 DEF Turns
  <2> QED BY <1>2, <2>6
<1> QED BY <1>3, <1>4

\* Whatever mix of accepted and rejected proofs a batch has, the storage that
\* it leaves is sound.
LEMMA BatchIsSound ==
  ASSUME NEW s, Sound(s), NEW sender \in Accounts, NEW us \in Seq(Update),
         NEW t \in PostAll(s, sender, us)
  PROVE  Sound(t) /\ Keeps(s, t)
<1> DEFINE n == Len(us)
           g == After(s, sender, us, n)
           Good(i) == \A r \in g[i] : Sound(r) /\ Keeps(s, r)
           T == {i \in 0 .. n : ~Good(i)}
<1>1. n \in Nat /\ \A i \in 1 .. n : us[i] \in Update
  OBVIOUS
<1>2. Turns(g, s, sender, us, n)
  BY <1>1, TurnsExist DEF After
<1> HIDE DEF g, n
<1>3. \A i \in 0 .. n : g[i] = IF i = 0 THEN {s} ELSE Turn(g[i - 1], sender, us[i])
  BY <1>2 DEF Turns
<1>4. T = {}
  <2>1. SUFFICES ASSUME T # {} PROVE FALSE
    OBVIOUS
  <2>2. T \subseteq Nat
    BY <1>1
  <2>3. PICK i \in T : \A m \in T : i <= m
    BY <2>1, <2>2, LeastNumber
  <2>4. i \in 0 .. n /\ ~Good(i)
    BY <2>3
  <2>5. CASE i = 0
    <3>1. g[0] = {s}
      BY <1>1, <1>3
    <3>2. Sound(s) /\ Keeps(s, s)
      BY KeepsItself DEF Sound
    <3> QED BY <2>4, <2>5, <3>1, <3>2
  <2>6. CASE i # 0
    <3>1. i \in 1 .. n /\ i - 1 \in 0 .. n
      BY <1>1, <2>4, <2>6
    <3>2. Good(i - 1)
      BY <1>1, <2>3, <3>1
    <3>3. g[i] = Turn(g[i - 1], sender, us[i])
      BY <1>3, <2>4, <2>6
    <3>4. us[i] \in Update
      BY <1>1, <3>1
    <3>5. ASSUME NEW r \in g[i] PROVE Sound(r) /\ Keeps(s, r)
      <4>1. CASE ~Verifies(us[i])
        BY <3>2, <3>3, <4>1 DEF Turn
      <4>2. CASE Verifies(us[i])
        <5>1. PICK q \in g[i - 1] : r \in Post(q, sender, us[i])
          BY <3>3, <3>5, <4>2 DEF Turn
        <5>2. Sound(q) /\ Keeps(s, q)
          BY <3>2
        <5>3. Sound(r) /\ Keeps(q, r)
          BY <3>4, <4>2, <5>1, <5>2, PostIsSound
        <5>4. s \in Storage /\ q \in Storage /\ r \in Storage
          BY <5>2, <5>3 DEF Sound
        <5> QED BY <5>2, <5>3, <5>4, KeepsIsTransitive
      <4> QED BY <4>1, <4>2
    <3> QED BY <2>4, <3>5
  <2> QED BY <2>5, <2>6
<1>5. t \in g[n]
  BY PostAllIsAfter DEF g, n
<1>6. n \in 0 .. n /\ n \notin T
  BY <1>1, <1>4
<1> QED BY <1>5, <1>6

-----------------------------------------------------------------------------
(***************************************************************************)
(* Reads that are counted                                                  *)
(***************************************************************************)

\* No argument of a kind or one
AtMostOne(A, S) == A = {} \/ \E x \in S : A = {x}

LEMMA SizeOfOne ==
  ASSUME NEW S, NEW A, AtMostOne(A, S)
  PROVE  Cardinality(A) = (IF A = {} THEN 0 ELSE 1)
<1>1. Cardinality({}) = 0
  BY FS_EmptySet
<1>2. \A x : Cardinality({x}) = 1
  BY FS_Singleton
<1> QED BY <1>1, <1>2 DEF AtMostOne

LEMMA ReadIsSound ==
  ASSUME NEW s, Sound(s), NEW sender \in Accounts, NEW A, NEW B,
         NEW stateId, NEW proofId, A = {stateId} \ {None}, B = {proofId} \ {None},
         AtMostOne(A, StateIds), AtMostOne(B, ProofIds),
         NEW t, t = TrackReadEvent(s, sender, stateId, proofId)
  PROVE  Sound(t) /\ Keeps(s, t)
<1>1. s \in Storage /\ Counted(s)
  BY DEF Sound
<1>2. CASE ~readEventTrackingEnabled
  BY <1>1, <1>2, KeepsItself DEF TrackReadEvent
<1>3. CASE readEventTrackingEnabled
  <2> DEFINE a == Cardinality(A)
             b == Cardinality(B)
             f == s.eventStats
             reads == [f EXCEPT !.stateReads = @ + a, !.proofReads = @ + b]
             submitters == [s.eventCountBySubmitter EXCEPT ![sender] = @ + 1]
             states == [i \in StateIds |->
                          s.eventCountByStateId[i] + (IF i \in A THEN 1 ELSE 0)]
  <2>1. a \in 0 .. 1 /\ b \in 0 .. 1
    BY SizeOfOne
  <2>2. t = [s EXCEPT !.eventCountBySubmitter = submitters,
                      !.eventStats.stateReads = @ + a,
                      !.eventStats.proofReads = @ + b,
                      !.eventCountByStateId = states]
    BY <1>3 DEF TrackReadEvent
  <2>3. f \in Stats
    BY <1>1 DEF Storage, Stats
  <2>4. /\ s.eventCountBySubmitter \in [Accounts -> Nat]
        /\ s.eventCountByStateId \in [StateIds -> Nat]
        /\ submitters \in [Accounts -> Nat]
        /\ states \in [StateIds -> Nat]
    BY <1>1 DEF Storage
  <2>5. reads \in Stats
    <3>1. f.stateReads + a \in Nat /\ f.proofReads + b \in Nat
      BY <2>1, <2>3 DEF Stats
    <3>2. reads = [f EXCEPT !.stateReads = f.stateReads + a, !.proofReads = f.proofReads + b]
      BY <2>3 DEF Stats
    <3> HIDE DEF f, reads, a, b
    <3> QED BY <2>3, <3>1, <3>2 DEF Stats
  <2>6. /\ f.stateUpdates \in Nat /\ f.batchUpdates \in Nat /\ f.proofStored \in Nat
        /\ f.stateReads \in Nat /\ f.proofReads \in Nat
        /\ reads.stateUpdates = f.stateUpdates /\ reads.batchUpdates = f.batchUpdates
        /\ reads.proofStored = f.proofStored
        /\ reads.stateReads = f.stateReads + a /\ reads.proofReads = f.proofReads + b
    BY <2>3 DEF Stats
  <2>7. IsFiniteSet(Accounts) /\ IsFiniteSet(StateIds)
    BY ContractAssumption
  <2>8. AllOf(submitters) = AllOf(s.eventCountBySubmitter) + 1 /\ AllOf(s.eventCountBySubmitter) \in Int
    BY <2>4, <2>7, OneMore
  <2>9. AllOf(states) = AllOf(s.eventCountByStateId) + a
    <3>1. CASE A = {}
      <4>1. states = s.eventCountByStateId
        BY <2>4, <3>1
      <4>2. AllOf(s.eventCountByStateId) \in Int
        <5>1. AllOf(s.eventCountByStateId) = f.proofStored + f.stateReads
          BY <1>1 DEF Counted
        <5> QED BY <2>6, <5>1
      <4>3. a = 0
        BY <3>1, SizeOfOne
      <4> HIDE DEF states, a
      <4> QED BY <4>1, <4>2, <4>3
    <3>2. CASE A # {}
      <4>1. PICK i \in StateIds : A = {i}
        BY <3>2 DEF AtMostOne
      <4>2. states = [s.eventCountByStateId EXCEPT ![i] = @ + 1]
        BY <2>4, <4>1
      <4>3. a = 1
        BY <3>2, SizeOfOne
      <4> HIDE DEF states, a
      <4> QED BY <2>4, <2>7, <4>2, <4>3, OneMore
    <3> QED BY <3>1, <3>2
  <2> HIDE DEF a, b, submitters, states
  <2>10. t = [s EXCEPT !.eventCountBySubmitter = submitters, !.eventStats = reads,
                       !.eventCountByStateId = states]
    BY <1>1, <2>2 DEF Storage
  <2> HIDE DEF reads
  <2>11. /\ t \in Storage
         /\ SameRecords(s, t)
         /\ t.eventStats = reads /\ t.eventCountBySubmitter = submitters
         /\ t.eventCountByStateId = states
    BY <1>1, <2>4, <2>5, <2>10 DEF Storage, Stats, SameRecords
  <2>12. /\ reads.proofStored = Len(t.allProofIds)
         /\ AllOf(states) = Len(t.allProofIds) + reads.stateReads
    <3>1. f.proofStored = Len(s.allProofIds)
          /\ AllOf(s.eventCountByStateId) = Len(s.allProofIds) + f.stateReads
      BY <1>1 DEF Counted
    <3>2. t.allProofIds = s.allProofIds
      BY <2>11 DEF SameRecords
    <3> QED BY <2>1, <2>6, <2>9, <3>1, <3>2
  <2>13. LET updates == f.stateUpdates + f.batchUpdates + f.proofStored
             counted == AllOf(s.eventCountBySubmitter)
         IN /\ counted >= updates + f.stateReads
            /\ counted >= updates + f.proofReads
    BY <1>1 DEF Counted
  <2> HIDE DEF f
  <2>14. LET updates == reads.stateUpdates + reads.batchUpdates + reads.proofStored
             counted == AllOf(submitters)
         IN /\ counted >= updates + reads.stateReads
            /\ counted >= updates + reads.proofReads
    BY <2>1, <2>6, <2>8, <2>13
  <2>15. Counted(t)
    BY <2>11, <2>12, <2>14 DEF Counted
  <2> QED BY <2>11, <2>15, SameRecordsSound
<1> QED BY <1>2, <1>3

-----------------------------------------------------------------------------
(***************************************************************************)
(* The invariant                                                           *)
(***************************************************************************)

LEMMA InitIsSound == ASSUME Init PROVE IInv
<1>1. /\ owner \in Accounts /\ authorizedPosters \subseteq Accounts
      /\ readEventTrackingEnabled \in BOOLEAN
  BY ContractAssumption DEF Init
<1> DEFINE zero(S) == [x \in S |-> 0]
<1>2. ASSUME NEW S, IsFiniteSet(S) PROVE AllOf(zero(S)) = 0
  <2>1. zero(S) \in [S -> {0}]
    OBVIOUS
  <2> HIDE DEF zero
  <2> QED BY <1>2, <2>1, NothingCounted
<1>3. storage \in Storage
  BY DEF Init, Storage
<1>4. /\ storage.allProofIds = <<>>
      /\ storage.proofMetadata = [id \in ProofIds |-> None]
      /\ storage.currentState = [i \in StateIds |-> None]
      /\ storage.latestProofForState = [i \in StateIds |-> None]
      /\ storage.stateHistory = [i \in StateIds |-> <<>>]
      /\ storage.stateToProofs = [i \in StateIds |-> <<>>]
      /\ storage.eventStats = [stateUpdates |-> 0, batchUpdates |-> 0, proofStored |-> 0,
                               stateReads |-> 0, proofReads |-> 0]
      /\ storage.eventCountBySubmitter = zero(Accounts)
      /\ storage.eventCountByStateId = zero(StateIds)
  BY DEF Init
<1> HIDE DEF zero
<1>5. \A id \in ProofIds : ~Exists(storage, id)
  BY <1>4 DEF Exists
<1>6. Enumerated(storage) /\ Genuine(storage)
  BY <1>4, <1>5 DEF Enumerated, Genuine
<1>7. \A i \in StateIds : FiledUnder(storage, i) /\ Paired(storage, i)
  BY <1>4, <1>5 DEF FiledUnder, Paired
<1>8. Counted(storage)
  <2>1. AllOf(storage.eventCountBySubmitter) = 0 /\ AllOf(storage.eventCountByStateId) = 0
    BY <1>2, <1>4, ContractAssumption
  <2> QED BY <1>4, <2>1 DEF Counted
<1> QED BY <1>1, <1>3, <1>6, <1>7, <1>8 DEF IInv, Sound

\* Every call that changes the storage leaves it sound and keeps its records.
LEMMA StepIsSound ==
  ASSUME IInv, [Next]_vars
  PROVE  IInv' /\ Keeps(storage, storage')
<1>1. Sound(storage) /\ storage \in Storage
  BY DEF IInv, Sound
<1>2. Keeps(storage, storage)
  BY <1>1, KeepsItself
<1>3. CASE UNCHANGED vars
  <2>1. /\ owner' = owner /\ authorizedPosters' = authorizedPosters
        /\ readEventTrackingEnabled' = readEventTrackingEnabled /\ storage' = storage
    BY <1>3 DEF vars
  <2> QED BY <1>2, <2>1 DEF IInv
<1>4. ASSUME NEW sender \in Accounts, UNCHANGED Access, Sound(storage'), Keeps(storage, storage')
      PROVE  IInv' /\ Keeps(storage, storage')
  BY <1>4 DEF Access, IInv
<1>5. ASSUME NEW sender \in Accounts, NEW u \in Update, UpdateState(sender, u)
      PROVE  IInv' /\ Keeps(storage, storage')
  <2>1. PICK s \in Post(storage, sender, u) :
          storage' = UpdateEventStats(s, sender, "stateUpdates")
    BY <1>5 DEF UpdateState
  <2>2. Verifies(u) /\ UNCHANGED Access
    BY <1>5 DEF UpdateState
  <2>3. Sound(s) /\ Keeps(storage, s)
    BY <1>1, <2>2, PostIsSound
  <2>4. Sound(storage') /\ Keeps(s, storage')
    BY <2>1, <2>3, CountingIsSound
  <2>5. Keeps(storage, storage')
    BY <1>1, <2>3, <2>4, KeepsIsTransitive DEF Sound
  <2> QED BY <1>4, <2>2, <2>4, <2>5
<1>6. ASSUME NEW sender \in Accounts, NEW us \in BoundedSeq(Update, MaxBatch),
             BatchUpdateStates(sender, us)
      PROVE  IInv' /\ Keeps(storage, storage')
  <2>1. us \in Seq(Update)
    BY ContractAssumption DEF BoundedSeq, SeqOf
  <2>2. PICK s \in PostAll(storage, sender, us) :
          storage' = UpdateEventStats(s, sender, "batchUpdates")
    BY <1>6 DEF BatchUpdateStates
  <2>3. UNCHANGED Access
    BY <1>6 DEF BatchUpdateStates
  <2>4. Sound(s) /\ Keeps(storage, s)
    BY <1>1, <2>1, BatchIsSound
  <2>5. Sound(storage') /\ Keeps(s, storage')
    BY <2>2, <2>4, CountingIsSound
  <2>6. Keeps(storage, storage')
    BY <1>1, <2>4, <2>5, KeepsIsTransitive DEF Sound
  <2> QED BY <1>4, <2>3, <2>5, <2>6
<1>7. ASSUME NEW sender \in Accounts, NEW stateId \in StateIds \cup {None},
             NEW proofId \in ProofIds \cup {None},
             storage' = TrackReadEvent(storage, sender, stateId, proofId), UNCHANGED Access
      PROVE  IInv' /\ Keeps(storage, storage')
  <2>1. AtMostOne({stateId} \ {None}, StateIds) /\ AtMostOne({proofId} \ {None}, ProofIds)
    BY DEF AtMostOne
  <2>2. Sound(storage') /\ Keeps(storage, storage')
    BY <1>1, <1>7, <2>1, ReadIsSound
  <2> QED BY <1>4, <1>7, <2>2
<1>8. ASSUME NEW sender \in Accounts, NEW i \in StateIds \cup {None}, ReadCurrentState(sender, i)
      PROVE  IInv' /\ Keeps(storage, storage')
  BY <1>7, <1>8 DEF ReadCurrentState
<1>9. ASSUME NEW sender \in Accounts, NEW id \in ProofIds \cup {None}, GetProofById(sender, id)
      PROVE  IInv' /\ Keeps(storage, storage')
  BY <1>7, <1>9 DEF GetProofById
<1>10. ASSUME NEW sender \in Accounts, NEW i \in StateIds, GetProofByStateId(sender, i)
       PROVE  IInv' /\ Keeps(storage, storage')
  <2> DEFINE id == storage.latestProofForState[i]
  <2>1. id \in ProofIds
    BY <1>1, <1>10 DEF GetProofByStateId, Storage
  <2> HIDE DEF id
  <2> QED BY <1>7, <1>10, <2>1 DEF GetProofByStateId, id
<1>11. ASSUME NEW sender \in Accounts, NEW account \in Accounts,
              \/ TransferOwnership(sender, account)
              \/ \E authorized \in BOOLEAN : SetAuthorization(sender, account, authorized)
       PROVE  IInv' /\ Keeps(storage, storage')
  <2>1. /\ owner' \in Accounts /\ authorizedPosters' \subseteq Accounts
        /\ readEventTrackingEnabled' \in BOOLEAN /\ storage' = storage
    BY <1>11 DEF IInv, TransferOwnership, SetAuthorization
  <2> QED BY <1>1, <1>2, <2>1 DEF IInv
<1>12. ASSUME NEW sender \in Accounts, NEW enabled \in BOOLEAN, SetReadEventTracking(sender, enabled)
       PROVE  IInv' /\ Keeps(storage, storage')
  <2>1. /\ owner' \in Accounts /\ authorizedPosters' \subseteq Accounts
        /\ readEventTrackingEnabled' \in BOOLEAN /\ storage' = storage
    BY <1>12 DEF IInv, SetReadEventTracking
  <2> QED BY <1>1, <1>2, <2>1 DEF IInv
<1> QED BY <1>3, <1>5, <1>6, <1>8, <1>9, <1>10, <1>11, <1>12 DEF Next

\* The invariant, of which the properties below are consequences.
THEOREM InvariantHolds == Spec => []IInv
<1>1. Init => IInv
  BY InitIsSound
<1>2. IInv /\ [Next]_vars => IInv'
  BY StepIsSound
<1> QED BY <1>1, <1>2, PTL DEF Spec

\* Every variable of the contract has its Solidity type.
THEOREM TypeCorrect == Spec => []TypeOK
<1>1. IInv => TypeOK
  BY DEF IInv, Sound, TypeOK
<1> QED BY <1>1, InvariantHolds, PTL

-----------------------------------------------------------------------------
(***************************************************************************)
(* What the views return                                                   *)
(***************************************************************************)

LEMMA AllAreRecent ==
  ASSUME NEW S, NEW list \in Seq(S)
  PROVE  Recent(list, 0) = list
<1>1. Len(list) - Len(list) + 1 = 1
  BY LenProperties
<1>2. SubSeq(list, 1, Len(list)) = list
  BY SubSeqFull
<1> QED BY <1>1, <1>2 DEF Recent

LEMMA LastTwo ==
  ASSUME NEW S, NEW list \in Seq(S), Len(list) > 1
  PROVE  Recent(list, 2) = <<list[Len(list) - 1], list[Len(list)]>>
<1> DEFINE n == Len(list)
           recent == SubSeq(list, n - 1, n)
           pair == <<list[n - 1], list[n]>>
<1>1. n \in Nat /\ n - 1 \in 1 .. n + 1 /\ n \in 1 .. n
  BY LenProperties
<1>2. /\ recent \in Seq(S) /\ Len(recent) = 2
      /\ \A k \in 1 .. 2 : recent[k] = list[n - 1 + k - 1]
  BY <1>1, SubSeqProperties
<1>3. recent[1] = list[n - 1] /\ recent[2] = list[n]
  BY <1>1, <1>2
<1>4. pair \in Seq(S) /\ Len(pair) = 2 /\ pair[1] = list[n - 1] /\ pair[2] = list[n]
  <2>1. list[n - 1] \in S /\ list[n] \in S
    BY <1>1, ElementOfSeq
  <2> QED BY <2>1
<1> HIDE DEF recent, pair
<1>5. recent = pair
  <2>1. \A k \in 1 .. 2 : recent[k] = pair[k]
    BY <1>3, <1>4
  <2> QED BY <1>2, <1>4, <2>1, SeqEqual
<1>6. Recent(list, 2) = SubSeq(list, n - 1, n)
  <2>1. n - 2 + 1 = n - 1 /\ ~(2 > n)
    BY <1>1
  <2> QED BY <2>1 DEF Recent
<1> QED BY <1>5, <1>6 DEF recent, pair

LEMMA SoundIsExact == ASSUME IInv PROVE EnumerationIsExact
<1> DEFINE all == storage.allProofIds
           n == Len(all)
<1>1. storage \in Storage /\ Enumerated(storage) /\ Genuine(storage)
  BY DEF IInv, Sound
<1>2. all \in Seq(ProofIds) /\ n \in Nat /\ DOMAIN all = 1 .. n
  BY <1>1 DEF Storage
<1>3. GetRecentProofs(0) = all /\ GetProofCount = n
  BY <1>2, AllAreRecent DEF GetRecentProofs, GetProofCount
<1>4. \A k \in 1 .. n : /\ all[k] \in ProofIds /\ Exists(storage, all[k])
                       /\ storage.proofIdToIndex[all[k]] = k - 1
  BY <1>1, <1>2 DEF Enumerated
<1>5. \A id \in ProofIds : Exists(storage, id) =>
        /\ storage.proofIdToIndex[id] + 1 \in 1 .. n
        /\ all[storage.proofIdToIndex[id] + 1] = id
  BY <1>1 DEF Enumerated
<1> HIDE DEF all, n
<1>6. IsInjective(all)
  <2>1. ASSUME NEW j \in 1 .. n, NEW k \in 1 .. n, all[j] = all[k] PROVE j = k
    <3>1. j - 1 = k - 1
      BY <1>4, <2>1
    <3> QED BY <1>2, <3>1
  <2> QED BY <1>2, <2>1 DEF IsInjective
<1>7. Range(all) = {id \in ProofIds : Exists(storage, id)}
  BY <1>2, <1>4, <1>5 DEF Range
<1>8. ASSUME NEW k \in 0 .. n - 1
      PROVE  LET found == GetProofByIndex(k)
             IN /\ storage.proofIdToIndex[found[1]] = k
                /\ Keccak[found[2]] = found[1]
                /\ GetStoredProofByProof(found[2]) = {found[2]}
                /\ <<GetStoredResult(found[1]), found[2]>> \in Accepted
                /\ ReadProofDetails(found[1]) =
                     {<<found[2], GetVerificationResult(found[1])[2], TRUE>>}
  <2> DEFINE id == all[k + 1]
             proof == storage.proofMetadata[id].proof
             found == GetProofByIndex(k)
  <2>1. k + 1 \in 1 .. n /\ (k + 1) - 1 = k
    BY <1>2
  <2>2. id \in ProofIds /\ Exists(storage, id) /\ storage.proofIdToIndex[id] = k
    BY <1>4, <2>1
  <2>3. found[1] = id /\ found[2] = proof
    BY DEF GetProofByIndex, all
  <2>4. Keccak[proof] = id /\ <<storage.proofMetadata[id].result, proof>> \in Accepted
    BY <1>1, <2>2 DEF Genuine
  <2> HIDE DEF found, id
  <2>5. GetStoredProof(id) = {proof}
    BY <2>2 DEF GetStoredProof
  <2>6. GetStoredResult(id) = storage.proofMetadata[id].result
    BY DEF GetStoredResult
  <2>7. GetVerificationResult(id)[2] = storage.proofMetadata[id].result
    BY <2>2, <2>6 DEF GetVerificationResult
  <2>8. ReadProofDetails(id) = {<<proof, storage.proofMetadata[id].result, TRUE>>}
    BY <2>5 DEF ReadProofDetails
  <2>9. GetStoredProofByProof(proof) = {proof}
    BY <2>4, <2>5 DEF GetStoredProofByProof
  <2> HIDE DEF proof
  <2>10. /\ storage.proofIdToIndex[found[1]] = k
         /\ Keccak[found[2]] = found[1]
         /\ GetStoredProofByProof(found[2]) = {found[2]}
         /\ <<GetStoredResult(found[1]), found[2]>> \in Accepted
         /\ ReadProofDetails(found[1]) =
              {<<found[2], GetVerificationResult(found[1])[2], TRUE>>}
    BY <2>2, <2>3, <2>4, <2>6, <2>7, <2>8, <2>9
  <2> QED BY <2>10 DEF found
<1>9. \A proof \in Proofs : ProofExists(proof) <=> Keccak[proof] \in Range(all)
  BY <1>7, ContractAssumption DEF ProofExists
<1>10. ASSUME NEW i \in StateIds
       PROVE  LET list == GetProofsByStateId(i)
              IN /\ Range(list) = {id \in Range(all) : storage.proofMetadata[id].stateId = i}
                 /\ \A m, k \in DOMAIN list :
                      m < k => storage.proofIdToIndex[list[m]] < storage.proofIdToIndex[list[k]]
  <2> DEFINE list == storage.stateToProofs[i]
  <2>1. FiledUnder(storage, i)
    BY DEF IInv, Sound
  <2>2. list \in Seq(ProofIds) /\ DOMAIN list = 1 .. Len(list)
    BY <1>1 DEF Storage
  <2>3. Range(list) = {id \in ProofIds : Exists(storage, id) /\ storage.proofMetadata[id].stateId = i}
    BY <2>1, <2>2 DEF FiledUnder, Range
  <2>4. \A m, k \in 1 .. Len(list) :
          m < k => storage.proofIdToIndex[list[m]] < storage.proofIdToIndex[list[k]]
    BY <2>1 DEF FiledUnder
  <2>5. GetProofsByStateId(i) = list
    BY DEF GetProofsByStateId
  <2> HIDE DEF list
  <2> QED BY <1>7, <2>2, <2>3, <2>4, <2>5
<1> QED BY <1>3, <1>6, <1>7, <1>8, <1>9, <1>10 DEF EnumerationIsExact

\* The enumeration lists every proof once at its index, with metadata that the
\* verifier accepted, and the lists by state share it out.
THEOREM EnumerationStaysExact == Spec => []EnumerationIsExact
<1>1. IInv => EnumerationIsExact
  BY SoundIsExact
<1> QED BY <1>1, InvariantHolds, PTL

LEMMA SoundMatches == ASSUME IInv PROVE HistoryMatchesProofs
<1>1. storage \in Storage /\ Counted(storage)
  BY DEF IInv, Sound
<1>2. ASSUME NEW i \in StateIds
      PROVE  LET history == ReadStateHistory(i, 0)
                 proofs == GetProofsByStateId(i)
                 current == BatchReadStates(<<i>>)[1]
             IN /\ Len(history) = Len(proofs)
                /\ current = IF history = <<>> THEN None ELSE Last(history)
                /\ GetLatestProof(i) = IF proofs = <<>> THEN None ELSE Last(proofs)
                /\ Len(history) > 1 =>
                     ReadStateHistory(i, 2) = <<GetPreviousStateRoot(i), current>>
  <2> DEFINE history == storage.stateHistory[i]
             proofs == storage.stateToProofs[i]
             current == storage.currentState[i]
  <2>1. history \in Seq(Roots) /\ proofs \in Seq(ProofIds) /\ Len(history) \in Nat
    BY <1>1 DEF Storage
  <2>2. /\ Len(history) = Len(proofs)
        /\ current = IF history = <<>> THEN None ELSE history[Len(history)]
        /\ storage.latestProofForState[i] = IF proofs = <<>> THEN None ELSE proofs[Len(proofs)]
    BY DEF IInv, Sound, Paired
  <2>3. ReadStateHistory(i, 0) = history
    BY <2>1, AllAreRecent DEF ReadStateHistory
  <2>4. GetProofsByStateId(i) = proofs /\ GetLatestProof(i) = storage.latestProofForState[i]
    BY DEF GetProofsByStateId, GetLatestProof
  <2>5. BatchReadStates(<<i>>)[1] = current
    BY DEF BatchReadStates
  <2>6. ASSUME Len(history) > 1
        PROVE  ReadStateHistory(i, 2) = <<GetPreviousStateRoot(i), current>>
    <3>1. GetPreviousStateRoot(i) = history[Len(history) - 1]
      BY <2>1, <2>6 DEF GetPreviousStateRoot, GetStateHistoryLength
    <3>2. current = history[Len(history)]
      BY <2>2, <2>6
    <3>3. Recent(history, 2) = <<history[Len(history) - 1], history[Len(history)]>>
      BY <2>1, <2>6, LastTwo
    <3> QED BY <3>1, <3>2, <3>3 DEF ReadStateHistory
  <2> HIDE DEF history, proofs, current
  <2> QED BY <2>2, <2>3, <2>4, <2>5, <2>6 DEF Last
<1>3. LET stats == GetEventStats
          updates == stats.stateUpdates + stats.batchUpdates + stats.proofStored
          counted == SumFunction([a \in Accounts |-> GetEventCountBySubmitter(a)])
      IN /\ stats.proofStored = GetProofCount
         /\ SumFunction([i \in StateIds |-> GetEventCountByStateId(i)]) =
              GetProofCount + stats.stateReads
         /\ counted >= updates + stats.stateReads
         /\ counted >= updates + stats.proofReads
  <2>1. [a \in Accounts |-> GetEventCountBySubmitter(a)] = storage.eventCountBySubmitter
    BY <1>1 DEF GetEventCountBySubmitter, Storage
  <2>2. [i \in StateIds |-> GetEventCountByStateId(i)] = storage.eventCountByStateId
    BY <1>1 DEF GetEventCountByStateId, Storage
  <2> QED BY <1>1, <2>1, <2>2 DEF Counted, AllOf, GetEventStats, GetProofCount
<1> QED BY <1>2, <1>3 DEF HistoryMatchesProofs

\* Each root of a history has its proof, the current root and the latest proof
\* are the last ones, and the counts are those of updates, proofs and reads.
THEOREM HistoriesMatchProofs == Spec => []HistoryMatchesProofs
<1>1. IInv => HistoryMatchesProofs
  BY SoundMatches
<1> QED BY <1>1, InvariantHolds, PTL

LEMMA PrefixKept ==
  ASSUME NEW S, NEW s \in Seq(S), NEW t \in Seq(S), Len(s) <= Len(t),
         \A k \in 1 .. Len(s) : t[k] = s[k]
  PROVE  IsPrefix(s, t)
<1>1. Len(s) \in Nat /\ Len(t) \in Nat
  BY LenProperties
<1>2. SubSeq(s, 1, Len(s)) = s
  BY SubSeqFull
<1>3. /\ SubSeq(t, 1, Len(s)) \in Seq(S)
      /\ Len(SubSeq(t, 1, Len(s))) = Len(s)
      /\ \A k \in 1 .. Len(s) : SubSeq(t, 1, Len(s))[k] = t[k]
  <2>1. 1 \in 1 .. Len(t) + 1 /\ Len(s) \in 0 .. Len(t)
    BY <1>1
  <2> QED BY <1>1, <2>1, SubSeqProperties
<1>4. SubSeq(t, 1, Len(s)) = s
  BY <1>3, SeqEqual
<1> QED BY <1>2, <1>4 DEF IsPrefix

\* What has been recorded of a proof and every root of a history stay, and the
\* root that an update replaces becomes the previous one.
THEOREM RecordsLast == Spec => RecordsAreForever
<1> DEFINE Kept ==
      /\ \A id \in ProofIds : Exists(storage, id) =>
           /\ GetProofMetadata(id)' = GetProofMetadata(id)
           /\ GetProofSubmitter(id)' = GetProofSubmitter(id)
           /\ GetVerificationResult(id)' = GetVerificationResult(id)
      /\ \A i \in StateIds :
           LET history == storage.stateHistory[i]
               later == storage'.stateHistory[i]
           IN /\ IsPrefix(history, later)
              /\ Len(later) = Len(history) + 1 =>
                   GetPreviousStateRoot(i)' = GetCurrentState(i)
<1>1. IInv /\ [Next]_vars => Kept
  <2> SUFFICES ASSUME IInv, [Next]_vars PROVE Kept
    OBVIOUS
  <2>1. IInv' /\ Keeps(storage, storage')
    BY StepIsSound
  <2>2. storage \in Storage /\ storage' \in Storage
    BY <2>1 DEF IInv, Sound
  <2>3. ASSUME NEW id \in ProofIds, Exists(storage, id)
        PROVE  /\ GetProofMetadata(id)' = GetProofMetadata(id)
               /\ GetProofSubmitter(id)' = GetProofSubmitter(id)
               /\ GetVerificationResult(id)' = GetVerificationResult(id)
    <3>1. storage'.proofMetadata[id] = storage.proofMetadata[id]
      BY <2>1, <2>3 DEF Keeps
    <3>2. GetProofMetadata(id)' = GetProofMetadata(id)
      BY <3>1 DEF GetProofMetadata, Exists
    <3> QED BY <3>1, <3>2 DEF GetProofSubmitter, GetVerificationResult, IsProofVerified,
                              GetStoredResult, Exists
  <2>4. ASSUME NEW i \in StateIds
        PROVE  LET history == storage.stateHistory[i]
                   later == storage'.stateHistory[i]
               IN /\ IsPrefix(history, later)
                  /\ Len(later) = Len(history) + 1 =>
                       GetPreviousStateRoot(i)' = GetCurrentState(i)
    <3> DEFINE history == storage.stateHistory[i]
               later == storage'.stateHistory[i]
    <3>1. history \in Seq(Roots) /\ later \in Seq(Roots)
      BY <2>2 DEF Storage
    <3>2. Len(history) <= Len(later) /\ \A k \in 1 .. Len(history) : later[k] = history[k]
      BY <2>1 DEF Keeps
    <3>3. IsPrefix(history, later)
      BY <3>1, <3>2, PrefixKept
    <3>4. ASSUME Len(later) = Len(history) + 1
          PROVE  GetPreviousStateRoot(i)' = GetCurrentState(i)
      <4>1. GetCurrentState(i) = IF history = <<>> THEN None ELSE history[Len(history)]
        BY DEF IInv, Sound, Paired, GetCurrentState
      <4>2. GetPreviousStateRoot(i)' = IF Len(later) < 2 THEN None ELSE later[Len(later) - 1]
        BY DEF GetPreviousStateRoot, GetStateHistoryLength
      <4>3. Len(history) \in Nat /\ (history = <<>> <=> Len(history) = 0)
        BY <3>1, EmptySeq
      <4> HIDE DEF history, later
      <4>4. CASE Len(history) = 0
        BY <3>4, <4>1, <4>2, <4>3, <4>4
      <4>5. CASE Len(history) # 0
        <5>1. later[Len(history)] = history[Len(history)] /\ Len(later) - 1 = Len(history)
          BY <3>2, <3>4, <4>3, <4>5
        <5> QED BY <3>4, <4>1, <4>2, <4>3, <4>5, <5>1
      <4> QED BY <4>4, <4>5
    <3> QED BY <3>3, <3>4
  <2> QED BY <2>3, <2>4
<1>2. Spec => [][Kept]_vars
  <2>1. IInv /\ [Next]_vars => [Kept]_vars
    BY <1>1
  <2> HIDE DEF Kept
  <2> QED BY <2>1, InvariantHolds, PTL DEF Spec
<1> QED BY <1>2 DEF RecordsAreForever

=============================================================================
