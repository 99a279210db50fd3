------------------------- MODULE ArithmeticContract -------------------------
(***************************************************************************)
(* contracts/src/Arithmetic.sol: the contract that checks a proof and then *)
(* records a new state root, the proof, and four indexes over the proofs.  *)
(*                                                                         *)
(* A transaction of the EVM runs alone and, when any statement reverts,    *)
(* leaves no trace; so each external function is one action, and a call    *)
(* that reverts is no action.  The verifier is a view function that the    *)
(* contract calls by STATICCALL: it decides, and cannot call back.         *)
(*                                                                         *)
(* Abstractions: the block time and the counts by day are left out; what   *)
(* storedProofs, storedResults and verifiedProofs keep for a proof is part *)
(* of its metadata, since _storeProofMetadata follows them in the same     *)
(* transaction and lets an identifier be written once.                     *)
(***************************************************************************)
EXTENDS Integers, SequencesExt

CONSTANTS
  Accounts,    \* addresses other than zero
  Deployer,    \* the account that creates the contract
  StateIds,    \* 32-byte identifiers of states, bytes32(0) perhaps among them
  Roots,       \* state roots that posters submit, none of them zero
  Proofs,      \* byte strings that are submitted as proofs
  Results,     \* byte strings that are submitted as public values
  ProofIds,    \* 32-byte hashes other than zero
  Keccak,      \* keccak256 on Proofs
  Accepted,    \* pairs of public values and proof the verifier accepts
  None,        \* bytes32(0), and metadata that does not exist
  MaxBatch,    \* bound: updates in one batch
  MaxCalls     \* bound: calls that are counted as events

Metadata == [stateId: StateIds, submitter: Accounts, proof: Proofs, result: Results]

ASSUME ContractAssumption ==
  /\ Deployer \in Accounts
  /\ Keccak \in [Proofs -> ProofIds]
  /\ Accepted \subseteq Results \X Proofs
  /\ None \notin Roots \cup ProofIds \cup Metadata
  /\ IsFiniteSet(Accounts) /\ IsFiniteSet(StateIds)
  /\ MaxBatch \in Nat
  /\ MaxCalls \in Nat

VARIABLES
  owner,
  authorizedPosters,         \* the accounts mapped to true
  readEventTrackingEnabled,
  storage                    \* every other variable of the contract

vars == <<owner, authorizedPosters, readEventTrackingEnabled, storage>>

Update == [stateId: StateIds, newState: Roots, proof: Proofs, result: Results]

Storage ==
  [currentState: [StateIds -> Roots \cup {None}],
   stateHistory: [StateIds -> Seq(Roots)],
   proofMetadata: [ProofIds -> Metadata \cup {None}],
   proofIdToIndex: [ProofIds -> Nat],
   allProofIds: Seq(ProofIds),
   stateToProofs: [StateIds -> Seq(ProofIds)],
   latestProofForState: [StateIds -> ProofIds \cup {None}],
   eventStats: [stateUpdates: Nat, batchUpdates: Nat, proofStored: Nat,
                stateReads: Nat, proofReads: Nat],
   eventCountBySubmitter: [Accounts -> Nat],
   eventCountByStateId: [StateIds -> Nat]]

Exists(s, id) == s.proofMetadata[id] # None
Verifies(u) == <<u.result, u.proof>> \in Accepted

-----------------------------------------------------------------------------

Init ==
  /\ owner = Deployer
  /\ authorizedPosters = {Deployer}
  /\ readEventTrackingEnabled = TRUE
  /\ storage = [currentState |-> [i \in StateIds |-> None],
                stateHistory |-> [i \in StateIds |-> <<>>],
                proofMetadata |-> [id \in ProofIds |-> None],
                proofIdToIndex |-> [id \in ProofIds |-> 0],
                allProofIds |-> <<>>,
                stateToProofs |-> [i \in StateIds |-> <<>>],
                latestProofForState |-> [i \in StateIds |-> None],
                eventStats |-> [stateUpdates |-> 0, batchUpdates |-> 0,
                                proofStored |-> 0, stateReads |-> 0,
                                proofReads |-> 0],
                eventCountBySubmitter |-> [a \in Accounts |-> 0],
                eventCountByStateId |-> [i \in StateIds |-> 0]]

IsAuthorized(a) == a \in authorizedPosters \/ a = owner

\* _updateEventStats: one event of a kind, by the sender
UpdateEventStats(s, sender, kind) ==
  [s EXCEPT !.eventStats[kind] = @ + 1,
            !.eventCountBySubmitter[sender] = @ + 1]

\* _trackReadEvent: every call counts for its sender, but bytes32(0) is not
\* counted as a state or a proof that was read.
TrackReadEvent(s, sender, stateId, proofId) ==
  LET stateIds == {stateId} \ {None}
      proofIds == {proofId} \ {None}
  IN IF ~readEventTrackingEnabled THEN s
     ELSE [s EXCEPT
            !.eventCountBySubmitter[sender] = @ + 1,
            !.eventStats.stateReads = @ + Cardinality(stateIds),
            !.eventStats.proofReads = @ + Cardinality(proofIds),
            !.eventCountByStateId =
              [i \in StateIds |-> @[i] + (IF i \in stateIds THEN 1 ELSE 0)]]

\* The new entries of _storeProofMetadata
WithProof(s, sender, u, id) ==
  UpdateEventStats(
    [s EXCEPT !.proofMetadata[id] = [stateId |-> u.stateId, submitter |-> sender,
                                     proof |-> u.proof, result |-> u.result],
              !.proofIdToIndex[id] = Len(s.allProofIds),
              !.allProofIds = Append(@, id),
              !.stateToProofs[u.stateId] = Append(@, id),
              !.latestProofForState[u.stateId] = id],
    sender, "proofStored")

\* Mutant: a proof has the index of the proof before it.
StoreIndexedBefore(s, sender, u) ==
  LET id == Keccak[u.proof]
  IN {[WithProof(t, sender, u, id) EXCEPT !.proofIdToIndex[id] = @ - 1] :
        t \in {t \in {s} : ~Exists(t, id)}}

\* Mutant: only the latest proof of the state is known to exist.
StoreIfNotLatest(s, sender, u) ==
  LET id == Keccak[u.proof]
  IN {WithProof(t, sender, u, id) :
        t \in {t \in {s} : t.latestProofForState[u.stateId] # id}}

\* _storeProofMetadata: the storage it leaves, or none when the proof exists
\* already and the transaction reverts
StoreProofMetadata(s, sender, u) ==
  LET id == Keccak[u.proof]
  IN {WithProof(t, sender, u, id) : t \in {t \in {s} : ~Exists(t, id)}}

\* Mutant: a root that is current already is not pushed again.
PostUnlessCurrent(s, sender, u) ==
  LET pushed == IF s.currentState[u.stateId] = u.newState THEN s
                ELSE [s EXCEPT !.currentState[u.stateId] = u.newState,
                               !.stateHistory[u.stateId] = Append(@, u.newState)]
  IN {[t EXCEPT !.eventCountByStateId[u.stateId] = @ + 1] :
        t \in StoreProofMetadata(pushed, sender, u)}

\* The body that updateState and each turn of batchUpdateStates share
Post(s, sender, u) ==
  LET pushed == [s EXCEPT !.currentState[u.stateId] = u.newState,
                          !.stateHistory[u.stateId] = Append(@, u.newState)]
  IN {[t EXCEPT !.eventCountByStateId[u.stateId] = @ + 1] :
        t \in StoreProofMetadata(pushed, sender, u)}

\* The loop of batchUpdateStates: rejected proofs are skipped, and one proof
\* that exists, before the batch or by an earlier turn, reverts the whole call.
PostAll(s, sender, us) ==
  LET after[i \in 0 .. Len(us)] ==
        IF i = 0 THEN {s}
        ELSE IF Verifies(us[i])
             THEN UNION {Post(t, sender, us[i]) : t \in after[i - 1]}
             ELSE after[i - 1]
  IN after[Len(us)]

-----------------------------------------------------------------------------

Access == <<owner, authorizedPosters, readEventTrackingEnabled>>

\* Bound: what the contract has counted so far
CallsLeft == SumFunction(storage.eventCountBySubmitter) < MaxCalls

UpdateState(sender, u) ==
  /\ CallsLeft
  /\ IsAuthorized(sender)
  /\ Verifies(u)
  /\ \E s \in Post(storage, sender, u) :
       storage' = UpdateEventStats(s, sender, "stateUpdates")
  /\ UNCHANGED Access

BatchUpdateStates(sender, us) ==
  /\ CallsLeft
  /\ IsAuthorized(sender)
  /\ \E s \in PostAll(storage, sender, us) :
       storage' = UpdateEventStats(s, sender, "batchUpdates")
  /\ UNCHANGED Access

\* Anyone may read any identifier, bytes32(0) included, and reading is counted.
ReadCurrentState(sender, i) ==
  /\ CallsLeft
  /\ storage' = TrackReadEvent(storage, sender, i, None)
  /\ UNCHANGED Access

GetProofById(sender, id) ==
  /\ CallsLeft
  /\ storage' = TrackReadEvent(storage, sender, None, id)
  /\ UNCHANGED Access

\* A state without a proof returns before anything is counted.
GetProofByStateId(sender, i) ==
  /\ CallsLeft
  /\ storage.latestProofForState[i] # None
  /\ storage' = TrackReadEvent(storage, sender, i, storage.latestProofForState[i])
  /\ UNCHANGED Access

SetAuthorization(sender, account, authorized) ==
  /\ sender = owner
  /\ authorizedPosters' = IF authorized THEN authorizedPosters \cup {account}
                          ELSE authorizedPosters \ {account}
  /\ UNCHANGED <<owner, readEventTrackingEnabled, storage>>

\* The old owner loses its right first, so a transfer to oneself keeps it.
TransferOwnership(sender, newOwner) ==
  /\ sender = owner
  /\ owner' = newOwner
  /\ authorizedPosters' = (authorizedPosters \ {owner}) \cup {newOwner}
  /\ UNCHANGED <<readEventTrackingEnabled, storage>>

SetReadEventTracking(sender, enabled) ==
  /\ sender = owner
  /\ readEventTrackingEnabled' = enabled
  /\ UNCHANGED <<owner, authorizedPosters, storage>>

Next ==
  \E sender \in Accounts :
    \/ \E u \in Update : UpdateState(sender, u)
    \/ \E us \in BoundedSeq(Update, MaxBatch) : BatchUpdateStates(sender, us)
    \/ \E i \in StateIds \cup {None} : ReadCurrentState(sender, i)
    \/ \E i \in StateIds : GetProofByStateId(sender, i)
    \/ \E id \in ProofIds \cup {None} : GetProofById(sender, id)
    \/ \E account \in Accounts :
         \/ TransferOwnership(sender, account)
         \/ \E authorized \in BOOLEAN : SetAuthorization(sender, account, authorized)
    \/ \E enabled \in BOOLEAN : SetReadEventTracking(sender, enabled)

Spec == Init /\ [][Next]_vars

-----------------------------------------------------------------------------

(***************************************************************************)
(* The views, which change nothing.  One that reverts returns an empty set *)
(* here, and one that does not revert where it may a set of one element.   *)
(***************************************************************************)

\* The last entries of a list, oldest first; limit 0 is no limit.
Recent(list, limit) ==
  LET n == IF limit = 0 \/ limit > Len(list) THEN Len(list) ELSE limit
  IN SubSeq(list, Len(list) - n + 1, Len(list))

GetCurrentState(i) == storage.currentState[i]

BatchReadStates(is) == [k \in DOMAIN is |-> storage.currentState[is[k]]]

ReadStateHistory(i, limit) == Recent(storage.stateHistory[i], limit)

GetStateHistoryLength(i) == Len(storage.stateHistory[i])

GetPreviousStateRoot(i) ==
  IF GetStateHistoryLength(i) < 2 THEN None
  ELSE storage.stateHistory[i][GetStateHistoryLength(i) - 1]

GetLatestProof(i) == storage.latestProofForState[i]

GetProofsByStateId(i) == storage.stateToProofs[i]

GetProofCount == Len(storage.allProofIds)

GetStoredProof(id) ==
  {storage.proofMetadata[id].proof : x \in {x \in {id} : Exists(storage, x)}}

GetStoredProofByProof(proof) == GetStoredProof(Keccak[proof])

GetStoredResult(id) == storage.proofMetadata[id].result

\* proofs are numbered from 0
GetProofByIndex(k) ==
  LET id == storage.allProofIds[k + 1]
  IN <<id, storage.proofMetadata[id].proof>>

GetRecentProofs(limit) == Recent(storage.allProofIds, limit)

ReadProofDetails(id) ==
  {<<proof, storage.proofMetadata[id].result, TRUE>> : proof \in GetStoredProof(id)}

ProofExists(proof) == Exists(storage, Keccak[proof])

GetProofMetadata(id) ==
  {storage.proofMetadata[id] : x \in {x \in {id} : Exists(storage, x)}}

GetProofSubmitter(id) == {metadata.submitter : metadata \in GetProofMetadata(id)}

IsProofVerified(id) == Exists(storage, id)

GetVerificationResult(id) ==
  <<IsProofVerified(id), IF Exists(storage, id) THEN GetStoredResult(id) ELSE None>>

GetEventStats == storage.eventStats

GetEventCountBySubmitter(a) == storage.eventCountBySubmitter[a]

GetEventCountByStateId(i) == storage.eventCountByStateId[i]

-----------------------------------------------------------------------------

\* The contract's variables have their Solidity types.
TypeOK ==
  /\ owner \in Accounts
  /\ authorizedPosters \subseteq Accounts
  /\ readEventTrackingEnabled \in BOOLEAN
  /\ storage \in Storage

\* The enumeration lists every proof that exists once and proofIdToIndex gives
\* its place, whatever mix of single and batched updates was made; each proof
\* is found by its bytes, the verifier has accepted it together with the
\* result stored for it, and the views by identifier, by bytes and by number
\* agree on which proofs exist.  The lists by state share out the enumeration
\* in its order, so no proof vouches for two states.
EnumerationIsExact ==
  LET all == GetRecentProofs(0)
  IN /\ IsInjective(all)
     /\ Range(all) = {id \in ProofIds : Exists(storage, id)}
     /\ \A k \in 0 .. GetProofCount - 1 :
          LET found == GetProofByIndex(k)
          IN /\ storage.proofIdToIndex[found[1]] = k
             /\ Keccak[found[2]] = found[1]
             /\ GetStoredProofByProof(found[2]) = {found[2]}
             /\ <<GetStoredResult(found[1]), found[2]>> \in Accepted
             /\ ReadProofDetails(found[1]) =
                  {<<found[2], GetVerificationResult(found[1])[2], TRUE>>}
     /\ \A proof \in Proofs :
          ProofExists(proof) <=> Keccak[proof] \in Range(all)
     /\ \A i \in StateIds :
          LET list == GetProofsByStateId(i)
          IN /\ Range(list) = {id \in Range(all) : storage.proofMetadata[id].stateId = i}
             /\ \A m, n \in DOMAIN list :
                  m < n => storage.proofIdToIndex[list[m]] < storage.proofIdToIndex[list[n]]

\* Every root in a history was vouched for by a proof of its own, and the
\* current root and the latest proof are the last of their lists: the readers
\* of one root, of several and of the latest few tell the same story.  The
\* counts by state are these updates and the reads of states, bytes32(0) never
\* counted as one, and the counts by submitter hold every update, every stored
\* proof and every read, however updates were batched and the counting of
\* reads switched off and on.  (A submitter's count may exceed them all: it is
\* raised by a read of bytes32(0), which counts as a read of nothing.)
HistoryMatchesProofs ==
  /\ \A i \in StateIds :
       LET history == ReadStateHistory(i, 0)
           proofs == GetProofsByStateId(i)
           current == BatchReadStates(<<i>>)[1]
       IN /\ Len(history) = Len(proofs)
          /\ current = IF history = <<>> THEN None ELSE Last(history)
          /\ GetLatestProof(i) = IF proofs = <<>> THEN None ELSE Last(proofs)
          /\ Len(history) > 1 =>
               ReadStateHistory(i, 2) = <<GetPreviousStateRoot(i), current>>
  /\ LET stats == GetEventStats
         updates == stats.stateUpdates + stats.batchUpdates + stats.proofStored
         counted == SumFunction([a \in Accounts |-> GetEventCountBySubmitter(a)])
     IN /\ stats.proofStored = GetProofCount
        /\ SumFunction([i \in StateIds |-> GetEventCountByStateId(i)]) =
             GetProofCount + stats.stateReads
        /\ counted >= updates + stats.stateReads
        /\ counted >= updates + stats.proofReads

\* A proof, with the state and the submitter it is filed under, and every root
\* of a history stay as they are for good; a root that one update replaces is
\* the one getPreviousStateRoot returns from then on.
RecordsAreForever ==
  [][/\ \A id \in ProofIds : Exists(storage, id) =>
          /\ GetProofMetadata(id)' = GetProofMetadata(id)
          /\ GetProofSubmitter(id)' = GetProofSubmitter(id)
          /\ GetVerificationResult(id)' = GetVerificationResult(id)
     /\ \A i \in StateIds :
          LET history == storage.stateHistory[i]
              later == storage'.stateHistory[i]
          IN /\ IsPrefix(history, later)
             /\ Len(later) = Len(history) + 1 =>
                  GetPreviousStateRoot(i)' = GetCurrentState(i)]_vars

=============================================================================
