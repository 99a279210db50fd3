----------------------------- MODULE AdsService -----------------------------
(***************************************************************************)
(* The ADS service around the indexed Merkle tree, the vApp integration    *)
(* that runs whole workflows on it (compliance, insertion, settlement,     *)
(* audit), and the GraphQL resolvers that call both.                       *)
(*                                                                         *)
(* Two services share one database, as the resolvers compose them: "vapp"  *)
(* belongs to the vApp integration and inserts and proves, "ads" answers   *)
(* the queries for statistics and audit trails.  Each has a cache of       *)
(* state commitments and a map of audit trails of its own, in memory.      *)
(* vApp calls hold the lock of their service while they are inside it:     *)
(* alone for insertions, shared otherwise.  Every statement commits on its *)
(* own.  A call may end with an error, be dropped by the server, or stop   *)
(* with the process at any of its awaits; a statement it has sent by then  *)
(* may run later.                                                          *)
(*                                                                         *)
(* Abstractions: inserting into the tree is one step, which may stop       *)
(* half-way (IndexedMerkleTree has its statements); roots are numbered in  *)
(* the order in which they are computed; an event is known by its          *)
(* timestamp, its position in events.  Witnesses, gas, metrics and the     *)
(* ZK proofs, which are made in passing and whose failure is only logged,  *)
(* are left out.  Settlement, compliance checks and batches are enabled.   *)
(***************************************************************************)
EXTENDS Integers, SequencesExt

CONSTANTS
  Values,       \* nullifiers
  Compliant,    \* those the compliance service accepts
  Lists,        \* inputs of batch insertions: sequences of nullifiers
  BatchLimit,   \* max_batch_size and batch_size_limit, 1000 in the code
  CacheLimit,   \* cache_size_limit, 50000 in the code
  Callers,      \* bound: calls in flight
  MaxCalls,     \* bound: calls made
  MaxFaults     \* bound: calls that fail or are dropped, stops of the process

ASSUME AdsAssumption ==
  /\ Values \subseteq Nat \ {0} /\ IsFiniteSet(Values) /\ Compliant \subseteq Values
  /\ Lists \subseteq Seq(Values)
  /\ BatchLimit \in Nat /\ CacheLimit \in Nat
  /\ MaxCalls \in Nat /\ MaxFaults \in Nat

VARIABLES
  members,   \* the nullifiers in the table
  leaves,    \* those whose leaf is in the tree
  root,      \* tree_state.root_hash
  made,      \* roots computed so far
  total,     \* tree_state.total_nullifiers
  events,    \* the audit events made so far
  stored,    \* those in audit_events
  cache,     \* state_cache of each service
  trail,     \* audit_storage of each service
  since,     \* observation: events made before this process began
  call,      \* what each caller is doing
  settled,   \* external: what the settlement contract got, and after which insertion
  lateRows,    \* rows of nullifiers whose COMMIT ended calls have sent
  lateRoots,   \* updates of root_hash that ended calls have sent
  lateEvents,  \* INSERTs into audit_events that ended calls have sent
  strays,      \* observation: roots that such an update has put there
  unaudited,   \* observation: nullifiers of calls that ended between the
               \* insertion and its event
  unpushed,    \* observation: events of calls that ended before the trail
  calls, faults

tree == <<members, leaves, root, made, total>>
audit == <<events, stored, trail>>
late == <<lateRows, lateRoots, lateEvents, strays, unaudited, unpushed>>
vars == <<tree, audit, cache, since, call, settled, late, calls, faults>>

-----------------------------------------------------------------------------

Services == {"ads", "vapp"}
Roots == 0 .. Cardinality(Values)

Event == [value: Values, kind: {"insertion", "membership", "nonmembership"},
          before: Roots, after: Roots]
Commitment == [root: Roots, count: 0 .. Cardinality(Values) + 1]
NoCommitment == [root |-> 0, count |-> 0]
Transition == [before: Roots, after: Roots]

\* A trail is the sequence of its events; NoTrail: there is none in memory.
NoTrail == <<0>>

\* value is the nullifier in hand, rest the others of a batch, done the transitions so far.
Call == [kind: {"none", "insert", "batch", "presence", "absence", "commitment", "stats", "trail"},
         pc: {"start", "row", "cache", "store", "push", "settle", "look", "submit", "audit", "keep"},
         value: Values \cup {0}, rest: Seq(Values), done: Seq(Transition),
         event: Nat, commitment: Commitment, loaded: Seq(Nat)]

Idle == [kind |-> "none", pc |-> "start", value |-> 0, rest |-> <<>>, done |-> <<>>,
         event |-> 0, commitment |-> NoCommitment, loaded |-> <<>>]

Init ==
  /\ members = {} /\ leaves = {} /\ root = 0 /\ made = 0 /\ total = 1
  /\ events = <<>> /\ stored = {}
  /\ trail = [s \in Services |-> [v \in Values |-> NoTrail]]
  /\ cache = [s \in Services |-> {}]
  /\ since = 0
  /\ call = [c \in Callers |-> Idle]
  /\ settled = {}
  /\ lateRows = {} /\ lateRoots = {} /\ lateEvents = {}
  /\ strays = {} /\ unaudited = {} /\ unpushed = {}
  /\ calls = 0 /\ faults = 0

Go(c, pc) == call' = [call EXCEPT ![c].pc = pc]
End(c) == call' = [call EXCEPT ![c] = Idle]
Fault == faults < MaxFaults /\ faults' = faults + 1

(***************************************************************************)
(* The lock of the vApp integration's service.  An insertion releases it   *)
(* between its steps; a batch keeps it for all its nullifiers, and submits *)
(* its commitment under the shared lock.  The lock of the other service is *)
(* only ever shared.                                                       *)
(***************************************************************************)
Inserts(c) == call[c].kind \in {"insert", "batch"}
Proves(c) == call[c].kind \in {"presence", "absence"}

\* Mutant: a batch lets the lock go between its nullifiers.
WritingOneByOne(c) == Inserts(c) /\ call[c].pc \in {"cache", "store", "push"}

Writing(c) == Inserts(c) /\ call[c].pc \in {"row", "cache", "store", "push"}

Reading(c) == \/ Proves(c) /\ call[c].pc \in {"store", "push"}
              \/ call[c].kind = "batch" /\ call[c].pc = "submit"
              \/ call[c].kind # "stats" /\ call[c].pc = "look"

MayRead == \A c \in Callers : ~Writing(c)
MayWrite == MayRead /\ \A c \in Callers : ~Reading(c)

(***************************************************************************)
(* Calls.  A nullifier that is not compliant is refused before anything    *)
(* happens, and so is a batch that is too long.                            *)
(***************************************************************************)
Make(c, kind, v, rest) ==
  /\ call[c] = Idle
  /\ calls < MaxCalls /\ calls' = calls + 1
  /\ call' = [call EXCEPT ![c] = [Idle EXCEPT !.kind = kind, !.value = v, !.rest = rest]]
  /\ UNCHANGED <<tree, audit, cache, since, settled, late, faults>>

InsertNullifier(c) == \E v \in Compliant : Make(c, "insert", v, <<>>)

BatchInsertNullifiers(c) ==
  \E list \in Lists : Len(list) \in 1 .. BatchLimit /\ Make(c, "batch", Head(list), Tail(list))

MembershipProof(c) == \E v \in Values : Make(c, "presence", v, <<>>)
NonMembershipProof(c) == \E v \in Values : Make(c, "absence", v, <<>>)
StateCommitment(c) == Make(c, "commitment", 0, <<>>)
TreeStats(c) == Make(c, "stats", 0, <<>>)
AuditTrail(c) == \E v \in Values : Make(c, "trail", v, <<>>)

-----------------------------------------------------------------------------
(***************************************************************************)
(* IndexedMerkleTreeADS::insert, for one nullifier or for each of a batch  *)
(***************************************************************************)

\* The call has the lock, or gets it, and no other transaction its row.
HasLock(c) ==
  /\ \/ call[c].pc = "start" /\ MayWrite
     \/ call[c].pc = "row"
  /\ call[c].value \notin lateRows

InsertRow(c) ==
  /\ Inserts(c) /\ HasLock(c)
  /\ call[c].value \notin members
  /\ members' = members \cup {call[c].value}
  /\ leaves' = leaves \cup {call[c].value}
  /\ made' = made + 1 /\ root' = made'
  /\ call' = [call EXCEPT ![c].pc = "cache",
                          ![c].done = Append(@, [before |-> root, after |-> made'])]
  /\ UNCHANGED <<total, audit, cache, since, settled, late, calls, faults>>

\* NullifierExists.  The earlier nullifiers of a batch stay, and all are reported as failed.
InsertRefused(c) ==
  /\ Inserts(c) /\ HasLock(c)
  /\ call[c].value \in members
  /\ End(c)
  /\ UNCHANGED <<tree, audit, cache, since, settled, late, calls, faults>>

(***************************************************************************)
(* insert_nullifier stops: before the row, with its COMMIT on its way,     *)
(* before the leaf, before the root, with the update of the root on its    *)
(* way, or after it.                                                       *)
(***************************************************************************)
InsertFails(c) ==
  /\ Inserts(c) /\ HasLock(c) /\ Fault
  /\ call[c].value \notin members
  /\ \/ /\ lateRows' \in {lateRows, lateRows \cup {call[c].value}}
        /\ UNCHANGED <<members, leaves, root, made, lateRoots, unaudited>>
     \/ /\ lateRows' = lateRows
        /\ members' = members \cup {call[c].value}
        /\ unaudited' = unaudited \cup {call[c].value}
        /\ \/ leaves' = leaves /\ UNCHANGED <<root, made, lateRoots>>
           \/ /\ leaves' = leaves \cup {call[c].value}
              /\ \/ UNCHANGED <<root, made, lateRoots>>
                 \/ made' = made + 1 /\ root' = made' /\ UNCHANGED lateRoots
                 \/ made' = made + 1 /\ lateRoots' = lateRoots \cup {made'} /\ UNCHANGED root
  /\ End(c)
  /\ UNCHANGED <<total, audit, cache, since, settled, lateEvents, strays, unpushed, calls>>

\* The row of an ended call becomes visible.
LateRow(v) ==
  /\ v \in lateRows
  /\ members' = members \cup {v}
  /\ lateRows' = lateRows \ {v}
  /\ unaudited' = unaudited \cup {v}
  /\ UNCHANGED <<leaves, root, made, total, audit, cache, since, call, settled,
                 lateRoots, lateEvents, strays, unpushed, calls, faults>>

\* A root that an ended call has computed replaces the present one.
LateRoot(r) ==
  /\ r \in lateRoots
  /\ root' = r
  /\ lateRoots' = lateRoots \ {r}
  /\ strays' = strays \cup {r}
  /\ UNCHANGED <<members, leaves, made, total, audit, cache, since, call, settled,
                 lateRows, lateEvents, unaudited, unpushed, calls, faults>>

\* get_nullifier_count
NullifierCount == total

CommitmentTo(r) == [root |-> r, count |-> NullifierCount]

Put(C, new) == {old \in C : old.root # new.root} \cup {new}

\* Beyond the limit, entries are removed, no matter which.
Limited(C) ==
  IF Cardinality(C) <= CacheLimit THEN {C} ELSE {D \in SUBSET C : Cardinality(D) = CacheLimit}

MakeEvent(c, kind, before, after) ==
  /\ events' = Append(events, [value |-> call[c].value, kind |-> kind,
                               before |-> before, after |-> after])
  /\ call' = [call EXCEPT ![c].pc = "store", ![c].event = Len(events) + 1]
  /\ UNCHANGED <<stored, trail>>

\* Mutant: only the last nullifier of a batch is audited.
AuditLastOnly(c) ==
  /\ Inserts(c) /\ call[c].pc = "cache"
  /\ \E kept \in Limited(Put(cache["vapp"], CommitmentTo(Last(call[c].done).after))) :
       cache' = [cache EXCEPT !["vapp"] = kept]
  /\ IF call[c].rest = <<>>
     THEN MakeEvent(c, "insertion", Last(call[c].done).before, Last(call[c].done).after)
     ELSE /\ call' = [call EXCEPT ![c].pc = "row", ![c].value = Head(call[c].rest), ![c].rest = Tail(@)]
          /\ UNCHANGED audit
  /\ UNCHANGED <<tree, since, settled, late, calls, faults>>

CacheCommitment(c) ==
  /\ Inserts(c) /\ call[c].pc = "cache"
  /\ LET new == CommitmentTo(Last(call[c].done).after)
     IN  \E kept \in Limited(Put(cache["vapp"], new)) : cache' = [cache EXCEPT !["vapp"] = kept]
  /\ MakeEvent(c, "insertion", Last(call[c].done).before, Last(call[c].done).after)
  /\ UNCHANGED <<tree, since, settled, late, calls, faults>>

\* record_audit_event: first the row of audit_events, ...
StoreEvent(c) ==
  /\ call[c].pc = "store"
  /\ stored' = stored \cup {call[c].event}
  /\ Go(c, "push")
  /\ UNCHANGED <<tree, events, trail, cache, since, settled, late, calls, faults>>

\* Mutant: a new trail starts without the event.
AppendedLate(t, e) == IF t = NoTrail THEN <<>> ELSE Append(t, e)

Appended(t, e) == IF t = NoTrail THEN <<e>> ELSE Append(t, e)

\* What follows the audit event of a nullifier: the next one of the batch,
\* the settlement, or the end.
AfterPush(c) ==
  IF ~Inserts(c) THEN Idle
  ELSE IF call[c].rest = <<>> THEN [call[c] EXCEPT !.pc = "settle"]
  ELSE [call[c] EXCEPT !.pc = "row", !.value = Head(call[c].rest), !.rest = Tail(@)]

\* ... then the trail in memory.
PushEvent(c) ==
  /\ call[c].pc = "push"
  /\ trail' = [trail EXCEPT !["vapp"][call[c].value] = Appended(@, call[c].event)]
  /\ call' = [call EXCEPT ![c] = AfterPush(c)]
  /\ UNCHANGED <<tree, events, stored, cache, since, settled, late, calls, faults>>

(***************************************************************************)
(* A statement of the service fails, or the server drops the call at an    *)
(* await: before a statement, at a lock, or with the INSERT of the event   *)
(* on its way.                                                             *)
(***************************************************************************)
CallEnds(c) ==
  /\ call[c].pc # "start" /\ Fault
  /\ unaudited' = IF Inserts(c) /\ call[c].pc \in {"cache", "store"}
                  THEN unaudited \cup {call[c].value} ELSE unaudited
  /\ unpushed' = IF call[c].pc \in {"store", "push"}
                 THEN unpushed \cup {call[c].event} ELSE unpushed
  /\ \/ UNCHANGED lateEvents
     \/ call[c].pc = "store" /\ lateEvents' = lateEvents \cup {call[c].event}
  /\ End(c)
  /\ UNCHANGED <<tree, audit, cache, since, settled, lateRows, lateRoots, strays, calls>>

\* The INSERT of the event of an ended call runs.
LateEvent(e) ==
  /\ e \in lateEvents
  /\ stored' = stored \cup {e}
  /\ lateEvents' = lateEvents \ {e}
  /\ UNCHANGED <<tree, events, trail, cache, since, call, settled, lateRows, lateRoots, strays,
                 unaudited, unpushed, calls, faults>>

-----------------------------------------------------------------------------
(***************************************************************************)
(* The rest of the workflow                                                *)
(***************************************************************************)

(***************************************************************************)
(* get_state_commitment, for the queries and for the settlement after an   *)
(* insertion (the current commitment is settled, after this insertion or a *)
(* later one).  The root is read; then the commitment to it is taken from  *)
(* the cache, or made from the counter and cached without regard to the    *)
(* limit, in one step here: the counter stays until the process restarts,  *)
(* so a commitment that comes into the cache in between is the same one.   *)
(***************************************************************************)
ServiceOf(c) == IF call[c].kind = "stats" THEN "ads" ELSE "vapp"

AsksForCommitment(c) ==
  \/ call[c].kind = "stats" /\ call[c].pc = "start"
  \/ call[c].kind = "commitment" /\ call[c].pc = "start" /\ MayRead
  \/ call[c].pc = "settle" /\ MayRead

ReadRoot(c) ==
  /\ AsksForCommitment(c)
  /\ call' = [call EXCEPT ![c].pc = "look", ![c].commitment = [root |-> root, count |-> 0]]
  /\ UNCHANGED <<tree, audit, cache, since, settled, late, calls, faults>>

Cached(s, r) == {k \in cache[s] : k.root = r}

\* What a call goes on with when it has a commitment.
Given(c, k) == IF Inserts(c) THEN [call[c] EXCEPT !.pc = "submit", !.commitment = k] ELSE Idle

\* Mutant: any cached commitment will do.
GetAnyCommitment(c) ==
  /\ call[c].pc = "look"
  /\ \E k \in cache[ServiceOf(c)] : call' = [call EXCEPT ![c] = Given(c, k)]
  /\ UNCHANGED <<tree, audit, cache, since, settled, late, calls, faults>>

GetCommitment(c) ==
  /\ call[c].pc = "look"
  /\ LET s == ServiceOf(c)
         new == CommitmentTo(call[c].commitment.root)
     IN  \/ \E k \in Cached(s, new.root) :
              cache' = cache /\ call' = [call EXCEPT ![c] = Given(c, k)]
         \/ /\ Cached(s, new.root) = {}
            /\ cache' = [cache EXCEPT ![s] = Put(@, new)]
            /\ call' = [call EXCEPT ![c] = Given(c, new)]
  /\ UNCHANGED <<tree, audit, since, settled, late, calls, faults>>

\* submit_state_commitment; a failure is logged and changes nothing.
SubmitCommitment(c) ==
  /\ call[c].pc = "submit"
  /\ \/ settled' = settled \cup {[after |-> Last(call[c].done).after, commitment |-> call[c].commitment]}
     \/ UNCHANGED settled
  /\ IF call[c].kind = "insert" THEN Go(c, "audit") ELSE End(c)
  /\ UNCHANGED <<tree, audit, cache, since, late, calls, faults>>

\* audit_operation gets the trail of the nullifier, which is in memory.
AuditOperation(c) ==
  /\ call[c].pc = "audit" /\ MayRead
  /\ End(c)
  /\ UNCHANGED <<tree, audit, cache, since, settled, late, calls, faults>>

(***************************************************************************)
(* Proofs.  A member without a leaf has no proof; that some members are    *)
(* proved absent is the subject of IndexedMerkleTree.                      *)
(***************************************************************************)
ProveMembership(c) ==
  /\ call[c].kind = "presence" /\ call[c].pc = "start" /\ MayRead
  /\ IF call[c].value \in leaves
     THEN MakeEvent(c, "membership", root, root)
     ELSE End(c) /\ UNCHANGED audit
  /\ UNCHANGED <<tree, cache, since, settled, late, calls, faults>>

ProveNonMembership(c) ==
  /\ call[c].kind = "absence" /\ call[c].pc = "start" /\ MayRead
  /\ \/ MakeEvent(c, "nonmembership", root, root)
     \/ call[c].value \in members /\ End(c) /\ UNCHANGED audit
  /\ UNCHANGED <<tree, cache, since, settled, late, calls, faults>>

(***************************************************************************)
(* get_audit_trail of the other service: from memory, or else from the     *)
(* database, ordered by timestamp, and kept in memory for the next time.   *)
(***************************************************************************)
StoredEvents(v) == {e \in stored : events[e].value = v}

\* S in ascending order: a set with one element
InOrder(S) == {t \in [1 .. Cardinality(S) -> S] : \A i, j \in DOMAIN t : i < j => t[i] < t[j]}

ReadTrail(c) ==
  /\ call[c].kind = "trail" /\ call[c].pc = "start"
  /\ LET v == call[c].value
     IN  IF trail["ads"][v] # NoTrail \/ StoredEvents(v) = {}
         THEN End(c)
         ELSE \E t \in InOrder(StoredEvents(v)) :
                call' = [call EXCEPT ![c].pc = "keep", ![c].loaded = t]
  /\ UNCHANGED <<tree, audit, cache, since, settled, late, calls, faults>>

KeepTrail(c) ==
  /\ call[c].pc = "keep"
  /\ trail' = [trail EXCEPT !["ads"][call[c].value] = call[c].loaded]
  /\ End(c)
  /\ UNCHANGED <<tree, events, stored, cache, since, settled, late, calls, faults>>

-----------------------------------------------------------------------------

\* Mutant: an unknown count is -1.
RebuiltUnknown(proven) == {[root |-> r, count |-> -1] : r \in proven}

\* rebuild_state_cache: the roots in ads_state_commits whose batch is proven,
\* with a count of 0.
RebuiltCache(proven) == {[root |-> r, count |-> 0] : r \in proven}

(***************************************************************************)
(* The process stops and starts again: IndexedMerkleTreeADS::new fills the *)
(* caches and corrects the counter of tree_state.  Which roots belong to   *)
(* proven batches is up to the API server.  Statements that were sent      *)
(* before may still run after it.                                          *)
(***************************************************************************)
Restart ==
  /\ Fault
  /\ \E sent \in SUBSET {c \in Callers : call[c].pc = "store"} :
       lateEvents' = lateEvents \cup {call[c].event : c \in sent}
  /\ unaudited' = unaudited \cup {call[c].value : c \in
                     {d \in Callers : Inserts(d) /\ call[d].pc \in {"cache", "store"}}}
  /\ call' = [c \in Callers |-> Idle]
  /\ trail' = [s \in Services |-> [v \in Values |-> NoTrail]]
  /\ \E proven \in SUBSET (0 .. made) : cache' = [s \in Services |-> RebuiltCache(proven)]
  /\ total' = 1 + Cardinality(members)
  /\ since' = Len(events)
  /\ UNCHANGED <<members, leaves, root, made, events, stored, settled, lateRows, lateRoots,
                 strays, unpushed, calls>>

Requests(c) ==
  \/ InsertNullifier(c) \/ BatchInsertNullifiers(c)
  \/ MembershipProof(c) \/ NonMembershipProof(c)
  \/ StateCommitment(c) \/ TreeStats(c) \/ AuditTrail(c)

Steps(c) ==
  \/ InsertRow(c) \/ InsertRefused(c) \/ CacheCommitment(c) \/ StoreEvent(c) \/ PushEvent(c)
  \/ ReadRoot(c) \/ GetCommitment(c) \/ SubmitCommitment(c) \/ AuditOperation(c)
  \/ ProveMembership(c) \/ ProveNonMembership(c) \/ ReadTrail(c) \/ KeepTrail(c)

Next ==
  \/ \E c \in Callers : Requests(c) \/ Steps(c) \/ InsertFails(c) \/ CallEnds(c)
  \/ \E v \in Values : LateRow(v)
  \/ \E r \in Roots : LateRoot(r)
  \/ \E e \in lateEvents : LateEvent(e)
  \/ Restart

Spec == Init /\ [][Next]_vars

-----------------------------------------------------------------------------
(***************************************************************************)
(* Properties                                                              *)
(***************************************************************************)

\* Every variable has its type.
TypeOK ==
  /\ members \subseteq Values /\ leaves \subseteq members
  /\ root \in 0 .. made /\ made \in Roots
  /\ total \in 1 .. Cardinality(Values) + 1
  /\ events \in Seq(Event) /\ stored \subseteq DOMAIN events
  /\ trail \in [Services -> [Values -> Seq(Nat)]]
  /\ cache \in [Services -> SUBSET Commitment]
  /\ since \in 0 .. Len(events)
  /\ call \in [Callers -> Call]
  /\ settled \subseteq [after: Roots, commitment: Commitment]
  /\ lateRows \subseteq Values \ members
  /\ lateRoots \subseteq 1 .. made /\ strays \subseteq 1 .. made
  /\ lateEvents \subseteq DOMAIN events /\ unpushed \subseteq DOMAIN events
  /\ unaudited \subseteq members
  /\ calls \in 0 .. MaxCalls /\ faults \in 0 .. MaxFaults

InsertionEvents(v) == {e \in stored : events[e].value = v /\ events[e].kind = "insertion"}

(***************************************************************************)
(* Every inserted nullifier has exactly one insertion event in the audit   *)
(* events, unless the call is still on its way to it or ended between the  *)
(* two; none has two; and the events are in the order of the roots, but    *)
(* for an insertion that started from a root put there by an ended call.   *)
(***************************************************************************)
InsertionsAreAudited ==
  /\ \A v \in Values : Cardinality(InsertionEvents(v)) <= 1
  /\ \A v \in members :
       \/ InsertionEvents(v) # {}
       \/ v \in unaudited
       \/ \E c \in Callers : call[c].value = v /\ Writing(c)
  /\ \A e, f \in UNION {InsertionEvents(v) : v \in Values} :
       e < f => events[e].after <= events[f].before \/ events[f].before \in strays

(***************************************************************************)
(* The trail that the vApp integration's service has of a nullifier holds  *)
(* what the service has recorded of it since it started, once each, except *)
(* for a call that is about to add its event or ended before it could; so  *)
(* the compliance service is always shown the insertion it audits.  What   *)
(* the other service keeps was recorded, too.                              *)
(***************************************************************************)
TrailsAreComplete ==
  /\ \A s \in Services, v \in Values : trail[s][v] # NoTrail =>
       /\ IsInjective(trail[s][v])
       /\ \A e \in Range(trail[s][v]) : e \in stored /\ events[e].value = v
  /\ \A e \in stored : e > since =>
       \/ trail["vapp"][events[e].value] # NoTrail /\ Contains(trail["vapp"][events[e].value], e)
       \/ \E c \in Callers : call[c].pc = "push" /\ call[c].event = e
       \/ e \in unpushed
  /\ \A c \in Callers : call[c].pc = "audit" => Contains(trail["vapp"][call[c].value], call[c].event)

(***************************************************************************)
(* Nothing is inserted between two nullifiers of a batch, whoever else     *)
(* inserts; only a root that an ended call has sent may come in between.   *)
(***************************************************************************)
BatchIsContiguous ==
  \A c \in Callers : \A i \in 2 .. Len(call[c].done) :
    call[c].done[i].before \in {call[c].done[i - 1].after} \cup strays

(***************************************************************************)
(* What is settled after an insertion contains that insertion, unless an   *)
(* ended call has put an older root in its place.                          *)
(***************************************************************************)
SettlementCoversInsertion ==
  \A x \in settled : x.commitment.root >= x.after \/ x.commitment.root \in strays

-----------------------------------------------------------------------------
(***************************************************************************)
(* What the tests of the service say of it.                                *)
(***************************************************************************)

\* When no call is under way, the commitment to the current root counts the
\* nullifiers that were inserted, with or without the genesis nullifier.
CommitmentCountsNullifiers ==
  (\A c \in Callers : call[c] = Idle) =>
    \A k \in Cached("vapp", root) : k.count \in {Cardinality(members), Cardinality(members) + 1}

=============================================================================
