---------------------------- MODULE EventMonitor ----------------------------
(***************************************************************************)
(* The event monitor of the Ethereum client and the event manager on top.  *)
(*                                                                         *)
(* One loop (start_event_monitoring) polls the height of the chain, fetches *)
(* the logs of the blocks since the last one it has processed, a bounded   *)
(* number of blocks at a time, and dispatches them one by one: into a      *)
(* broadcast channel and to the callbacks whose filter matches.  The last  *)
(* processed block and the subscriptions are in memory only.  The event    *)
(* manager subscribes handlers, and can itself read the channel, which     *)
(* keeps the newest events only.                                           *)
(*                                                                         *)
(* Abstractions: the chain is external, a sequence of blocks that grows,   *)
(* and whose top block may be replaced; a block holds the logs of some     *)
(* calls of the contract.  A log is its type, the state id and the address that  *)
(* filters look at (None where it has none).  A filter without a criterion *)
(* accepts everything, so its set is the full one.  Subscription ids are   *)
(* UUIDs (feature "database", on by default) and never collide.            *)
(***************************************************************************)
EXTENDS Integers, SequencesExt

CONSTANTS
  StateIds, Addresses, None,
  Blocks,            \* what a block may hold: sequences of calls of the contract
  Wanted,            \* subscriptions that clients make
  MaxBlocksPerQuery, \* 1000 in the code
  ChannelCapacity,   \* broadcast::channel(1000)
  MaxReaders,        \* bound: subscriptions and managers at a time
  MaxHeight,         \* bound: blocks
  MaxReorgs,         \* bound: blocks replaced
  MaxFaults          \* bound: failed calls of the node, stops of the process

\* What the contract is called with
Call == [op: {"update", "batch", "read", "admin"}, states: Seq(StateIds), who: Addresses]
Kinds == {"state", "proof", "batch", "address", "range"}

ASSUME EventMonitorAssumption ==
  /\ MaxBlocksPerQuery \in Nat \ {0} /\ ChannelCapacity \in Nat \ {0}
  /\ MaxReaders \in Nat /\ MaxHeight \in Nat /\ MaxReorgs \in Nat /\ MaxFaults \in Nat
  /\ None \notin StateIds \cup Addresses
  /\ Blocks \subseteq Seq({c \in Call : c.op \in {"update", "read"} => c.states # <<>>})
  /\ \A w \in Wanted : w.kind \in Kinds

VARIABLES
  chain,     \* external: the logs of every block
  replaced,  \* observation: heights whose block was taken back
  vkey,      \* verification key in vk.json, compared with the contract's
  monitor,   \* the loop: where it is, its range and the events to dispatch
  lastBlock, \* last_processed_block
  origin,    \* observation: the height at which this process began
  sent,      \* observation: what was sent to the channel, by this process
  subs,      \* event_callbacks, with the events each was called with: places in sent
  manager,   \* EventManager: its receiver and what its handlers have got
  reorgs, faults

vars == <<chain, replaced, vkey, monitor, lastBlock, origin, sent, subs, manager, reorgs, faults>>

-----------------------------------------------------------------------------
(***************************************************************************)
(* The contract's logs.                                                    *)
(***************************************************************************)

EventTypes == {"StateUpdated", "BatchStateUpdated", "ProofStored", "ProofVerified",
               "StateReadRequested", "ProofReadRequested"}

Log == [type: EventTypes \cup {"AuthorizationChanged"},
        state: StateIds \cup {None}, who: Addresses \cup {None}]

LogOf(type, state, who) == [type |-> type, state |-> state, who |-> who]

\* updateState, and one accepted update of batchUpdateStates.
UpdateLogs(s, who) ==
  << LogOf("ProofStored", s, who), LogOf("ProofVerified", None, None),
     LogOf("StateUpdated", s, who) >>

\* batchUpdateStates: nothing for the updates whose proof is rejected.
BatchLogs(accepted, who) ==
  FlattenSeq([i \in DOMAIN accepted |-> UpdateLogs(accepted[i], who)])
    \o << LogOf("BatchStateUpdated", None, who) >>

\* The tracked reads, and setAuthorization, which the client does not decode.
ReadLogs(s, who) == << LogOf("StateReadRequested", s, who), LogOf("ProofReadRequested", None, who) >>
AdminLogs(who) == << LogOf("AuthorizationChanged", None, who) >>

LogsOf(c) ==
  CASE c.op = "update" -> UpdateLogs(c.states[1], c.who)
    [] c.op = "batch"  -> BatchLogs(c.states, c.who)
    [] c.op = "read"   -> ReadLogs(c.states[1], c.who)
    [] c.op = "admin"  -> AdminLogs(c.who)

\* convert_log_to_event: logs of an unknown type are dropped.
Known(log) == log.type \in EventTypes

EventOf(log, h) == [type |-> log.type, state |-> log.state, who |-> log.who, block |-> h]

EventsOfBlock(h) ==
  FlattenSeq([i \in DOMAIN chain[h] |->
                IF Known(chain[h][i]) THEN << EventOf(chain[h][i], h) >> ELSE << >>])

\* fetch_events_in_range: the blocks of the range that the node has.
EventsInRange(from, to) ==
  FlattenSeq([i \in 1..(Min({to, Len(chain)}) - from + 1) |-> EventsOfBlock(from + i - 1)])

Event == [type: EventTypes, state: StateIds \cup {None}, who: Addresses \cup {None}, block: 1..MaxHeight]

-----------------------------------------------------------------------------
(***************************************************************************)
(* The subscriptions of the event manager and one with a block range: the  *)
(* filter that is registered, and the events its callback passes on to the *)
(* handler.  A client wants w: one of these kinds, and "of" something.     *)
(***************************************************************************)

StateEventTypes == {"StateUpdated", "StateReadRequested"}
ProofEventTypes == {"ProofStored", "ProofVerified", "ProofReadRequested"}

NoFilter == [types |-> EventTypes, states |-> StateIds, who |-> Addresses, blocks |-> 1..MaxHeight]

\* dispatch_event_to_handler has an arm for every type of event.
Dispatched == EventTypes

StateEvents(S) ==
  [filter  |-> [NoFilter EXCEPT !.types = StateEventTypes, !.states = S],
   handles |-> StateEventTypes]

ProofEvents ==
  [filter |-> [NoFilter EXCEPT !.types = ProofEventTypes], handles |-> ProofEventTypes]

BatchEvents ==
  [filter |-> [NoFilter EXCEPT !.types = {"BatchStateUpdated"}], handles |-> {"BatchStateUpdated"}]

AddressEvents(A) == [filter |-> [NoFilter EXCEPT !.who = A], handles |-> Dispatched]

RangeEvents(B) == [filter |-> [NoFilter EXCEPT !.blocks = B], handles |-> Dispatched]

Registration(w) ==
  CASE w.kind = "state"   -> StateEvents(w.of)
    [] w.kind = "proof"   -> ProofEvents
    [] w.kind = "batch"   -> BatchEvents
    [] w.kind = "address" -> AddressEvents(w.of)
    [] w.kind = "range"   -> RangeEvents(w.of)

\* Mutant: an event without a state id does not pass a filter on state ids.
MatchesStrictly(e, f) ==
  /\ e.type \in f.types
  /\ e.state \in f.states
  /\ e.who \in f.who \cup {None}
  /\ e.block \in f.blocks

\* event_matches_filter
Matches(e, f) ==
  /\ e.type \in f.types
  /\ e.state \in f.states \cup {None}
  /\ e.who \in f.who \cup {None}
  /\ e.block \in f.blocks

-----------------------------------------------------------------------------

NoSub == [on |-> FALSE, since |-> 0, got |-> <<>>]
NoManager == [phase |-> "none", joined |-> 0, position |-> 0, handled |-> <<>>, missed |-> 0]
Down == [pc |-> "down", to |-> 0, queue |-> <<>>]
At(pc) == [pc |-> pc, to |-> 0, queue |-> <<>>]

\* What load_local_verification_key finds, compared with the contract's key.
LocalKeys == {"same", "other"}

\* validate_verification_key_compatibility
Compatible == vkey # "other"

Init ==
  /\ chain = <<>>
  /\ replaced = {}
  /\ vkey \in LocalKeys
  /\ monitor = Down
  /\ lastBlock = 0
  /\ origin = 0
  /\ sent = <<>>
  /\ subs = [w \in Wanted |-> NoSub]
  /\ manager = NoManager
  /\ reorgs = 0
  /\ faults = 0

Fault == faults < MaxFaults /\ faults' = faults + 1

(***************************************************************************)
(* The chain.                                                              *)
(***************************************************************************)

Mine(calls) ==
  /\ Len(chain) < MaxHeight
  /\ chain' = Append(chain, FlattenSeq([i \in DOMAIN calls |-> LogsOf(calls[i])]))
  /\ UNCHANGED <<replaced, vkey, monitor, lastBlock, origin, sent, subs, manager, reorgs, faults>>

\* The top block is taken back; another one will take its place.
Reorg ==
  /\ chain # <<>> /\ reorgs < MaxReorgs
  /\ reorgs' = reorgs + 1
  /\ replaced' = replaced \cup {Len(chain)}
  /\ chain' = Front(chain)
  /\ UNCHANGED <<vkey, monitor, lastBlock, origin, sent, subs, manager, faults>>

(***************************************************************************)
(* A process builds its client (EthereumClient::new), which reads the      *)
(* contract's verification key and refuses one that differs from vk.json   *)
(* (without vk.json it counts as the same).  A call that fails changes     *)
(* nothing: the process ends.                                              *)
(***************************************************************************)
Connect ==
  /\ monitor.pc = "down"
  /\ Compatible
  /\ monitor' = At("off")
  /\ UNCHANGED <<chain, replaced, vkey, lastBlock, origin, sent, subs, manager, reorgs, faults>>

\* start_event_monitoring begins at the current height.
StartMonitoring ==
  /\ monitor.pc = "off"
  /\ lastBlock' = IF lastBlock = 0 THEN Len(chain) ELSE lastBlock
  /\ origin' = lastBlock'
  /\ monitor' = At("idle")
  /\ UNCHANGED <<chain, replaced, vkey, sent, subs, manager, reorgs, faults>>

\* Mutant: the newest block is left for the next time.
PollLate ==
  /\ monitor.pc = "idle" /\ Len(chain) > lastBlock + 1
  /\ monitor' = [pc |-> "fetch",
                 to |-> Min({Len(chain), lastBlock + MaxBlocksPerQuery}), queue |-> <<>>]
  /\ UNCHANGED <<chain, replaced, vkey, lastBlock, origin, sent, subs, manager, reorgs, faults>>

\* Mutant: the range may reach past the head of the chain.
PollPastHead ==
  /\ monitor.pc = "idle" /\ Len(chain) > lastBlock
  /\ monitor' = [pc |-> "fetch", to |-> lastBlock + MaxBlocksPerQuery, queue |-> <<>>]
  /\ UNCHANGED <<chain, replaced, vkey, lastBlock, origin, sent, subs, manager, reorgs, faults>>

\* process_new_events: the current height and the range of this query.
Poll ==
  /\ monitor.pc = "idle" /\ Len(chain) > lastBlock
  /\ monitor' = [pc |-> "fetch",
                 to |-> Min({Len(chain), lastBlock + MaxBlocksPerQuery}), queue |-> <<>>]
  /\ UNCHANGED <<chain, replaced, vkey, lastBlock, origin, sent, subs, manager, reorgs, faults>>

Fetch ==
  /\ monitor.pc = "fetch"
  /\ monitor' = [monitor EXCEPT !.pc = "dispatch",
                                !.queue = EventsInRange(lastBlock + 1, monitor.to)]
  /\ UNCHANGED <<chain, replaced, vkey, lastBlock, origin, sent, subs, manager, reorgs, faults>>

\* Mutant: the range counts as processed although its logs were not fetched.
FetchErrorSkips ==
  /\ monitor.pc = "fetch" /\ Fault
  /\ monitor' = At("idle")
  /\ lastBlock' = monitor.to
  /\ UNCHANGED <<chain, replaced, vkey, origin, sent, subs, manager, reorgs>>

\* get_block_number or get_logs fails: the range is tried again after a delay.
FetchError ==
  /\ monitor.pc = "fetch" /\ Fault
  /\ monitor' = At("idle")
  /\ UNCHANGED <<chain, replaced, vkey, lastBlock, origin, sent, subs, manager, reorgs>>

\* process_and_dispatch_event sends an event to the channel, which never lacks a
\* receiver (the client keeps one), ...
Broadcast ==
  /\ monitor.pc = "dispatch" /\ monitor.queue # <<>>
  /\ sent' = Append(sent, Head(monitor.queue))
  /\ monitor' = [monitor EXCEPT !.pc = "notify", !.queue = Tail(@)]
  /\ UNCHANGED <<chain, replaced, vkey, lastBlock, origin, subs, manager, reorgs, faults>>

\* Every callback whose filter matches.
Notified(e) ==
  [w \in Wanted |->
     IF subs[w].on /\ Matches(e, Registration(w).filter) /\ e.type \in Registration(w).handles
     THEN [subs[w] EXCEPT !.got = Append(@, Len(sent))]
     ELSE subs[w]]

\* ... and then calls the callbacks, all under one read lock.
Notify ==
  /\ monitor.pc = "notify"
  /\ subs' = Notified(Last(sent))
  /\ monitor' = [monitor EXCEPT !.pc = "dispatch"]
  /\ UNCHANGED <<chain, replaced, vkey, lastBlock, origin, sent, manager, reorgs, faults>>

\* The events that callbacks were called for: not yet the one just sent.
Told == Len(sent) - (IF monitor.pc = "notify" THEN 1 ELSE 0)

\* Mutant: one block of the range counts as processed.
EndPollOneByOne ==
  /\ monitor.pc = "dispatch" /\ monitor.queue = <<>>
  /\ lastBlock' = lastBlock + 1
  /\ monitor' = At("idle")
  /\ UNCHANGED <<chain, replaced, vkey, origin, sent, subs, manager, reorgs, faults>>

EndPoll ==
  /\ monitor.pc = "dispatch" /\ monitor.queue = <<>>
  /\ lastBlock' = monitor.to
  /\ monitor' = At("idle")
  /\ UNCHANGED <<chain, replaced, vkey, origin, sent, subs, manager, reorgs, faults>>

(***************************************************************************)
(* Subscriptions.                                                          *)
(***************************************************************************)

Readers == Cardinality({w \in Wanted : subs[w].on}) + (IF manager.phase = "none" THEN 0 ELSE 1)

Subscribe(w) ==
  /\ monitor.pc # "down" /\ ~subs[w].on /\ Readers < MaxReaders
  /\ subs' = [subs EXCEPT ![w] = [on |-> TRUE, since |-> Told, got |-> <<>>]]
  /\ UNCHANGED <<chain, replaced, vkey, monitor, lastBlock, origin, sent, manager, reorgs, faults>>

Unsubscribe(w) ==
  /\ subs[w].on
  /\ subs' = [subs EXCEPT ![w] = NoSub]
  /\ UNCHANGED <<chain, replaced, vkey, monitor, lastBlock, origin, sent, manager, reorgs, faults>>

(***************************************************************************)
(* The event manager reads the channel.                                    *)
(***************************************************************************)

\* EventManager::new takes a receiver that sees what is sent from now on.
NewManager ==
  /\ monitor.pc # "down" /\ manager.phase = "none" /\ Readers < MaxReaders
  /\ manager' = [NoManager EXCEPT !.phase = "ready", !.joined = Len(sent), !.position = Len(sent)]
  /\ UNCHANGED <<chain, replaced, vkey, monitor, lastBlock, origin, sent, subs, reorgs, faults>>

\* start_processing_events takes the receiver; a second call finds none and returns.
StartProcessing ==
  /\ manager.phase = "ready"
  /\ manager' = [manager EXCEPT !.phase = "running"]
  /\ UNCHANGED <<chain, replaced, vkey, monitor, lastBlock, origin, sent, subs, reorgs, faults>>

Behind == Len(sent) - manager.position

ReceiveEvent ==
  /\ manager.phase = "running" /\ Behind \in 1..ChannelCapacity
  /\ manager' = [manager EXCEPT !.position = @ + 1, !.handled = Append(@, manager.position + 1)]
  /\ UNCHANGED <<chain, replaced, vkey, monitor, lastBlock, origin, sent, subs, reorgs, faults>>

\* Mutant: the receiver goes back to the oldest event of the channel every time.
LagTooFar ==
  /\ manager.phase = "running" /\ Behind > ChannelCapacity
  /\ manager' = [manager EXCEPT !.position = Len(sent) - ChannelCapacity - 1,
                                !.missed = @ + Behind - ChannelCapacity]
  /\ UNCHANGED <<chain, replaced, vkey, monitor, lastBlock, origin, sent, subs, reorgs, faults>>

\* RecvError::Lagged: the receiver continues at the oldest event still kept.
Lag ==
  /\ manager.phase = "running" /\ Behind > ChannelCapacity
  /\ manager' = [manager EXCEPT !.position = Len(sent) - ChannelCapacity,
                                !.missed = @ + Behind - ChannelCapacity]
  /\ UNCHANGED <<chain, replaced, vkey, monitor, lastBlock, origin, sent, subs, reorgs, faults>>

\* The process stops: everything but the chain and vk.json is lost.
Stop ==
  /\ monitor.pc # "down" /\ Fault
  /\ monitor' = Down
  /\ lastBlock' = 0 /\ origin' = 0 /\ sent' = <<>>
  /\ subs' = [w \in Wanted |-> NoSub]
  /\ manager' = NoManager
  /\ UNCHANGED <<chain, replaced, vkey, reorgs>>

-----------------------------------------------------------------------------

MonitorSteps == Poll \/ Fetch \/ Broadcast \/ Notify \/ EndPoll
ManagerSteps == ReceiveEvent \/ Lag

Next ==
  \/ \E calls \in Blocks : Mine(calls)
  \/ Reorg
  \/ Connect \/ StartMonitoring \/ MonitorSteps \/ FetchError \/ Stop
  \/ \E w \in Wanted : Subscribe(w) \/ Unsubscribe(w)
  \/ NewManager \/ StartProcessing \/ ManagerSteps

Spec == Init /\ [][Next]_vars

(***************************************************************************)
(* Fairness: the loop's timer fires and the node answers in the end        *)
(* (failures are bounded), and tokio wakes the manager's task.             *)
(***************************************************************************)
FairSpec == Spec /\ WF_vars(MonitorSteps) /\ WF_vars(ManagerSteps)

-----------------------------------------------------------------------------
(***************************************************************************)
(* Properties                                                              *)
(***************************************************************************)

\* Every variable has its type.
TypeOK ==
  /\ chain \in Seq(Seq(Log)) /\ Len(chain) <= MaxHeight
  /\ replaced \subseteq 1..MaxHeight
  /\ vkey \in LocalKeys
  /\ monitor \in [pc: {"down", "off", "idle", "fetch", "dispatch", "notify"}, to: 0..MaxHeight, queue: Seq(Event)]
  /\ lastBlock \in 0..MaxHeight /\ origin \in 0..MaxHeight
  /\ sent \in Seq(Event)
  /\ subs \in [Wanted -> [on: BOOLEAN, since: Nat, got: Seq(Nat)]]
  /\ manager \in [phase: {"none", "ready", "running"}, joined: Nat, position: Nat,
                  handled: Seq(Nat), missed: Nat]
  /\ reorgs \in 0..MaxReorgs /\ faults \in 0..MaxFaults

(***************************************************************************)
(* A process dispatches the events of the blocks since its start once      *)
(* each and in order, however its queries fail and split the range.  Only  *)
(* the blocks mined before it started (while no process was running, too)  *)
(* and those that were taken back after it may have read them are          *)
(* different.                                                              *)
(***************************************************************************)
All  == sent \o monitor.queue
Done == IF monitor.pc \in {"dispatch", "notify"} THEN monitor.to ELSE lastBlock

\* The events of block h are together in es, complete and in order.
Holds(es, h) ==
  LET block == EventsOfBlock(h)
  IN  \E n \in 0..(Len(es) - Len(block)) :
        /\ \A i \in DOMAIN es : es[i].block = h <=> i \in (n + 1)..(n + Len(block))
        /\ \A i \in DOMAIN block : es[n + i] = block[i]

DispatchIsTheChain ==
  /\ \A i, j \in DOMAIN All : i < j => All[i].block <= All[j].block
  /\ \A i \in DOMAIN All : All[i].block \in (origin + 1)..Done
  /\ \A h \in ((origin + 1)..Done) \ replaced : Holds(All, h)

\* What a subscription promises ("Subscribe to specific state events", "all
\* proof events", "batch operation events", "events from specific addresses"):
\* an event that names no address is from all of them.
Concerns(w, e) ==
  CASE w.kind = "state"   -> e.type \in StateEventTypes /\ e.state \in w.of
    [] w.kind = "proof"   -> e.type \in ProofEventTypes
    [] w.kind = "batch"   -> e.type = "BatchStateUpdated"
    [] w.kind = "address" -> e.who \in w.of \/ e.type = "ProofVerified"
    [] w.kind = "range"   -> e.block \in w.of

\* A handler gets every dispatched event it subscribed to, once and in order,
\* from the moment it subscribes: the one that was sent but whose callbacks are
\* still to be called, too.
SubscribersGetTheirs ==
  \A w \in Wanted : subs[w].on =>
    LET got == subs[w].got
    IN  /\ \A i, j \in DOMAIN got : i < j => got[i] < got[j]
        /\ Range(got) = {k \in (subs[w].since + 1)..Told : Concerns(w, sent[k])}

(***************************************************************************)
(* The manager handles events in order and none twice, accounts for every  *)
(* event it misses, and misses none of the newest ChannelCapacity events.  *)
(***************************************************************************)
MissesOldEventsOnly ==
  LET handled == manager.handled
  IN  /\ \A i, j \in DOMAIN handled : i < j => handled[i] < handled[j]
      /\ Len(handled) + manager.missed = manager.position - manager.joined
      /\ \A k \in (manager.joined + 1)..manager.position :
           Contains(handled, k) \/ k <= Len(sent) - ChannelCapacity

(***************************************************************************)
(* A running monitor processes every block in the end, unless the process  *)
(* stops or the block is taken back; and a running manager gets past the   *)
(* events that do not fit into the channel.                                *)
(***************************************************************************)
CatchesUp ==
  /\ \A h \in 1..MaxHeight :
       (monitor.pc \notin {"down", "off"} /\ Len(chain) >= h)
         ~> (lastBlock >= h \/ monitor.pc = "down" \/ Len(chain) < h)
  /\ (manager.phase = "running" /\ Len(sent) > ChannelCapacity)
       ~> (manager.position > ChannelCapacity \/ manager.phase = "none")

=============================================================================
