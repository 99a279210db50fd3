------------------------- MODULE EventMonitor_proofs -------------------------
(***************************************************************************)
(* Proofs about EventMonitor, for any subscriptions, blocks of any calls,  *)
(* queries and channels of any size, and any number of faults.             *)
(***************************************************************************)
EXTENDS EventMonitor, FiniteSums, SequenceTheorems

-----------------------------------------------------------------------------
(***************************************************************************)
(* FlattenSeq: sequences one after the other                               *)
(***************************************************************************)

\* g is the flattening of the first sequences of ss, up to n.
Flat(g, ss, n) == g = [i \in 1..n |-> IF i = 1 THEN ss[i] ELSE g[i-1] \o ss[i]]

LEMMA FlatExists ==
  ASSUME NEW ss
  PROVE  \A n \in Nat : \E g : Flat(g, ss, n)
<1> DEFINE Missing == {n \in Nat : ~\E g : Flat(g, ss, n)}
<1>1. SUFFICES ASSUME Missing # {} PROVE FALSE
  OBVIOUS
<1>2. PICK n \in Missing : \A m \in Missing : n <= m
  BY <1>1, LeastNumber
<1>3. CASE n = 0
  <2> DEFINE g == [i \in 1..0 |-> ss]
  <2>1. g = [i \in 1..0 |-> IF i = 1 THEN ss[i] ELSE g[i-1] \o ss[i]]
    OBVIOUS
  <2> HIDE DEF g
  <2> QED BY <1>2, <1>3, <2>1 DEF Flat
<1>4. CASE n # 0
  <2>1. n \in Nat /\ n - 1 \in Nat /\ n - 1 \notin Missing
    BY <1>2, <1>4
  <2>2. PICK h : Flat(h, ss, n - 1)
    BY <2>1
  <2> DEFINE last == IF n = 1 THEN ss[n] ELSE h[n-1] \o ss[n]
             g == [i \in 1..n |-> IF i = n THEN last ELSE h[i]]
             f == [i \in 1..n |-> IF i = 1 THEN ss[i] ELSE g[i-1] \o ss[i]]
  <2>3. \A i \in 1..(n - 1) : h[i] = IF i = 1 THEN ss[i] ELSE h[i-1] \o ss[i]
    BY <2>2 DEF Flat
  <2>4. ASSUME NEW i \in 1..n PROVE g[i] = f[i]
    <3>1. CASE i = n
      <4>1. g[n] = last /\ (n # 1 => g[n-1] = h[n-1])
        BY <2>1
      <4>2. f[n] = IF n = 1 THEN ss[n] ELSE g[n-1] \o ss[n]
        BY <2>1
      <4> HIDE DEF g, f
      <4> QED BY <3>1, <4>1, <4>2
    <3>2. CASE i # n /\ i # 1
      <4>1. g[i] = h[i] /\ g[i-1] = h[i-1] /\ i \in 1..(n - 1)
        BY <2>1, <3>2
      <4>2. f[i] = g[i-1] \o ss[i]
        BY <3>2
      <4> HIDE DEF g, f
      <4> QED BY <2>3, <3>2, <4>1, <4>2
    <3>3. CASE i # n /\ i = 1
      <4>1. g[i] = h[i] /\ i \in 1..(n - 1) /\ f[i] = ss[i]
        BY <2>1, <3>3
      <4> HIDE DEF g, f
      <4> QED BY <2>3, <3>3, <4>1
    <3> QED BY <3>1, <3>2, <3>3
  <2>5. g = f
    <3>1. g = [i \in 1..n |-> g[i]] /\ f = [i \in 1..n |-> f[i]]
      OBVIOUS
    <3> HIDE DEF g, f
    <3> QED BY <2>4, <3>1
  <2>6. Flat(g, ss, n)
    <3> HIDE DEF g
    <3> QED BY <2>5 DEF Flat
  <2> QED BY <1>2, <2>6
<1> QED BY <1>3, <1>4

LEMMA FlattenIs ==
  ASSUME NEW ss, Len(ss) \in Nat \ {0}
  PROVE  \E g : /\ FlattenSeq(ss) = g[Len(ss)] /\ g[1] = ss[1]
                /\ \A i \in 2..Len(ss) : g[i] = g[i-1] \o ss[i]
<1> DEFINE f == CHOOSE g : Flat(g, ss, Len(ss))
<1>1. FlattenSeq(ss) = f[Len(ss)]
  BY DEF FlattenSeq, Flat
<1>2. Flat(f, ss, Len(ss))
  BY FlatExists
<1> HIDE DEF f
<1>3. f[1] = ss[1]
  BY <1>2 DEF Flat
<1>4. ASSUME NEW i \in 2..Len(ss) PROVE f[i] = f[i-1] \o ss[i]
  <2>1. i \in 1..Len(ss) /\ i # 1
    OBVIOUS
  <2> QED BY <1>2, <2>1 DEF Flat
<1> QED BY <1>1, <1>3, <1>4

LEMMA Joined ==
  ASSUME NEW S, NEW a \in Seq(S), NEW b \in Seq(S)
  PROVE  /\ a \o b \in Seq(S) /\ Len(a \o b) = Len(a) + Len(b)
         /\ Len(a) \in Nat /\ Len(b) \in Nat
         /\ \A i \in 1..Len(a) : (a \o b)[i] = a[i]
         /\ \A i \in 1..Len(b) : (a \o b)[Len(a) + i] = b[i]
BY LenProperties

LEMMA FlattenType ==
  ASSUME NEW S, NEW ss \in Seq(Seq(S))
  PROVE  FlattenSeq(ss) \in Seq(S)
<1>0. Len(ss) \in Nat /\ DOMAIN ss = 1..Len(ss)
  BY LenProperties
<1>1. CASE Len(ss) = 0
  <2>1. ss = <<>>
    BY <1>1, EmptySeq
  <2> QED BY <1>1, <2>1 DEF FlattenSeq
<1>2. CASE Len(ss) # 0
  <2>1. PICK g : /\ FlattenSeq(ss) = g[Len(ss)] /\ g[1] = ss[1]
                 /\ \A i \in 2..Len(ss) : g[i] = g[i-1] \o ss[i]
    BY <1>0, <1>2, FlattenIs
  <2> DEFINE Bad == {i \in 1..Len(ss) : g[i] \notin Seq(S)}
  <2>2. Bad = {}
    <3>1. SUFFICES ASSUME Bad # {} PROVE FALSE
      OBVIOUS
    <3>2. Bad \subseteq Nat
      BY <1>0
    <3>3. PICK i \in Bad : \A j \in Bad : i <= j
      BY <3>1, <3>2, LeastNumber
    <3>4. \A j \in 1..Len(ss) : ss[j] \in Seq(S)
      BY <1>0, ElementOfSeq
    <3>5. CASE i = 1
      BY <2>1, <3>3, <3>4, <3>5
    <3>6. CASE i # 1
      <4>1. i \in 2..Len(ss) /\ i - 1 \in 1..Len(ss) /\ i - 1 \notin Bad
        BY <1>0, <3>3, <3>6
      <4>2. g[i] = g[i-1] \o ss[i] /\ g[i-1] \in Seq(S) /\ ss[i] \in Seq(S)
        BY <2>1, <3>3, <3>4, <4>1
      <4>3. g[i] \in Seq(S)
        BY <4>2, Joined
      <4> QED BY <3>3, <4>3
    <3> QED BY <3>5, <3>6
  <2> QED BY <1>0, <1>2, <2>1, <2>2
<1> QED BY <1>1, <1>2

-----------------------------------------------------------------------------
(***************************************************************************)
(* What logs and events say of state and address                           *)
(***************************************************************************)

\* A log about a state names it, and only ProofVerified names no address.
Says(l) ==
  /\ l.type \in StateEventTypes => l.state \in StateIds
  /\ l.who = None <=> l.type = "ProofVerified"

GoodLog == {l \in Log : Says(l)}
GoodEvent == {e \in Event : Says(e)}
EventsAt(h) == {e \in GoodEvent : e.block = h}

LEMMA UpdateLogsSay ==
  ASSUME NEW s \in StateIds, NEW who \in Addresses
  PROVE  UpdateLogs(s, who) \in Seq(GoodLog)
<1>1. who # None /\ s # None
  BY EventMonitorAssumption
<1>2. LogOf("ProofStored", s, who) \in GoodLog
  BY <1>1 DEF LogOf, GoodLog, Log, Says, StateEventTypes, EventTypes
<1>3. LogOf("ProofVerified", None, None) \in GoodLog
  BY <1>1 DEF LogOf, GoodLog, Log, Says, StateEventTypes, EventTypes
<1>4. LogOf("StateUpdated", s, who) \in GoodLog
  BY <1>1 DEF LogOf, GoodLog, Log, Says, StateEventTypes, EventTypes
<1> HIDE DEF GoodLog, LogOf
<1> QED BY <1>2, <1>3, <1>4 DEF UpdateLogs

LEMMA ReadLogsSay ==
  ASSUME NEW s \in StateIds, NEW who \in Addresses
  PROVE  ReadLogs(s, who) \in Seq(GoodLog)
<1>1. who # None /\ s # None
  BY EventMonitorAssumption
<1>2. LogOf("StateReadRequested", s, who) \in GoodLog
  BY <1>1 DEF LogOf, GoodLog, Log, Says, StateEventTypes, EventTypes
<1>3. LogOf("ProofReadRequested", None, who) \in GoodLog
  BY <1>1 DEF LogOf, GoodLog, Log, Says, StateEventTypes, EventTypes
<1> HIDE DEF GoodLog, LogOf
<1> QED BY <1>2, <1>3 DEF ReadLogs

LEMMA OtherLogsSay ==
  ASSUME NEW who \in Addresses
  PROVE  AdminLogs(who) \in Seq(GoodLog) /\ << LogOf("BatchStateUpdated", None, who) >> \in Seq(GoodLog)
<1>1. who # None
  BY EventMonitorAssumption
<1>2. LogOf("AuthorizationChanged", None, who) \in GoodLog
  BY <1>1 DEF LogOf, GoodLog, Log, Says, StateEventTypes, EventTypes
<1>3. LogOf("BatchStateUpdated", None, who) \in GoodLog
  BY <1>1 DEF LogOf, GoodLog, Log, Says, StateEventTypes, EventTypes
<1> HIDE DEF GoodLog, LogOf
<1> QED BY <1>2, <1>3 DEF AdminLogs

LEMMA LogsSay ==
  ASSUME NEW c \in Call, c.op \in {"update", "read"} => c.states # <<>>
  PROVE  LogsOf(c) \in Seq(GoodLog)
<1>1. c.states \in Seq(StateIds) /\ c.who \in Addresses /\ c.op \in {"update", "batch", "read", "admin"}
  BY DEF Call
<1>2. c.op \in {"update", "read"} => c.states[1] \in StateIds
  BY <1>1, EmptySeq, ElementOfSeq, LenProperties
<1>3. CASE c.op = "update"
  BY <1>1, <1>2, <1>3, UpdateLogsSay DEF LogsOf
<1>4. CASE c.op = "read"
  BY <1>1, <1>2, <1>4, ReadLogsSay DEF LogsOf
<1>5. CASE c.op = "admin"
  BY <1>1, <1>5, OtherLogsSay DEF LogsOf
<1>6. CASE c.op = "batch"
  <2> DEFINE ss == [i \in DOMAIN c.states |-> UpdateLogs(c.states[i], c.who)]
  <2>1. DOMAIN c.states = 1..Len(c.states) /\ Len(c.states) \in Nat
    BY <1>1, LenProperties
  <2>2. \A i \in DOMAIN c.states : UpdateLogs(c.states[i], c.who) \in Seq(GoodLog)
    BY <1>1, <2>1, ElementOfSeq, UpdateLogsSay
  <2>3. ss \in Seq(Seq(GoodLog))
    BY <2>1, <2>2
  <2>4. FlattenSeq(ss) \in Seq(GoodLog)
    BY <2>3, FlattenType
  <2>5. LogsOf(c) = FlattenSeq(ss) \o << LogOf("BatchStateUpdated", None, c.who) >>
    BY <1>6 DEF LogsOf, BatchLogs
  <2> HIDE DEF ss
  <2> QED BY <1>1, <2>4, <2>5, OtherLogsSay, Joined
<1> QED BY <1>1, <1>3, <1>4, <1>5, <1>6

LEMMA BlocksSay ==
  ASSUME NEW calls \in Blocks
  PROVE  FlattenSeq([i \in DOMAIN calls |-> LogsOf(calls[i])]) \in Seq(GoodLog)
<1> DEFINE Good == {c \in Call : c.op \in {"update", "read"} => c.states # <<>>}
<1>1. calls \in Seq(Good)
  BY EventMonitorAssumption
<1>2. DOMAIN calls = 1..Len(calls) /\ Len(calls) \in Nat /\ \A i \in DOMAIN calls : calls[i] \in Good
  BY <1>1, LenProperties, ElementOfSeq
<1>3. \A i \in DOMAIN calls : LogsOf(calls[i]) \in Seq(GoodLog)
  BY <1>2, LogsSay
<1>4. [i \in DOMAIN calls |-> LogsOf(calls[i])] \in Seq(Seq(GoodLog))
  BY <1>2, <1>3
<1> QED BY <1>4, FlattenType

\* The events of a block with these logs
EventsOf(logs, h) ==
  FlattenSeq([i \in DOMAIN logs |-> IF Known(logs[i]) THEN << EventOf(logs[i], h) >> ELSE << >>])

LEMMA EventsOfType ==
  ASSUME NEW h \in 1..MaxHeight, NEW logs \in Seq(GoodLog)
  PROVE  EventsOf(logs, h) \in Seq(EventsAt(h))
<1> DEFINE ss == [i \in DOMAIN logs |-> IF Known(logs[i]) THEN << EventOf(logs[i], h) >> ELSE << >>]
<1>1. DOMAIN logs = 1..Len(logs) /\ Len(logs) \in Nat
  BY LenProperties
<1>2. ASSUME NEW i \in DOMAIN logs, Known(logs[i]) PROVE EventOf(logs[i], h) \in EventsAt(h)
  <2>1. logs[i] \in GoodLog
    BY <1>1, ElementOfSeq
  <2> DEFINE l == logs[i]
  <2>2. l.type \in EventTypes /\ l.state \in StateIds \cup {None} /\ l.who \in Addresses \cup {None} /\ Says(l)
    BY <1>2, <2>1 DEF Known, GoodLog, Log
  <2> HIDE DEF l
  <2> QED BY <2>2 DEF l, EventOf, EventsAt, GoodEvent, Event, Says
<1>3. ss \in Seq(Seq(EventsAt(h)))
  <2>1. ASSUME NEW i \in DOMAIN logs
        PROVE  (IF Known(logs[i]) THEN << EventOf(logs[i], h) >> ELSE << >>) \in Seq(EventsAt(h))
    <3>1. CASE Known(logs[i])
      BY <1>2, <3>1
    <3>2. CASE ~Known(logs[i])
      BY <3>2
    <3> QED BY <3>1, <3>2
  <2> QED BY <1>1, <2>1
<1>4. EventsOf(logs, h) = FlattenSeq(ss)
  BY DEF EventsOf
<1> HIDE DEF ss
<1> QED BY <1>3, <1>4, FlattenType

LEMMA EventsOfBlockType ==
  ASSUME NEW h \in 1..MaxHeight, chain[h] \in Seq(GoodLog)
  PROVE  EventsOfBlock(h) = EventsOf(chain[h], h) /\ EventsOfBlock(h) \in Seq(EventsAt(h))
<1>1. EventsOfBlock(h) = EventsOf(chain[h], h)
  BY DEF EventsOfBlock, EventsOf
<1> QED BY <1>1, EventsOfType

LEMMA MinIs ==
  ASSUME NEW a \in Int, NEW b \in Int
  PROVE  Min({a, b}) = IF a <= b THEN a ELSE b
<1>1. \E x \in {a, b} : \A y \in {a, b} : x <= y
  <2>1. CASE a <= b
    BY <2>1
  <2>2. CASE ~(a <= b)
    BY <2>2
  <2> QED BY <2>1, <2>2
<1> DEFINE m == Min({a, b})
<1>2. m \in {a, b} /\ \A y \in {a, b} : m <= y
  BY <1>1 DEF Min
<1> HIDE DEF m
<1> QED BY <1>2 DEF m

LEMMA SeqWidens ==
  ASSUME NEW S, NEW T, S \subseteq T, NEW s \in Seq(S)
  PROVE  s \in Seq(T)
<1>1. s \in [1..Len(s) -> S] /\ Len(s) \in Nat
  BY LenProperties
<1> QED BY <1>1

LEMMA EventsInRangeType ==
  ASSUME chain \in Seq(Seq(GoodLog)), Len(chain) <= MaxHeight,
         NEW from \in Nat \ {0}, NEW to \in Nat
  PROVE  EventsInRange(from, to) \in Seq(GoodEvent)
<1> DEFINE n == Min({to, Len(chain)}) - from + 1
           ss == [i \in 1..n |-> EventsOfBlock(from + i - 1)]
<1>1. Len(chain) \in Nat /\ DOMAIN chain = 1..Len(chain) /\ MaxHeight \in Nat
  BY LenProperties, EventMonitorAssumption
<1>2. n \in Int /\ n <= Len(chain) - from + 1
  <2>1. Min({to, Len(chain)}) = IF to <= Len(chain) THEN to ELSE Len(chain)
    BY <1>1, MinIs
  <2> QED BY <1>1, <2>1
<1> HIDE DEF n
<1>3. ASSUME NEW i \in 1..n PROVE EventsOfBlock(from + i - 1) \in Seq(GoodEvent)
  <2> DEFINE h == from + i - 1
  <2>1. h \in 1..Len(chain) /\ h \in 1..MaxHeight
    BY <1>1, <1>2
  <2> HIDE DEF h
  <2>2. chain[h] \in Seq(GoodLog)
    BY <1>1, <2>1, ElementOfSeq
  <2>3. EventsOfBlock(h) \in Seq(EventsAt(h))
    BY <2>1, <2>2, EventsOfBlockType
  <2>4. EventsAt(h) \subseteq GoodEvent
    BY DEF EventsAt
  <2> QED BY <2>3, <2>4, SeqWidens DEF h
<1>4. ss \in Seq(Seq(GoodEvent))
  <2>1. CASE n < 0
    <3>1. 1..n = {}
      BY <1>2, <2>1
    <3>2. ss = <<>>
      BY <3>1
    <3> HIDE DEF ss
    <3> QED BY <3>2
  <2>2. CASE n >= 0
    BY <1>2, <1>3, <2>2
  <2> QED BY <1>2, <2>1, <2>2
<1>5. EventsInRange(from, to) = FlattenSeq(ss)
  BY DEF EventsInRange, n
<1> HIDE DEF ss
<1> QED BY <1>4, <1>5, FlattenType

-----------------------------------------------------------------------------
(***************************************************************************)
(* Types, with what events say                                             *)
(***************************************************************************)

Phases == {"down", "off", "idle", "fetch", "dispatch", "notify"}

MonitorType == [pc: Phases, to: 0..MaxHeight, queue: Seq(GoodEvent)]
SubType == [on: BOOLEAN, since: Nat, got: Seq(Nat)]
ManagerType == [phase: {"none", "ready", "running"}, joined: Nat, position: Nat,
                handled: Seq(Nat), missed: Nat]

ChainInv ==
  /\ chain \in Seq(Seq(GoodLog)) /\ Len(chain) <= MaxHeight
  /\ replaced \subseteq 1..MaxHeight
  /\ vkey \in LocalKeys
  /\ reorgs \in 0..MaxReorgs /\ faults \in 0..MaxFaults

LoopInv ==
  /\ monitor \in MonitorType
  /\ lastBlock \in 0..MaxHeight /\ origin \in 0..MaxHeight
  /\ sent \in Seq(GoodEvent)

ReaderInv ==
  /\ subs \in [Wanted -> SubType]
  /\ manager \in ManagerType
  /\ manager.position <= Len(sent)

SentInv == monitor.pc = "notify" => sent # <<>>

TypeInv == ChainInv /\ LoopInv /\ SentInv /\ ReaderInv

LEMMA Bounds ==
  /\ MaxHeight \in Nat /\ MaxReorgs \in Nat /\ MaxFaults \in Nat
  /\ MaxBlocksPerQuery \in Nat \ {0} /\ ChannelCapacity \in Nat \ {0}
BY EventMonitorAssumption

LEMMA ChainStep ==
  ASSUME ChainInv, [Next]_vars
  PROVE  ChainInv'
<1>1. chain \in Seq(Seq(GoodLog)) /\ Len(chain) <= MaxHeight /\ Len(chain) \in Nat
  BY LenProperties DEF ChainInv
<1>2. CASE \E calls \in Blocks : Mine(calls)
  <2>1. PICK calls \in Blocks : Mine(calls)
    BY <1>2
  <2> DEFINE logs == FlattenSeq([i \in DOMAIN calls |-> LogsOf(calls[i])])
  <2>2. logs \in Seq(GoodLog)
    BY BlocksSay
  <2>3. chain' = Append(chain, logs) /\ Len(chain) < MaxHeight /\ UNCHANGED <<replaced, vkey, reorgs, faults>>
    BY <2>1 DEF Mine
  <2> HIDE DEF logs
  <2>4. chain' \in Seq(Seq(GoodLog)) /\ Len(chain') = Len(chain) + 1
    BY <1>1, <2>2, <2>3
  <2>5. Len(chain') <= MaxHeight
    BY <1>1, <2>3, <2>4, Bounds
  <2> QED BY <2>3, <2>4, <2>5 DEF ChainInv
<1>3. CASE Reorg
  <2>1. chain # <<>> /\ reorgs < MaxReorgs /\ reorgs' = reorgs + 1 /\ replaced' = replaced \cup {Len(chain)}
        /\ chain' = SubSeq(chain, 1, Len(chain) - 1) /\ UNCHANGED <<vkey, faults>>
    BY <1>3 DEF Reorg, Front
  <2>2. Len(chain) \in 1..MaxHeight
    BY <1>1, <2>1, EmptySeq, Bounds
  <2> DEFINE n == Len(chain) - 1
  <2>3. chain' \in Seq(Seq(GoodLog)) /\ Len(chain') = n
    <3>1. n \in Nat /\ \A i \in 1..n : i \in 1..Len(chain)
      BY <1>1, <2>2
    <3>2. chain' = SubSeq(chain, 1, n)
      BY <2>1
    <3> HIDE DEF n
    <3> QED BY <1>1, <3>1, <3>2, SubSeqProperties
  <2>4. Len(chain') <= MaxHeight
    BY <1>1, <2>3, Bounds
  <2>5. reorgs' \in 0..MaxReorgs
    BY <2>1, Bounds DEF ChainInv
  <2> QED BY <2>1, <2>2, <2>3, <2>4, <2>5 DEF ChainInv
<1>4. CASE UNCHANGED <<chain, replaced, vkey, reorgs>> /\ (faults' = faults \/ Fault)
  <2>1. faults' \in 0..MaxFaults
    BY <1>4, Bounds DEF ChainInv, Fault
  <2> QED BY <1>4, <2>1 DEF ChainInv
<1> QED BY <1>2, <1>3, <1>4 DEF Next, vars, Connect, StartMonitoring, MonitorSteps, Poll, Fetch, Broadcast,
        Notify, EndPoll, FetchError, Stop, Subscribe, Unsubscribe, NewManager, StartProcessing, ManagerSteps, ReceiveEvent, Lag

LEMMA LoopStep ==
  ASSUME ChainInv, LoopInv, [Next]_vars
  PROVE  LoopInv'
<1>1. chain \in Seq(Seq(GoodLog)) /\ Len(chain) <= MaxHeight /\ Len(chain) \in Nat
  BY LenProperties DEF ChainInv
<1>2. /\ monitor \in MonitorType /\ lastBlock \in 0..MaxHeight /\ origin \in 0..MaxHeight
      /\ sent \in Seq(GoodEvent)
  BY DEF LoopInv
<1>3. monitor.queue \in Seq(GoodEvent) /\ monitor.to \in 0..MaxHeight /\ monitor.pc \in Phases
  BY <1>2 DEF MonitorType
<1>4. \A pc \in Phases : At(pc) \in MonitorType
  BY Bounds DEF At, MonitorType
<1>5. CASE UNCHANGED <<monitor, lastBlock, origin, sent>>
  BY <1>5 DEF LoopInv
<1>6. CASE Connect \/ FetchError
  <2>1. monitor' \in MonitorType
    BY <1>4, <1>6 DEF Connect, FetchError, Phases
  <2> QED BY <1>2, <1>6, <2>1 DEF LoopInv, Connect, FetchError
<1>7. CASE StartMonitoring
  <2>1. monitor' \in MonitorType /\ lastBlock' \in 0..MaxHeight
    BY <1>1, <1>2, <1>4, <1>7, Bounds DEF StartMonitoring, Phases
  <2> QED BY <1>2, <1>7, <2>1 DEF LoopInv, StartMonitoring
<1>8. CASE Poll
  <2> DEFINE to == Min({Len(chain), lastBlock + MaxBlocksPerQuery})
  <2>1. to \in 0..MaxHeight
    <3>1. to = IF Len(chain) <= lastBlock + MaxBlocksPerQuery THEN Len(chain) ELSE lastBlock + MaxBlocksPerQuery
      BY <1>1, <1>2, MinIs, Bounds
    <3> QED BY <1>1, <1>2, <3>1, Bounds
  <2>2. monitor' = [pc |-> "fetch", to |-> to, queue |-> <<>>]
    BY <1>8 DEF Poll
  <2> HIDE DEF to
  <2>3. monitor' \in MonitorType
    BY <2>1, <2>2 DEF MonitorType, Phases
  <2> QED BY <1>2, <1>8, <2>3 DEF LoopInv, Poll
<1>9. CASE Fetch
  <2> DEFINE es == EventsInRange(lastBlock + 1, monitor.to)
  <2>1. es \in Seq(GoodEvent)
    <3>1. lastBlock + 1 \in Nat \ {0} /\ monitor.to \in Nat
      BY <1>2, <1>3, Bounds
    <3> QED BY <1>1, <3>1, EventsInRangeType
  <2>2. monitor' = [monitor EXCEPT !.pc = "dispatch", !.queue = es]
    BY <1>9 DEF Fetch
  <2> HIDE DEF es
  <2>3. monitor' \in MonitorType
    BY <1>2, <2>1, <2>2 DEF MonitorType, Phases
  <2> QED BY <1>2, <1>9, <2>3 DEF LoopInv, Fetch
<1>10. CASE Broadcast
  <2>1. monitor' = [monitor EXCEPT !.pc = "notify", !.queue = Tail(monitor.queue)]
        /\ sent' = Append(sent, Head(monitor.queue)) /\ monitor.queue # <<>>
    BY <1>10 DEF Broadcast
  <2>2. Head(monitor.queue) \in GoodEvent /\ Tail(monitor.queue) \in Seq(GoodEvent)
    BY <1>3, <2>1
  <2>3. monitor' \in MonitorType
    BY <1>2, <2>1, <2>2 DEF MonitorType, Phases
  <2>4. sent' \in Seq(GoodEvent)
    BY <1>2, <2>1, <2>2
  <2> QED BY <1>2, <1>10, <2>3, <2>4 DEF LoopInv, Broadcast
<1>13. CASE Notify
  <2>1. monitor' \in MonitorType
    BY <1>2, <1>13 DEF Notify, MonitorType, Phases
  <2> QED BY <1>2, <1>13, <2>1 DEF LoopInv, Notify
<1>11. CASE EndPoll
  <2>1. monitor' \in MonitorType /\ lastBlock' \in 0..MaxHeight
    BY <1>3, <1>4, <1>11 DEF EndPoll, Phases
  <2> QED BY <1>2, <1>11, <2>1 DEF LoopInv, EndPoll
<1>12. CASE Stop
  <2>1. Down \in MonitorType
    BY Bounds DEF Down, MonitorType, Phases
  <2>2. monitor' = Down /\ lastBlock' = 0 /\ origin' = 0 /\ sent' = <<>>
    BY <1>12 DEF Stop
  <2>3. <<>> \in Seq(GoodEvent) /\ 0 \in 0..MaxHeight
    BY Bounds
  <2> QED BY <2>1, <2>2, <2>3 DEF LoopInv
<1> QED BY <1>5, <1>6, <1>7, <1>8, <1>9, <1>10, <1>11, <1>12, <1>13 DEF Next, vars, Mine, Reorg, MonitorSteps,
        Subscribe, Unsubscribe, NewManager, StartProcessing, ManagerSteps, ReceiveEvent, Lag

\* Only a broadcast leads to the callbacks.
LEMMA QuietPhase ==
  ASSUME LoopInv, Connect \/ StartMonitoring \/ Poll \/ Fetch \/ Notify \/ EndPoll \/ FetchError \/ Stop
  PROVE  monitor'.pc # "notify"
<1>1. monitor \in MonitorType
  BY DEF LoopInv
<1>2. CASE Connect
  BY <1>2 DEF Connect, At
<1>3. CASE StartMonitoring
  BY <1>3 DEF StartMonitoring, At
<1>4. CASE Poll
  BY <1>4 DEF Poll
<1>5. CASE Fetch
  BY <1>1, <1>5 DEF Fetch, MonitorType
<1>6. CASE Notify
  BY <1>1, <1>6 DEF Notify, MonitorType
<1>7. CASE EndPoll \/ FetchError
  BY <1>7 DEF EndPoll, FetchError, At
<1>8. CASE Stop
  BY <1>8 DEF Stop, Down
<1> QED BY <1>2, <1>3, <1>4, <1>5, <1>6, <1>7, <1>8

LEMMA SentStep ==
  ASSUME LoopInv, SentInv, [Next]_vars
  PROVE  SentInv'
<1>1. CASE UNCHANGED <<monitor, sent>> \/ monitor'.pc # "notify"
  BY <1>1 DEF SentInv
<1>2. CASE Broadcast
  <2>1. sent' = Append(sent, Head(monitor.queue)) /\ Head(monitor.queue) \in GoodEvent /\ sent \in Seq(GoodEvent)
    BY <1>2 DEF Broadcast, LoopInv, MonitorType
  <2>2. Len(sent') = Len(sent) + 1 /\ Len(sent) \in Nat
    BY <2>1
  <2> QED BY <2>2 DEF SentInv
<1>3. CASE Connect \/ StartMonitoring \/ Poll \/ Fetch \/ Notify \/ EndPoll \/ FetchError \/ Stop
  <2>1. monitor'.pc # "notify"
    BY <1>3, QuietPhase
  <2> QED BY <1>1, <2>1
<1> QED BY <1>1, <1>2, <1>3 DEF Next, vars, Mine, Reorg, MonitorSteps, Subscribe, Unsubscribe, NewManager,
        StartProcessing, ManagerSteps, ReceiveEvent, Lag

LEMMA ToldIs ==
  ASSUME LoopInv, SentInv
  PROVE  Told \in Nat
<1>1. Len(sent) \in Nat /\ (sent # <<>> => Len(sent) # 0)
  BY LenProperties, EmptySeq DEF LoopInv
<1> QED BY <1>1 DEF Told, SentInv

LEMMA SubsStep ==
  ASSUME LoopInv, ReaderInv, SentInv, [Next]_vars
  PROVE  subs' \in [Wanted -> SubType]
<1>1. subs \in [Wanted -> SubType] /\ sent \in Seq(GoodEvent) /\ Len(sent) \in Nat
  BY LenProperties DEF ReaderInv, LoopInv
<1>2. NoSub \in SubType
  BY DEF NoSub, SubType
<1>3. CASE UNCHANGED subs
  BY <1>1, <1>3
<1>4. CASE Notify
  <2>1. subs' = Notified(Last(sent))
    BY <1>4 DEF Notify
  <2>2. ASSUME NEW w \in Wanted PROVE [subs[w] EXCEPT !.got = Append(@, Len(sent))] \in SubType
    <3> DEFINE places == Append(subs[w].got, Len(sent))
    <3>1. subs[w] \in SubType
      BY <1>1
    <3>2. places \in Seq(Nat)
      BY <1>1, <3>1 DEF SubType
    <3> HIDE DEF places
    <3>3. [subs[w] EXCEPT !.got = places] \in SubType
      BY <3>1, <3>2 DEF SubType
    <3> QED BY <3>3 DEF places
  <2>3. \A w \in Wanted : subs'[w] \in SubType
    BY <1>1, <2>1, <2>2 DEF Notified
  <2>4. subs' = [w \in Wanted |-> subs'[w]]
    BY <2>1 DEF Notified
  <2> QED BY <2>3, <2>4
<1>5. CASE \E w \in Wanted : Subscribe(w)
  <2>1. PICK w \in Wanted : Subscribe(w)
    BY <1>5
  <2>2. Told \in Nat
    BY ToldIs
  <2>3. [on |-> TRUE, since |-> Told, got |-> <<>>] \in SubType
    BY <2>2 DEF SubType
  <2> QED BY <1>1, <2>1, <2>3 DEF Subscribe
<1>6. CASE \E w \in Wanted : Unsubscribe(w)
  BY <1>1, <1>2, <1>6 DEF Unsubscribe
<1>7. CASE Stop
  BY <1>2, <1>7 DEF Stop
<1> QED BY <1>3, <1>4, <1>5, <1>6, <1>7 DEF Next, vars, Mine, Reorg, MonitorSteps, Poll, Fetch, Broadcast,
        EndPoll, FetchError, Connect, StartMonitoring, NewManager, StartProcessing, ManagerSteps, ReceiveEvent, Lag

LEMMA ManagerStep ==
  ASSUME LoopInv, ReaderInv, [Next]_vars
  PROVE  manager' \in ManagerType /\ manager'.position <= Len(sent')
<1>1. /\ manager \in ManagerType /\ sent \in Seq(GoodEvent) /\ Len(sent) \in Nat
      /\ manager.position <= Len(sent) /\ manager.position \in Nat
  BY LenProperties DEF ReaderInv, LoopInv, ManagerType
<1>2. CASE UNCHANGED <<manager, sent>>
  BY <1>1, <1>2
<1>3. CASE Broadcast
  <2>1. sent' = Append(sent, Head(monitor.queue)) /\ manager' = manager
    BY <1>3 DEF Broadcast
  <2>2. Head(monitor.queue) \in GoodEvent
    BY <1>3 DEF Broadcast, LoopInv, MonitorType
  <2>3. Len(sent') = Len(sent) + 1
    BY <1>1, <2>1, <2>2
  <2> QED BY <1>1, <2>1, <2>3
<1>4. CASE NewManager
  <2>1. manager' = [phase |-> "ready", joined |-> Len(sent), position |-> Len(sent), handled |-> <<>>, missed |-> 0]
        /\ sent' = sent
    BY <1>4 DEF NewManager, NoManager
  <2>2. <<>> \in Seq(Nat)
    OBVIOUS
  <2> QED BY <1>1, <2>1, <2>2 DEF ManagerType
<1>5. CASE StartProcessing
  BY <1>1, <1>5 DEF StartProcessing, ManagerType
<1>6. CASE ReceiveEvent
  <2>1. Len(sent) - manager.position \in 1..ChannelCapacity /\ sent' = sent
    BY <1>6 DEF ReceiveEvent, Behind
  <2> DEFINE p == manager.position + 1
  <2>2. p \in Nat /\ p <= Len(sent)
    BY <1>1, <2>1, Bounds
  <2>3. manager' = [manager EXCEPT !.position = p, !.handled = Append(manager.handled, p)]
    BY <1>6 DEF ReceiveEvent
  <2> DEFINE places == Append(manager.handled, p)
  <2>4. places \in Seq(Nat)
    BY <1>1, <2>2 DEF ManagerType
  <2> HIDE DEF p, places
  <2>5. manager' = [manager EXCEPT !.position = p, !.handled = places]
    BY <2>3 DEF places
  <2>6. manager' \in ManagerType
    BY <1>1, <2>2, <2>4, <2>5 DEF ManagerType
  <2>7. manager'.position = p
    BY <1>1, <2>5 DEF ManagerType
  <2> QED BY <2>1, <2>2, <2>6, <2>7
<1>7. CASE Lag
  <2>1. Len(sent) - manager.position > ChannelCapacity /\ sent' = sent
    BY <1>7 DEF Lag, Behind
  <2> DEFINE p == Len(sent) - ChannelCapacity
             m == manager.missed + (Len(sent) - manager.position) - ChannelCapacity
  <2>2. p \in Nat /\ p <= Len(sent)
    BY <1>1, <2>1, Bounds
  <2>3. m \in Nat
    BY <1>1, <2>1, Bounds DEF ManagerType
  <2>4. manager' = [manager EXCEPT !.position = p, !.missed = m]
    BY <1>7 DEF Lag, Behind
  <2> HIDE DEF p, m
  <2> QED BY <1>1, <2>1, <2>2, <2>3, <2>4 DEF ManagerType
<1>8. CASE Stop
  <2>1. NoManager \in ManagerType /\ NoManager.position = 0
    BY DEF NoManager, ManagerType
  <2> QED BY <1>8, <2>1 DEF Stop
<1> QED BY <1>2, <1>3, <1>4, <1>5, <1>6, <1>7, <1>8 DEF Next, vars, Mine, Reorg, MonitorSteps, Poll, Fetch, Notify,
        EndPoll, FetchError, Connect, StartMonitoring, Subscribe, Unsubscribe, ManagerSteps

LEMMA TypeStep ==
  ASSUME TypeInv, [Next]_vars
  PROVE  TypeInv'
BY ChainStep, LoopStep, SentStep, SubsStep, ManagerStep DEF TypeInv, ReaderInv

LEMMA TypeInit == Init => TypeInv
<1> SUFFICES ASSUME Init PROVE TypeInv
  OBVIOUS
<1>1. <<>> \in Seq(Seq(GoodLog)) /\ Len(<<>>) = 0 /\ <<>> \in Seq(GoodEvent)
  OBVIOUS
<1>2. ChainInv
  BY <1>1, Bounds DEF Init, ChainInv
<1>3. Down \in MonitorType
  BY Bounds DEF Down, MonitorType, Phases
<1>4. LoopInv
  BY <1>1, <1>3, Bounds DEF Init, LoopInv
<1>5. NoSub \in SubType
  BY DEF NoSub, SubType
<1>6. NoManager \in ManagerType /\ NoManager.position = 0
  BY DEF NoManager, ManagerType
<1>7. ReaderInv
  BY <1>1, <1>5, <1>6 DEF Init, ReaderInv
<1>8. SentInv
  BY DEF Init, Down, SentInv
<1> QED BY <1>2, <1>4, <1>7, <1>8 DEF TypeInv

THEOREM TypeInvariant == Spec => []TypeInv
<1>1. Init => TypeInv
  BY TypeInit
<1>2. TypeInv /\ [Next]_vars => TypeInv'
  BY TypeStep
<1> QED BY <1>1, <1>2, PTL DEF Spec

\* The type invariant of the component: the client never keeps an event or a
\* height outside its types, whatever the node answers.
THEOREM TypeCorrect == Spec => []TypeOK
<1>1. TypeInv => TypeOK
  <2> SUFFICES ASSUME TypeInv PROVE TypeOK
    OBVIOUS
  <2>1. ChainInv /\ LoopInv /\ ReaderInv
    BY DEF TypeInv
  <2>2. GoodLog \subseteq Log /\ GoodEvent \subseteq Event
    BY DEF GoodLog, GoodEvent
  <2>3. chain \in Seq(Seq(Log))
    <3>1. ASSUME NEW s \in Seq(GoodLog) PROVE s \in Seq(Log)
      BY <2>2, SeqWidens
    <3>2. Seq(GoodLog) \subseteq Seq(Log)
      BY <3>1
    <3> QED BY <2>1, <3>2, SeqWidens DEF ChainInv
  <2>4. sent \in Seq(Event)
    BY <2>1, <2>2, SeqWidens DEF LoopInv
  <2>5. monitor \in [pc: Phases, to: 0..MaxHeight, queue: Seq(Event)]
    <3>1. monitor.queue \in Seq(GoodEvent)
      BY <2>1 DEF LoopInv, MonitorType
    <3>2. monitor.queue \in Seq(Event)
      BY <2>2, <3>1, SeqWidens
    <3> QED BY <2>1, <3>2 DEF LoopInv, MonitorType
  <2>6. subs \in [Wanted -> [on: BOOLEAN, since: Nat, got: Seq(Nat)]] /\
        manager \in [phase: {"none", "ready", "running"}, joined: Nat, position: Nat,
                     handled: Seq(Nat), missed: Nat]
    BY <2>1 DEF ReaderInv, SubType, ManagerType
  <2> QED BY <2>1, <2>3, <2>4, <2>5, <2>6 DEF TypeOK, ChainInv, LoopInv, Phases
<1> QED BY <1>1, TypeInvariant, PTL

-----------------------------------------------------------------------------
(***************************************************************************)
(* The manager accounts for every event of the channel                     *)
(***************************************************************************)

\* The receiver m has handled or missed what was sent from m.joined on, to
\* m.position, and of the last events of a channel with n missed none.
Accounted(m, n) ==
  /\ m.joined <= m.position /\ m.position <= n
  /\ \A i \in DOMAIN m.handled : m.handled[i] \in (m.joined + 1)..m.position
  /\ \A i, j \in DOMAIN m.handled : i < j => m.handled[i] < m.handled[j]
  /\ Len(m.handled) + m.missed = m.position - m.joined
  /\ \A k \in (m.joined + 1)..m.position : Contains(m.handled, k) \/ k <= n - ChannelCapacity

LEMMA FreshAccounted ==
  ASSUME NEW m \in ManagerType, NEW n \in Nat,
         m.handled = <<>>, m.missed = 0, m.position = m.joined, m.joined <= n
  PROVE  Accounted(m, n)
<1>1. DOMAIN m.handled = {} /\ Len(m.handled) = 0 /\ m.joined \in Nat
  BY DEF ManagerType
<1> QED BY <1>1 DEF Accounted

LEMMA AppendIs ==
  ASSUME NEW S, NEW s \in Seq(S), NEW e \in S
  PROVE  /\ Append(s, e) \in Seq(S) /\ Len(Append(s, e)) = Len(s) + 1 /\ Len(s) \in Nat
         /\ DOMAIN s = 1..Len(s) /\ DOMAIN Append(s, e) = 1..(Len(s) + 1)
         /\ \A i \in 1..Len(s) : Append(s, e)[i] = s[i]
         /\ Append(s, e)[Len(s) + 1] = e
BY LenProperties

LEMMA ReceiveAccounted ==
  ASSUME NEW m \in ManagerType, NEW t \in ManagerType, NEW n \in Nat,
         Accounted(m, n), m.position < n,
         t.joined = m.joined, t.missed = m.missed,
         t.position = m.position + 1, t.handled = Append(m.handled, m.position + 1)
  PROVE  Accounted(t, n)
<1> DEFINE p == m.position + 1
           h == m.handled
           g == t.handled
<1>0. m.joined \in Nat /\ m.position \in Nat /\ m.missed \in Nat /\ h \in Seq(Nat) /\ p \in Nat
  BY DEF ManagerType
<1>1. /\ Len(g) = Len(h) + 1 /\ Len(h) \in Nat /\ DOMAIN h = 1..Len(h) /\ DOMAIN g = 1..(Len(h) + 1)
      /\ \A i \in 1..Len(h) : g[i] = h[i]
      /\ g[Len(h) + 1] = p
  BY <1>0, AppendIs
<1>2. /\ m.joined <= m.position /\ m.position <= n
      /\ \A i \in DOMAIN h : h[i] \in (m.joined + 1)..m.position
      /\ \A i, j \in DOMAIN h : i < j => h[i] < h[j]
      /\ Len(h) + m.missed = m.position - m.joined
      /\ \A k \in (m.joined + 1)..m.position : Contains(h, k) \/ k <= n - ChannelCapacity
  BY DEF Accounted
<1>3. t.joined = m.joined /\ t.position = p /\ t.missed = m.missed
  OBVIOUS
<1> HIDE DEF h, g
<1>4. t.joined <= t.position /\ t.position <= n /\ Len(g) + t.missed = t.position - t.joined
  <2>1. m.joined <= p /\ p <= n
    BY <1>0, <1>2
  <2>2. Len(g) + m.missed = p - m.joined
    <3> DEFINE a == Len(g)  b == Len(h)  at == m.position  from == m.joined  lost == m.missed
    <3>1. a = b + 1 /\ b \in Nat /\ b + lost = at - from /\ lost \in Nat /\ at \in Nat /\ from \in Nat
      BY <1>0, <1>1, <1>2
    <3> HIDE DEF a, b, at, from, lost
    <3>2. a + lost = (at + 1) - from
      BY <3>1
    <3> QED BY <3>2 DEF a, at, from, lost
  <2> QED BY <1>3, <2>1, <2>2
<1>5. \A i \in DOMAIN g : g[i] \in (t.joined + 1)..t.position
  <2> SUFFICES ASSUME NEW i \in DOMAIN g PROVE g[i] \in (m.joined + 1)..p
    BY <1>3
  <2>1. CASE i = Len(h) + 1
    BY <1>0, <1>1, <1>2, <2>1
  <2>2. CASE i # Len(h) + 1
    <3>1. i \in DOMAIN h /\ g[i] = h[i]
      BY <1>1, <2>2
    <3> QED BY <1>0, <1>2, <3>1
  <2> QED BY <2>1, <2>2
<1>6. \A i, j \in DOMAIN g : i < j => g[i] < g[j]
  <2> SUFFICES ASSUME NEW i \in DOMAIN g, NEW j \in DOMAIN g, i < j PROVE g[i] < g[j]
    OBVIOUS
  <2>1. i \in DOMAIN h /\ g[i] = h[i]
    BY <1>1
  <2>2. CASE j = Len(h) + 1
    <3>1. h[i] \in (m.joined + 1)..m.position /\ g[j] = p
      BY <1>1, <1>2, <2>1, <2>2
    <3> QED BY <1>0, <2>1, <3>1
  <2>3. CASE j # Len(h) + 1
    <3>1. j \in DOMAIN h /\ g[j] = h[j]
      BY <1>1, <2>3
    <3> QED BY <1>2, <2>1, <3>1
  <2> QED BY <2>2, <2>3
<1>7. \A k \in (t.joined + 1)..t.position : Contains(g, k) \/ k <= n - ChannelCapacity
  <2> SUFFICES ASSUME NEW k \in (m.joined + 1)..p PROVE Contains(g, k) \/ k <= n - ChannelCapacity
    BY <1>3
  <2>1. CASE k = p
    BY <1>1, <2>1 DEF Contains
  <2>2. CASE k # p
    <3>1. k \in (m.joined + 1)..m.position
      BY <1>0, <2>2
    <3>2. Contains(h, k) => Contains(g, k)
      BY <1>1 DEF Contains
    <3> QED BY <1>2, <3>1, <3>2
  <2> QED BY <2>1, <2>2
<1> QED BY <1>4, <1>5, <1>6, <1>7 DEF Accounted, g

LEMMA LagAccounted ==
  ASSUME NEW m \in ManagerType, NEW t \in ManagerType, NEW n \in Nat,
         Accounted(m, n), n - m.position > ChannelCapacity,
         t.joined = m.joined, t.handled = m.handled,
         t.position = n - ChannelCapacity, t.missed = m.missed + (n - m.position) - ChannelCapacity
  PROVE  Accounted(t, n)
<1>0. m.joined \in Nat /\ m.position \in Nat /\ m.missed \in Nat /\ Len(m.handled) \in Nat
  BY LenProperties DEF ManagerType
<1>1. /\ m.joined <= m.position /\ m.position <= n
      /\ \A i \in DOMAIN m.handled : m.handled[i] \in (m.joined + 1)..m.position
      /\ \A i, j \in DOMAIN m.handled : i < j => m.handled[i] < m.handled[j]
      /\ Len(m.handled) + m.missed = m.position - m.joined
      /\ \A k \in (m.joined + 1)..m.position : Contains(m.handled, k) \/ k <= n - ChannelCapacity
  BY DEF Accounted
<1>2. t.joined <= t.position /\ t.position <= n /\ Len(t.handled) + t.missed = t.position - t.joined
  <2> DEFINE b == Len(m.handled)  at == m.position  from == m.joined  lost == m.missed
  <2>1. /\ b \in Nat /\ lost \in Nat /\ at \in Nat /\ from \in Nat
        /\ b + lost = at - from /\ from <= at /\ at <= n /\ n - at > ChannelCapacity
    BY <1>0, <1>1
  <2> HIDE DEF b, at, from, lost
  <2>2. /\ from <= n - ChannelCapacity /\ n - ChannelCapacity <= n
        /\ b + (lost + (n - at) - ChannelCapacity) = (n - ChannelCapacity) - from
    BY <2>1, Bounds
  <2> QED BY <2>2 DEF b, at, from, lost
<1>3. \A i \in DOMAIN t.handled : t.handled[i] \in (t.joined + 1)..t.position
  <2> SUFFICES ASSUME NEW i \in DOMAIN m.handled
               PROVE  m.handled[i] \in (m.joined + 1)..(n - ChannelCapacity)
    OBVIOUS
  <2> DEFINE x == m.handled[i]
  <2>1. x \in (m.joined + 1)..m.position
    BY <1>1
  <2> HIDE DEF x
  <2>2. x \in (m.joined + 1)..(n - ChannelCapacity)
    BY <1>0, <2>1, Bounds
  <2> QED BY <2>2 DEF x
<1>4. ASSUME NEW k \in (t.joined + 1)..t.position PROVE Contains(t.handled, k) \/ k <= n - ChannelCapacity
  BY <1>0, Bounds
<1> QED BY <1>1, <1>2, <1>3, <1>4 DEF Accounted

LEMMA LaterAccounted ==
  ASSUME NEW m \in ManagerType, NEW t \in ManagerType, NEW n \in Nat, NEW l \in Nat, n <= l,
         Accounted(m, n), t.joined = m.joined, t.position = m.position,
         t.handled = m.handled, t.missed = m.missed
  PROVE  Accounted(t, l)
<1>0. m.joined \in Nat /\ m.position \in Nat
  BY DEF ManagerType
<1>2. ASSUME NEW k \in (m.joined + 1)..m.position PROVE Contains(m.handled, k) \/ k <= l - ChannelCapacity
  BY <1>0, Bounds DEF Accounted
<1>3. m.position <= l
  BY <1>0 DEF Accounted
<1> QED BY <1>2, <1>3 DEF Accounted

ManagerInv == Accounted(manager, Len(sent))

LEMMA ManagerInvStep ==
  ASSUME TypeInv, TypeInv', ManagerInv, [Next]_vars
  PROVE  ManagerInv'
<1>1. manager \in ManagerType /\ manager' \in ManagerType /\ Len(sent) \in Nat /\ Len(sent') \in Nat
      /\ sent \in Seq(GoodEvent)
  BY LenProperties DEF TypeInv, ReaderInv, LoopInv
<1>2. CASE UNCHANGED <<manager, sent>>
  BY <1>2 DEF ManagerInv
<1>3. CASE Broadcast
  <2>1. sent' = Append(sent, Head(monitor.queue)) /\ manager' = manager
    BY <1>3 DEF Broadcast
  <2>2. Head(monitor.queue) \in GoodEvent
    BY <1>3 DEF Broadcast, TypeInv, LoopInv, MonitorType
  <2>3. Len(sent') = Len(sent) + 1
    BY <1>1, <2>1, <2>2
  <2> QED BY <1>1, <2>1, <2>3, LaterAccounted DEF ManagerInv
<1>4. CASE NewManager
  <2>1. manager' = [phase |-> "ready", joined |-> Len(sent), position |-> Len(sent), handled |-> <<>>, missed |-> 0]
        /\ sent' = sent
    BY <1>4 DEF NewManager, NoManager
  <2> QED BY <1>1, <2>1, FreshAccounted DEF ManagerInv
<1>5. CASE StartProcessing
  <2>1. manager' = [manager EXCEPT !.phase = "running"] /\ sent' = sent
    BY <1>5 DEF StartProcessing
  <2>2. /\ manager'.joined = manager.joined /\ manager'.position = manager.position
        /\ manager'.handled = manager.handled /\ manager'.missed = manager.missed
    BY <1>1, <2>1 DEF ManagerType
  <2>3. Len(sent') = Len(sent) /\ Len(sent) <= Len(sent')
    BY <1>1, <2>1
  <2> QED BY <1>1, <2>2, <2>3, LaterAccounted DEF ManagerInv
<1>6. CASE ReceiveEvent
  <2>1. Len(sent) - manager.position \in 1..ChannelCapacity /\ sent' = sent
    BY <1>6 DEF ReceiveEvent, Behind
  <2>2. manager' = [manager EXCEPT !.position = manager.position + 1,
                                   !.handled = Append(manager.handled, manager.position + 1)]
    BY <1>6 DEF ReceiveEvent
  <2>3. /\ manager'.joined = manager.joined /\ manager'.missed = manager.missed
        /\ manager'.position = manager.position + 1
        /\ manager'.handled = Append(manager.handled, manager.position + 1)
    BY <1>1, <2>2 DEF ManagerType
  <2>4. manager.position < Len(sent)
    BY <1>1, <2>1, Bounds DEF ManagerType
  <2> QED BY <1>1, <2>1, <2>3, <2>4, ReceiveAccounted DEF ManagerInv
<1>7. CASE Lag
  <2>1. Len(sent) - manager.position > ChannelCapacity /\ sent' = sent
    BY <1>7 DEF Lag, Behind
  <2>2. manager' = [manager EXCEPT !.position = Len(sent) - ChannelCapacity,
                                   !.missed = manager.missed + (Len(sent) - manager.position) - ChannelCapacity]
    BY <1>7 DEF Lag, Behind
  <2>3. /\ manager'.joined = manager.joined /\ manager'.handled = manager.handled
        /\ manager'.position = Len(sent) - ChannelCapacity
        /\ manager'.missed = manager.missed + (Len(sent) - manager.position) - ChannelCapacity
    BY <1>1, <2>2 DEF ManagerType
  <2> QED BY <1>1, <2>1, <2>3, LagAccounted DEF ManagerInv
<1>8. CASE Stop
  <2>1. manager' = NoManager /\ sent' = <<>>
    BY <1>8 DEF Stop
  <2> QED BY <1>1, <2>1, FreshAccounted DEF ManagerInv, NoManager
<1> QED BY <1>2, <1>3, <1>4, <1>5, <1>6, <1>7, <1>8 DEF Next, vars, Mine, Reorg, MonitorSteps, Poll, Fetch, Notify,
        EndPoll, FetchError, Connect, StartMonitoring, Subscribe, Unsubscribe, ManagerSteps

\* The event manager handles the events of the channel in order and none twice,
\* counts every one it misses, and misses none of the newest ones, however far
\* its task falls behind the loop (start_processing_events, RecvError::Lagged).
THEOREM ManagerAccounts == Spec => []MissesOldEventsOnly
<1>1. Init => ManagerInv
  <2> SUFFICES ASSUME Init PROVE ManagerInv
    OBVIOUS
  <2>1. manager = NoManager /\ sent = <<>> /\ NoManager \in ManagerType
    BY DEF Init, NoManager, ManagerType
  <2>2. Len(sent) = 0
    BY <2>1
  <2> QED BY <2>1, <2>2, FreshAccounted DEF ManagerInv, NoManager
<1>2. TypeInv /\ TypeInv' /\ ManagerInv /\ [Next]_vars => ManagerInv'
  BY ManagerInvStep
<1>3. ManagerInv => MissesOldEventsOnly
  BY DEF ManagerInv, Accounted, MissesOldEventsOnly
<1> QED BY <1>1, <1>2, <1>3, TypeInvariant, PTL DEF Spec

-----------------------------------------------------------------------------
(***************************************************************************)
(* Subscribers are called with what they subscribed to                     *)
(***************************************************************************)

\* A registered callback passes on the events its subscription is about.
LEMMA RegistrationIsRight ==
  ASSUME NEW w \in Wanted, NEW e \in GoodEvent
  PROVE  (Matches(e, Registration(w).filter) /\ e.type \in Registration(w).handles) <=> Concerns(w, e)
<1>0. /\ e.type \in EventTypes /\ e.state \in StateIds \cup {None} /\ e.who \in Addresses \cup {None}
      /\ e.block \in 1..MaxHeight
      /\ e.type \in StateEventTypes => e.state \in StateIds
      /\ e.who = None <=> e.type = "ProofVerified"
      /\ None \notin StateIds /\ None \notin Addresses
  BY EventMonitorAssumption DEF GoodEvent, Event, Says
<1> DEFINE f == Registration(w).filter
<1>m. Matches(e, f) <=> /\ e.type \in f.types /\ e.state \in f.states \cup {None}
                        /\ e.who \in f.who \cup {None} /\ e.block \in f.blocks
  BY DEF Matches
<1>1. w.kind \in Kinds
  BY EventMonitorAssumption
<1>2. CASE w.kind = "state"
  <2>1. Registration(w) = [filter |-> [types |-> StateEventTypes, states |-> w.of, who |-> Addresses, blocks |-> 1..MaxHeight],
                           handles |-> StateEventTypes]
    BY <1>2 DEF Registration, StateEvents, NoFilter
  <2>2. Concerns(w, e) <=> e.type \in StateEventTypes /\ e.state \in w.of
    BY <1>2 DEF Concerns
  <2>3. f.types = StateEventTypes /\ f.states = w.of /\ f.who = Addresses /\ f.blocks = 1..MaxHeight
    BY <2>1
  <2>4. Registration(w).handles = StateEventTypes
    BY <2>1
  <2> HIDE DEF f
  <2>5. ASSUME e.type \in StateEventTypes PROVE Matches(e, f) <=> e.state \in w.of
    <3>1. e.state # None
      BY <1>0, <2>5
    <3> QED BY <1>0, <1>m, <2>3, <2>5, <3>1
  <2>6. Matches(e, f) => e.type \in StateEventTypes
    BY <1>m, <2>3
  <2>7. Matches(e, f) /\ e.type \in Registration(w).handles <=> Concerns(w, e)
    BY <2>2, <2>4, <2>5, <2>6
  <2> QED BY <2>7 DEF f
<1>3. CASE w.kind = "proof"
  <2>1. Registration(w) = [filter |-> [types |-> ProofEventTypes, states |-> StateIds, who |-> Addresses, blocks |-> 1..MaxHeight],
                           handles |-> ProofEventTypes]
    BY <1>3 DEF Registration, ProofEvents, NoFilter
  <2>2. Concerns(w, e) <=> e.type \in ProofEventTypes
    BY <1>3 DEF Concerns
  <2>3. f.types = ProofEventTypes /\ f.states = StateIds /\ f.who = Addresses /\ f.blocks = 1..MaxHeight
    BY <2>1
  <2>4. Registration(w).handles = ProofEventTypes
    BY <2>1
  <2> HIDE DEF f
  <2>5. e.type \in f.types => (Matches(e, f) <=> TRUE)
    BY <1>0, <1>m, <2>3
  <2>6. Matches(e, f) => e.type \in f.types
    BY <1>m
  <2>7. Matches(e, f) /\ e.type \in Registration(w).handles <=> Concerns(w, e)
    BY <2>2, <2>3, <2>4, <2>5, <2>6
  <2> QED BY <2>7 DEF f
<1>4. CASE w.kind = "batch"
  <2>1. Registration(w) = [filter |-> [types |-> {"BatchStateUpdated"}, states |-> StateIds, who |-> Addresses, blocks |-> 1..MaxHeight],
                           handles |-> {"BatchStateUpdated"}]
    BY <1>4 DEF Registration, BatchEvents, NoFilter
  <2>2. Concerns(w, e) <=> e.type = "BatchStateUpdated"
    BY <1>4 DEF Concerns
  <2>3. f.types = {"BatchStateUpdated"} /\ f.states = StateIds /\ f.who = Addresses /\ f.blocks = 1..MaxHeight
    BY <2>1
  <2>4. Registration(w).handles = {"BatchStateUpdated"}
    BY <2>1
  <2> HIDE DEF f
  <2>5. e.type \in f.types => (Matches(e, f) <=> TRUE)
    BY <1>0, <1>m, <2>3
  <2>6. Matches(e, f) => e.type \in f.types
    BY <1>m
  <2>7. Matches(e, f) /\ e.type \in Registration(w).handles <=> Concerns(w, e)
    BY <2>2, <2>3, <2>4, <2>5, <2>6
  <2> QED BY <2>7 DEF f
<1>5. CASE w.kind = "address"
  <2>1. Registration(w) = [filter |-> [types |-> EventTypes, states |-> StateIds, who |-> w.of, blocks |-> 1..MaxHeight],
                           handles |-> EventTypes]
    BY <1>5 DEF Registration, AddressEvents, NoFilter, Dispatched
  <2>2. Concerns(w, e) <=> e.who \in w.of \/ e.type = "ProofVerified"
    BY <1>5 DEF Concerns
  <2>3. f.types = EventTypes /\ f.states = StateIds /\ f.who = w.of /\ f.blocks = 1..MaxHeight
    BY <2>1
  <2>4. Registration(w).handles = EventTypes
    BY <2>1
  <2> HIDE DEF f
  <2>5. e.type \in f.types => (Matches(e, f) <=> e.who \in w.of \/ e.who = None)
    BY <1>0, <1>m, <2>3
  <2>6. Matches(e, f) => e.type \in f.types
    BY <1>m
  <2>7. Matches(e, f) /\ e.type \in Registration(w).handles <=> Concerns(w, e)
    BY <1>0, <2>2, <2>3, <2>4, <2>5, <2>6
  <2> QED BY <2>7 DEF f
<1>6. CASE w.kind = "range"
  <2>1. Registration(w) = [filter |-> [types |-> EventTypes, states |-> StateIds, who |-> Addresses, blocks |-> w.of],
                           handles |-> EventTypes]
    BY <1>6 DEF Registration, RangeEvents, NoFilter, Dispatched
  <2>2. Concerns(w, e) <=> e.block \in w.of
    BY <1>6 DEF Concerns
  <2>3. f.types = EventTypes /\ f.states = StateIds /\ f.who = Addresses /\ f.blocks = w.of
    BY <2>1
  <2>4. Registration(w).handles = EventTypes
    BY <2>1
  <2> HIDE DEF f
  <2>5. e.type \in f.types => (Matches(e, f) <=> e.block \in w.of)
    BY <1>0, <1>m, <2>3
  <2>6. Matches(e, f) => e.type \in f.types
    BY <1>m
  <2>7. Matches(e, f) /\ e.type \in Registration(w).handles <=> Concerns(w, e)
    BY <1>0, <2>2, <2>3, <2>4, <2>5, <2>6
  <2> QED BY <2>7 DEF f
<1> QED BY <1>1, <1>2, <1>3, <1>4, <1>5, <1>6 DEF Kinds

\* got holds the places, among the first n of es, of the events after since that are for w.
Served(w, since, got, es, n) ==
  /\ since <= n
  /\ \A i, j \in DOMAIN got : i < j => got[i] < got[j]
  /\ Range(got) = {k \in (since + 1)..n : Concerns(w, es[k])}

SubInv == \A w \in Wanted : subs[w].on => Served(w, subs[w].since, subs[w].got, sent, Told)

\* The next event is for w, and w is called with it.
LEMMA ServedOnce ==
  ASSUME NEW w, NEW since \in Nat, NEW got \in Seq(Nat), NEW es, NEW m \in Nat,
         Served(w, since, got, es, m), Concerns(w, es[m + 1])
  PROVE  Served(w, since, Append(got, m + 1), es, m + 1)
<1> DEFINE n == m + 1
           new == Append(got, n)
<1>1. n \in Nat
  OBVIOUS
<1>2. /\ Len(got) \in Nat /\ DOMAIN got = 1..Len(got) /\ DOMAIN new = 1..(Len(got) + 1) /\ new[Len(got) + 1] = n
      /\ \A i \in 1..Len(got) : new[i] = got[i]
  BY <1>1, AppendIs
<1>3. /\ since <= m /\ \A i, j \in DOMAIN got : i < j => got[i] < got[j]
      /\ Range(got) = {k \in (since + 1)..m : Concerns(w, es[k])}
  BY DEF Served
<1>4. \A i \in DOMAIN got : got[i] \in Nat /\ got[i] < n
  <2> SUFFICES ASSUME NEW i \in DOMAIN got PROVE got[i] \in Nat /\ got[i] < n
    OBVIOUS
  <2>1. got[i] \in Range(got)
    BY DEF Range
  <2>2. got[i] \in (since + 1)..m
    BY <1>3, <2>1
  <2> DEFINE x == got[i]
  <2> HIDE DEF x
  <2>3. x \in (since + 1)..m => x \in Nat /\ x < m + 1
    OBVIOUS
  <2> QED BY <2>2, <2>3 DEF x
<1> DEFINE before == {k \in (since + 1)..m : Concerns(w, es[k])}
           after == {k \in (since + 1)..n : Concerns(w, es[k])}
<1>5. after = before \cup {n}
  <2>1. \A k : k \in (since + 1)..n <=> k \in (since + 1)..m \/ k = n
    BY <1>1, <1>3
  <2>2. Concerns(w, es[n])
    OBVIOUS
  <2> HIDE DEF n
  <2> QED BY <2>1, <2>2
<1>6. Range(new) = Range(got) \cup {n}
  <2> HIDE DEF n, new
  <2>1. DOMAIN new = DOMAIN got \cup {Len(got) + 1}
    BY <1>2
  <2>2. new[Len(got) + 1] = n /\ \A i \in DOMAIN got : new[i] = got[i]
    BY <1>2
  <2>3. Range(new) = {new[i] : i \in DOMAIN got} \cup {n}
    BY <2>1, <2>2, Zenon DEF Range
  <2>4. {new[i] : i \in DOMAIN got} = Range(got)
    BY <2>2, Zenon DEF Range
  <2> QED BY <2>3, <2>4
<1>7. \A i, j \in DOMAIN new : i < j => new[i] < new[j]
  <2> SUFFICES ASSUME NEW i \in DOMAIN new, NEW j \in DOMAIN new, i < j PROVE new[i] < new[j]
    OBVIOUS
  <2> HIDE DEF n, new
  <2>1. i \in DOMAIN got /\ new[i] = got[i]
    BY <1>2
  <2>2. CASE j = Len(got) + 1
    BY <1>2, <1>4, <2>1, <2>2
  <2>3. CASE j # Len(got) + 1
    <3>1. j \in DOMAIN got /\ new[j] = got[j]
      BY <1>2, <2>3
    <3> QED BY <1>3, <2>1, <3>1
  <2> QED BY <2>2, <2>3
<1>8. since <= n
  BY <1>1, <1>3
<1> HIDE DEF n, new
<1>9. Served(w, since, new, es, n)
  BY <1>3, <1>5, <1>6, <1>7, <1>8 DEF Served
<1> QED BY <1>9 DEF n, new

\* The next event is not for w, and w is not called.
LEMMA ServedOthers ==
  ASSUME NEW w, NEW since \in Nat, NEW got, NEW es, NEW m \in Nat,
         Served(w, since, got, es, m), ~Concerns(w, es[m + 1])
  PROVE  Served(w, since, got, es, m + 1)
<1> DEFINE n == m + 1
<1>1. since <= m
  BY DEF Served
<1>2. {k \in (since + 1)..n : Concerns(w, es[k])} = {k \in (since + 1)..m : Concerns(w, es[k])}
  <2>1. \A k : k \in (since + 1)..n <=> k \in (since + 1)..m \/ k = n
    BY <1>1
  <2>2. ~Concerns(w, es[n])
    OBVIOUS
  <2> HIDE DEF n
  <2> QED BY <2>1, <2>2
<1>3. since <= n
  BY <1>1
<1> HIDE DEF n
<1>4. Served(w, since, got, es, n)
  BY <1>2, <1>3 DEF Served
<1> QED BY <1>4 DEF n

\* An event was sent, and nobody is called with it yet.
LEMMA ServedBefore ==
  ASSUME NEW w, NEW since \in Nat, NEW got, NEW es \in Seq(GoodEvent), NEW e \in GoodEvent,
         Served(w, since, got, es, Len(es))
  PROVE  Served(w, since, got, Append(es, e), Len(es))
<1> DEFINE all == Append(es, e)
<1>1. Len(es) \in Nat /\ \A i \in 1..Len(es) : all[i] = es[i]
  BY AppendIs
<1> HIDE DEF all
<1>2. \A k \in (since + 1)..Len(es) : all[k] = es[k]
  BY <1>1
<1>3. {k \in (since + 1)..Len(es) : Concerns(w, all[k])} = {k \in (since + 1)..Len(es) : Concerns(w, es[k])}
  BY <1>2
<1>4. Served(w, since, got, all, Len(es))
  BY <1>3 DEF Served
<1> QED BY <1>4 DEF all

LEMMA ServedFromNow ==
  ASSUME NEW w, NEW es, NEW n \in Nat
  PROVE  Served(w, n, <<>>, es, n)
<1>1. DOMAIN <<>> = {}
  BY LenProperties
<1>2. (n + 1)..n = {}
  OBVIOUS
<1>3. Range(<<>>) = {}
  BY DEF Range
<1> QED BY <1>1, <1>2, <1>3 DEF Served

LEMMA SubInvStep ==
  ASSUME TypeInv, SubInv, [Next]_vars
  PROVE  SubInv'
<1>1. subs \in [Wanted -> SubType] /\ sent \in Seq(GoodEvent) /\ Len(sent) \in Nat /\ Told \in Nat
  BY LenProperties, ToldIs DEF TypeInv, ReaderInv, LoopInv
<1>2. CASE UNCHANGED <<subs, sent>> /\ (monitor'.pc = "notify" <=> monitor.pc = "notify")
  <2>1. Told' = Told
    BY <1>2 DEF Told
  <2> QED BY <1>2, <2>1 DEF SubInv
<1>7. CASE Broadcast
  <2> DEFINE e == Head(monitor.queue)
  <2>1. sent' = Append(sent, e) /\ subs' = subs /\ e \in GoodEvent /\ monitor.pc = "dispatch" /\ monitor'.pc = "notify"
    BY <1>7 DEF Broadcast, TypeInv, LoopInv, MonitorType
  <2> HIDE DEF e
  <2>2. Told = Len(sent)
    BY <1>1, <2>1 DEF Told
  <2>3. Told' = Len(sent)
    <3>1. Len(sent') = Len(sent) + 1
      BY <1>1, <2>1
    <3> QED BY <1>1, <2>1, <3>1 DEF Told
  <2>4. ASSUME NEW w \in Wanted, subs[w].on
        PROVE  Served(w, subs[w].since, subs[w].got, sent', Len(sent))
    <3>1. subs[w].since \in Nat
      BY <1>1 DEF SubType
    <3>2. Served(w, subs[w].since, subs[w].got, sent, Len(sent))
      BY <2>2, <2>4 DEF SubInv
    <3> QED BY <1>1, <2>1, <3>1, <3>2, ServedBefore
  <2> QED BY <2>1, <2>3, <2>4 DEF SubInv
<1>3. CASE Notify
  <2> DEFINE e == Last(sent)
  <2>1. sent' = sent /\ subs' = Notified(e) /\ monitor.pc = "notify" /\ monitor'.pc = "dispatch" /\ sent # <<>>
    BY <1>3 DEF Notify, TypeInv, LoopInv, MonitorType, SentInv
  <2>2. Told + 1 = Len(sent) /\ Told' = Told + 1 /\ Len(sent) \in 1..Len(sent)
    <3>1. Len(sent) # 0
      BY <1>1, <2>1, EmptySeq
    <3> QED BY <1>1, <2>1, <3>1 DEF Told
  <2>3. e = sent[Told + 1] /\ e \in GoodEvent
    BY <1>1, <2>2 DEF Last
  <2> HIDE DEF e
  <2> SUFFICES ASSUME NEW w \in Wanted, subs'[w].on
               PROVE  Served(w, subs'[w].since, subs'[w].got, sent, Told + 1)
    BY <2>1, <2>2 DEF SubInv
  <2>4. subs[w] \in SubType /\ subs[w].since \in Nat /\ subs[w].got \in Seq(Nat)
    BY <1>1 DEF SubType
  <2>5. CASE subs[w].on /\ Concerns(w, e)
    <3>1. subs'[w] = [subs[w] EXCEPT !.got = Append(subs[w].got, Told + 1)]
      BY <2>1, <2>2, <2>3, <2>5, RegistrationIsRight DEF Notified
    <3>2. subs'[w].since = subs[w].since /\ subs'[w].got = Append(subs[w].got, Told + 1)
      BY <2>4, <3>1 DEF SubType
    <3>3. Served(w, subs[w].since, subs[w].got, sent, Told)
      BY <2>5 DEF SubInv
    <3>4. Served(w, subs[w].since, Append(subs[w].got, Told + 1), sent, Told + 1)
      BY <1>1, <2>3, <2>4, <2>5, <3>3, ServedOnce
    <3> QED BY <3>2, <3>4
  <2>6. CASE subs[w].on /\ ~Concerns(w, e)
    <3>1. subs'[w] = subs[w]
      BY <2>1, <2>3, <2>6, RegistrationIsRight DEF Notified
    <3>2. Served(w, subs[w].since, subs[w].got, sent, Told)
      BY <2>6 DEF SubInv
    <3>3. Served(w, subs[w].since, subs[w].got, sent, Told + 1)
      BY <1>1, <2>3, <2>4, <2>6, <3>2, ServedOthers
    <3> QED BY <3>1, <3>3
  <2>7. CASE ~subs[w].on
    <3>1. subs'[w] = subs[w]
      BY <2>1, <2>7 DEF Notified
    <3> QED BY <2>7, <3>1
  <2> QED BY <2>5, <2>6, <2>7
<1>4. CASE \E w \in Wanted : Subscribe(w)
  <2>1. PICK w \in Wanted : Subscribe(w)
    BY <1>4
  <2>2. subs' = [subs EXCEPT ![w] = [on |-> TRUE, since |-> Told, got |-> <<>>]] /\ sent' = sent /\ Told' = Told
    BY <2>1 DEF Subscribe, Told
  <2> SUFFICES ASSUME NEW v \in Wanted, subs'[v].on
               PROVE  Served(v, subs'[v].since, subs'[v].got, sent, Told)
    BY <2>2 DEF SubInv
  <2>3. CASE v = w
    <3>1. subs'[v].since = Told /\ subs'[v].got = <<>>
      BY <1>1, <2>2, <2>3
    <3> QED BY <1>1, <2>2, <3>1, ServedFromNow
  <2>4. CASE v # w
    <3>1. subs'[v] = subs[v]
      BY <1>1, <2>2, <2>4
    <3> QED BY <2>2, <3>1 DEF SubInv
  <2> QED BY <2>3, <2>4
<1>5. CASE \E w \in Wanted : Unsubscribe(w)
  <2>1. PICK w \in Wanted : Unsubscribe(w)
    BY <1>5
  <2>2. subs' = [subs EXCEPT ![w] = NoSub] /\ sent' = sent /\ Told' = Told
    BY <2>1 DEF Unsubscribe, Told
  <2> SUFFICES ASSUME NEW v \in Wanted, subs'[v].on
               PROVE  Served(v, subs'[v].since, subs'[v].got, sent, Told)
    BY <2>2 DEF SubInv
  <2>3. v # w
    BY <1>1, <2>2 DEF NoSub
  <2>4. subs'[v] = subs[v]
    BY <1>1, <2>2, <2>3
  <2> QED BY <2>2, <2>4 DEF SubInv
<1>6. CASE Stop
  <2>1. subs' = [w \in Wanted |-> NoSub]
    BY <1>6 DEF Stop
  <2> QED BY <2>1 DEF SubInv, NoSub
<1>8. CASE Connect \/ StartMonitoring \/ Poll \/ Fetch \/ EndPoll \/ FetchError
  <2>1. monitor'.pc # "notify"
    BY <1>8, QuietPhase DEF TypeInv
  <2>2. monitor.pc # "notify" /\ UNCHANGED <<subs, sent>>
    BY <1>8 DEF Connect, StartMonitoring, Poll, Fetch, EndPoll, FetchError
  <2> QED BY <1>2, <2>1, <2>2
<1> QED BY <1>2, <1>3, <1>4, <1>5, <1>6, <1>7, <1>8 DEF Next, vars, Mine, Reorg, MonitorSteps,
        NewManager, StartProcessing, ManagerSteps, ReceiveEvent, Lag

\* A handler is called with every event its subscription is about, once each and
\* in the order of dispatch, from the moment it subscribes, whatever others
\* subscribe or cancel (event_matches_filter and the subscribe_to_* callbacks).
THEOREM SubscribersAreServed == Spec => []SubscribersGetTheirs
<1>1. Init => SubInv
  BY DEF Init, SubInv, NoSub
<1>2. TypeInv /\ SubInv /\ [Next]_vars => SubInv'
  BY SubInvStep
<1>3. SubInv => SubscribersGetTheirs
  BY DEF SubInv, Served, SubscribersGetTheirs
<1> QED BY <1>1, <1>2, <1>3, TypeInvariant, PTL DEF Spec

-----------------------------------------------------------------------------
(***************************************************************************)
(* Events of the blocks of a range                                         *)
(***************************************************************************)

\* block lies in es without a gap, and es has no other event of height h.
InPlace(es, block, h) ==
  \E n \in 0..(Len(es) - Len(block)) :
    /\ \A i \in DOMAIN es : es[i].block = h <=> i \in (n + 1)..(n + Len(block))
    /\ \A i \in DOMAIN block : es[n + i] = block[i]

\* es are the events of the blocks above lo and up to hi, but for those of skip.
Covers(es, c, lo, hi, skip) ==
  /\ es \in Seq(GoodEvent)
  /\ \A i, j \in DOMAIN es : i < j => es[i].block <= es[j].block
  /\ \A i \in DOMAIN es : es[i].block \in (lo + 1)..hi
  /\ \A h \in ((lo + 1)..hi) \ skip : InPlace(es, EventsOf(c[h], h), h)

LEMMA InPlaceLeft ==
  ASSUME NEW a \in Seq(GoodEvent), NEW b \in Seq(GoodEvent), NEW block, Len(block) \in Nat,
         DOMAIN block = 1..Len(block), NEW h,
         InPlace(a, block, h), \A i \in DOMAIN b : b[i].block # h
  PROVE  InPlace(a \o b, block, h)
<1> DEFINE all == a \o b
<1>1. /\ Len(a) \in Nat /\ Len(b) \in Nat /\ DOMAIN a = 1..Len(a) /\ DOMAIN b = 1..Len(b)
      /\ Len(all) = Len(a) + Len(b) /\ DOMAIN all = 1..(Len(a) + Len(b))
      /\ \A i \in 1..Len(a) : all[i] = a[i]
      /\ \A i \in 1..Len(b) : all[Len(a) + i] = b[i]
  BY Joined, LenProperties
<1>2. PICK n \in 0..(Len(a) - Len(block)) :
         /\ \A i \in DOMAIN a : a[i].block = h <=> i \in (n + 1)..(n + Len(block))
         /\ \A i \in DOMAIN block : a[n + i] = block[i]
  BY DEF InPlace
<1> HIDE DEF all
<1>3. n \in 0..(Len(all) - Len(block))
  BY <1>1, <1>2
<1>4. ASSUME NEW i \in DOMAIN all PROVE all[i].block = h <=> i \in (n + 1)..(n + Len(block))
  <2>1. CASE i \in 1..Len(a)
    BY <1>1, <1>2, <2>1
  <2>2. CASE i \notin 1..Len(a)
    <3>1. i - Len(a) \in 1..Len(b) /\ i = Len(a) + (i - Len(a))
      BY <1>1, <2>2
    <3>2. all[i] = b[i - Len(a)]
      BY <1>1, <3>1
    <3>3. all[i].block # h
      BY <1>1, <3>1, <3>2
    <3>4. i \notin (n + 1)..(n + Len(block))
      BY <1>1, <1>2, <2>2
    <3> QED BY <3>3, <3>4
  <2> QED BY <2>1, <2>2
<1>5. ASSUME NEW i \in DOMAIN block PROVE all[n + i] = block[i]
  <2>1. n + i \in 1..Len(a)
    BY <1>1, <1>2
  <2> QED BY <1>1, <1>2, <2>1
<1> QED BY <1>3, <1>4, <1>5 DEF InPlace, all

LEMMA InPlaceRight ==
  ASSUME NEW a \in Seq(GoodEvent), NEW b \in Seq(GoodEvent), NEW block, Len(block) \in Nat,
         DOMAIN block = 1..Len(block), NEW h,
         InPlace(b, block, h), \A i \in DOMAIN a : a[i].block # h
  PROVE  InPlace(a \o b, block, h)
<1> DEFINE all == a \o b
<1>1. /\ Len(a) \in Nat /\ Len(b) \in Nat /\ DOMAIN a = 1..Len(a) /\ DOMAIN b = 1..Len(b)
      /\ Len(all) = Len(a) + Len(b) /\ DOMAIN all = 1..(Len(a) + Len(b))
      /\ \A i \in 1..Len(a) : all[i] = a[i]
      /\ \A i \in 1..Len(b) : all[Len(a) + i] = b[i]
  BY Joined, LenProperties
<1>2. PICK m \in 0..(Len(b) - Len(block)) :
         /\ \A i \in DOMAIN b : b[i].block = h <=> i \in (m + 1)..(m + Len(block))
         /\ \A i \in DOMAIN block : b[m + i] = block[i]
  BY DEF InPlace
<1> DEFINE n == Len(a) + m
<1> HIDE DEF all
<1>3. n \in 0..(Len(all) - Len(block))
  BY <1>1, <1>2
<1>4. ASSUME NEW i \in DOMAIN all PROVE all[i].block = h <=> i \in (n + 1)..(n + Len(block))
  <2>1. CASE i \in 1..Len(a)
    <3>1. all[i].block # h
      BY <1>1, <2>1
    <3>2. i \notin (n + 1)..(n + Len(block))
      BY <1>1, <1>2, <2>1
    <3> QED BY <3>1, <3>2
  <2>2. CASE i \notin 1..Len(a)
    <3> DEFINE j == i - Len(a)
    <3>1. j \in 1..Len(b) /\ i = Len(a) + j
      BY <1>1, <2>2
    <3> HIDE DEF j
    <3>2. all[i] = b[j]
      BY <1>1, <3>1
    <3>3. b[j].block = h <=> j \in (m + 1)..(m + Len(block))
      BY <1>1, <1>2, <3>1
    <3>4. j \in (m + 1)..(m + Len(block)) <=> i \in (n + 1)..(n + Len(block))
      BY <1>1, <1>2, <3>1
    <3> QED BY <3>2, <3>3, <3>4
  <2> QED BY <2>1, <2>2
<1>5. ASSUME NEW i \in DOMAIN block PROVE all[n + i] = block[i]
  <2>1. m + i \in 1..Len(b) /\ n + i = Len(a) + (m + i)
    BY <1>1, <1>2
  <2> QED BY <1>1, <1>2, <2>1
<1> QED BY <1>3, <1>4, <1>5 DEF InPlace, all

\* Chains of any length up to the bound
GoodChain(c) == c \in Seq(Seq(GoodLog)) /\ Len(c) <= MaxHeight

LEMMA BlockOf ==
  ASSUME NEW c, GoodChain(c), NEW h \in 1..Len(c)
  PROVE  /\ h \in 1..MaxHeight /\ c[h] \in Seq(GoodLog)
         /\ EventsOf(c[h], h) \in Seq(EventsAt(h)) /\ EventsOf(c[h], h) \in Seq(GoodEvent)
<1>1. Len(c) \in Nat /\ h \in 1..MaxHeight
  BY LenProperties, Bounds DEF GoodChain
<1>2. c[h] \in Seq(GoodLog)
  BY <1>1, ElementOfSeq DEF GoodChain
<1>3. EventsOf(c[h], h) \in Seq(EventsAt(h))
  BY <1>1, <1>2, EventsOfType
<1>4. EventsAt(h) \subseteq GoodEvent
  BY DEF EventsAt
<1> QED BY <1>1, <1>2, <1>3, <1>4, SeqWidens

LEMMA CoversJoin ==
  ASSUME NEW c, GoodChain(c), NEW lo \in Nat, NEW mid \in Nat, NEW hi \in Nat, lo <= mid, mid <= hi,
         NEW skip, \A h \in 1..hi : h \in 1..Len(c) \/ h \in skip,
         NEW a, NEW b, Covers(a, c, lo, mid, skip), Covers(b, c, mid, hi, skip)
  PROVE  Covers(a \o b, c, lo, hi, skip)
<1> DEFINE all == a \o b
<1>0. a \in Seq(GoodEvent) /\ b \in Seq(GoodEvent)
  BY DEF Covers
<1>1. /\ Len(a) \in Nat /\ Len(b) \in Nat /\ DOMAIN a = 1..Len(a) /\ DOMAIN b = 1..Len(b)
      /\ all \in Seq(GoodEvent) /\ DOMAIN all = 1..(Len(a) + Len(b))
      /\ \A i \in 1..Len(a) : all[i] = a[i]
      /\ \A i \in 1..Len(b) : all[Len(a) + i] = b[i]
  BY <1>0, Joined, LenProperties
<1>2. /\ \A i, j \in DOMAIN a : i < j => a[i].block <= a[j].block
      /\ \A i \in DOMAIN a : a[i].block \in (lo + 1)..mid
  BY DEF Covers
<1>3. /\ \A i, j \in DOMAIN b : i < j => b[i].block <= b[j].block
      /\ \A i \in DOMAIN b : b[i].block \in (mid + 1)..hi
  BY DEF Covers
<1>4. \A i \in DOMAIN all : \/ i \in DOMAIN a /\ all[i] = a[i]
                            \/ i - Len(a) \in DOMAIN b /\ all[i] = b[i - Len(a)]
  <2> SUFFICES ASSUME NEW i \in DOMAIN all
               PROVE  \/ i \in DOMAIN a /\ all[i] = a[i]
                      \/ i - Len(a) \in DOMAIN b /\ all[i] = b[i - Len(a)]
    OBVIOUS
  <2> HIDE DEF all
  <2>1. i \in 1..Len(a) \/ (i - Len(a) \in 1..Len(b) /\ i = Len(a) + (i - Len(a)))
    BY <1>1
  <2> QED BY <1>1, <2>1
<1>5. ASSUME NEW i \in DOMAIN all, NEW j \in DOMAIN all, i < j PROVE all[i].block <= all[j].block
  <2> HIDE DEF all
  <2>0. i \in Int /\ j \in Int
    BY <1>1
  <2>1. CASE j \in DOMAIN a /\ all[j] = a[j]
    <3>1. i \in DOMAIN a /\ all[i] = a[i]
      BY <1>1, <1>5, <2>0, <2>1
    <3> QED BY <1>2, <1>5, <2>1, <3>1
  <2>2. CASE j - Len(a) \in DOMAIN b /\ all[j] = b[j - Len(a)]
    <3>1. CASE i \in DOMAIN a /\ all[i] = a[i]
      <4>1. a[i].block \in (lo + 1)..mid /\ b[j - Len(a)].block \in (mid + 1)..hi
        BY <1>2, <1>3, <2>2, <3>1
      <4> DEFINE x == a[i].block  y == b[j - Len(a)].block
      <4> HIDE DEF x, y
      <4>2. x \in (lo + 1)..mid /\ y \in (mid + 1)..hi => x <= y
        OBVIOUS
      <4> QED BY <2>2, <3>1, <4>1, <4>2 DEF x, y
    <3>2. CASE i - Len(a) \in DOMAIN b /\ all[i] = b[i - Len(a)]
      <4>1. i - Len(a) < j - Len(a)
        BY <1>1, <1>5, <2>0
      <4> QED BY <1>3, <2>2, <3>2, <4>1
    <3> QED BY <1>4, <3>1, <3>2
  <2> QED BY <1>4, <2>1, <2>2
<1>6. ASSUME NEW i \in DOMAIN all PROVE all[i].block \in (lo + 1)..hi
  <2> HIDE DEF all
  <2>1. \A x : x \in (lo + 1)..mid \/ x \in (mid + 1)..hi => x \in (lo + 1)..hi
    OBVIOUS
  <2> QED BY <1>2, <1>3, <1>4, <2>1
<1>7. ASSUME NEW h \in ((lo + 1)..hi) \ skip PROVE InPlace(all, EventsOf(c[h], h), h)
  <2> DEFINE block == EventsOf(c[h], h)
  <2>1. h \in 1..Len(c)
    BY <1>7
  <2>2. Len(block) \in Nat /\ DOMAIN block = 1..Len(block)
    BY <2>1, BlockOf, LenProperties
  <2>3. CASE h <= mid
    <3>1. InPlace(a, block, h)
      BY <1>7, <2>3 DEF Covers
    <3>2. \A i \in DOMAIN b : b[i].block # h
      BY <1>3, <2>3
    <3> HIDE DEF block
    <3>3. InPlace(a \o b, block, h)
      BY <1>0, <2>2, <3>1, <3>2, InPlaceLeft
    <3> QED BY <3>3 DEF block
  <2>4. CASE ~(h <= mid)
    <3>1. h \in ((mid + 1)..hi) \ skip
      BY <1>7, <2>4
    <3>2. InPlace(b, block, h)
      BY <3>1 DEF Covers
    <3>3. \A i \in DOMAIN a : a[i].block # h
      BY <1>2, <2>4
    <3> HIDE DEF block
    <3>4. InPlace(a \o b, block, h)
      BY <1>0, <2>2, <3>2, <3>3, InPlaceRight
    <3> QED BY <3>4 DEF block
  <2> QED BY <2>3, <2>4
<1> HIDE DEF all
<1>8. Covers(all, c, lo, hi, skip)
  BY <1>1, <1>5, <1>6, <1>7 DEF Covers
<1> QED BY <1>8 DEF all

LEMMA CoversNothing ==
  ASSUME NEW c, NEW lo \in Nat, NEW skip
  PROVE  Covers(<<>>, c, lo, lo, skip)
<1>1. <<>> \in Seq(GoodEvent) /\ DOMAIN <<>> = {} /\ (lo + 1)..lo = {}
  OBVIOUS
<1> QED BY <1>1 DEF Covers

LEMMA CoversBlock ==
  ASSUME NEW c, GoodChain(c), NEW h \in 1..Len(c), NEW skip
  PROVE  Covers(EventsOf(c[h], h), c, h - 1, h, skip)
<1> DEFINE es == EventsOf(c[h], h)
<1>0. es \in Seq(EventsAt(h)) /\ es \in Seq(GoodEvent) /\ h \in 1..MaxHeight
  BY BlockOf
<1>1. Len(es) \in Nat /\ DOMAIN es = 1..Len(es)
  BY <1>0, LenProperties
<1>2. \A i \in DOMAIN es : es[i].block = h
  <2>1. \A i \in DOMAIN es : es[i] \in EventsAt(h)
    BY <1>0, <1>1, ElementOfSeq
  <2> QED BY <2>1 DEF EventsAt
<1>3. h \in Nat /\ ((h - 1) + 1)..h = {h}
  BY Bounds, <1>0
<1> HIDE DEF es
<1>4. InPlace(es, es, h)
  <2>1. 0 \in 0..(Len(es) - Len(es))
    BY <1>1
  <2>2. \A i \in DOMAIN es : es[i].block = h <=> i \in (0 + 1)..(0 + Len(es))
    BY <1>1, <1>2
  <2>3. \A i \in DOMAIN es : es[0 + i] = es[i]
    BY <1>1
  <2> QED BY <2>1, <2>2, <2>3 DEF InPlace
<1>5. \A k \in (((h - 1) + 1)..h) \ skip : InPlace(es, EventsOf(c[k], k), k)
  BY <1>3, <1>4 DEF es
<1>6. \A i \in DOMAIN es : es[i].block \in ((h - 1) + 1)..h
  BY <1>2, <1>3
<1>7. \A i, j \in DOMAIN es : i < j => es[i].block <= es[j].block
  BY <1>2, <1>3
<1>8. Covers(es, c, h - 1, h, skip)
  BY <1>0, <1>5, <1>6, <1>7 DEF Covers
<1> QED BY <1>8 DEF es

\* Blocks that are skipped leave nothing.
LEMMA CoversGap ==
  ASSUME NEW c, NEW lo \in Nat, NEW mid \in Nat, NEW hi \in Nat, mid <= hi, NEW skip,
         (mid + 1)..hi \subseteq skip, NEW es, Covers(es, c, lo, mid, skip)
  PROVE  Covers(es, c, lo, hi, skip)
<1>1. (lo + 1)..mid \subseteq (lo + 1)..hi
  OBVIOUS
<1>2. ((lo + 1)..hi) \ skip \subseteq ((lo + 1)..mid) \ skip
  OBVIOUS
<1> QED BY <1>1, <1>2 DEF Covers

\* Another chain with the same blocks where it matters
LEMMA CoversSame ==
  ASSUME NEW c, NEW d, NEW lo, NEW hi, NEW skip, NEW more, skip \subseteq more,
         \A h \in ((lo + 1)..hi) \ more : c[h] = d[h], NEW es, Covers(es, c, lo, hi, skip)
  PROVE  Covers(es, d, lo, hi, more)
<1>1. \A h \in ((lo + 1)..hi) \ more : InPlace(es, EventsOf(c[h], h), h)
  BY DEF Covers
<1>2. \A h \in ((lo + 1)..hi) \ more : InPlace(es, EventsOf(d[h], h), h)
  BY <1>1
<1> QED BY <1>2 DEF Covers

LEMMA RangeIsCovered ==
  ASSUME GoodChain(chain), NEW from \in Nat \ {0}, NEW to \in Nat, from <= to, NEW skip,
         \A h \in 1..to : h \in 1..Len(chain) \/ h \in skip
  PROVE  Covers(EventsInRange(from, to), chain, from - 1, to, skip)
<1> DEFINE top == Min({to, Len(chain)})
           n == top - from + 1
           ss == [i \in 1..n |-> EventsOfBlock(from + i - 1)]
<1>0. Len(chain) \in Nat
  BY LenProperties DEF GoodChain
<1>1. top = IF to <= Len(chain) THEN to ELSE Len(chain)
  BY <1>0, MinIs
<1>2. top \in Nat /\ top <= to /\ top <= Len(chain)
  BY <1>0, <1>1
<1>3. \A h \in (top + 1)..to : h \in skip
  BY <1>0, <1>1
<1>4. EventsInRange(from, to) = FlattenSeq(ss)
  BY DEF EventsInRange
<1> HIDE DEF top
<1>5. CASE n <= 0
  <2>1. 1..n = {} /\ from - 1 \in Nat /\ from - 1 <= to
    BY <1>2, <1>5
  <2>2. ss = <<>>
    BY <2>1
  <2> HIDE DEF ss, n
  <2>3. EventsInRange(from, to) = <<>>
    BY <1>4, <2>2 DEF FlattenSeq
  <2>4. Covers(<<>>, chain, from - 1, from - 1, skip)
    BY <2>1, CoversNothing
  <2>5. ((from - 1) + 1)..to \subseteq skip
    <3>1. top <= from - 1
      BY <1>2, <1>5 DEF n
    <3> QED BY <1>2, <1>3, <3>1
  <2> QED BY <2>1, <2>3, <2>4, <2>5, CoversGap
<1>6. CASE ~(n <= 0)
  <2>1. n \in Nat \ {0} /\ Len(ss) = n
    BY <1>2, <1>6
  <2>2. PICK g : /\ FlattenSeq(ss) = g[n] /\ g[1] = ss[1]
                 /\ \A i \in 2..n : g[i] = g[i-1] \o ss[i]
    <3> HIDE DEF ss, n
    <3> QED BY <2>1, FlattenIs
  <2>3. \A i \in 1..n : from + i - 1 \in 1..Len(chain)
    BY <1>0, <1>2
  <2>4. ASSUME NEW i \in 1..n
        PROVE  Covers(ss[i], chain, (from + i - 1) - 1, from + i - 1, skip)
    <3> DEFINE h == from + i - 1
    <3>1. h \in 1..Len(chain)
      BY <2>3
    <3>2. ss[i] = EventsOfBlock(h)
      OBVIOUS
    <3> HIDE DEF h, ss
    <3>3. EventsOfBlock(h) = EventsOf(chain[h], h)
      BY <3>1, BlockOf, EventsOfBlockType
    <3>4. Covers(ss[i], chain, h - 1, h, skip)
      BY <3>1, <3>2, <3>3, CoversBlock
    <3> QED BY <3>4 DEF h
  <2> HIDE DEF ss
  <2> DEFINE Bad == {i \in 1..n : ~Covers(g[i], chain, from - 1, from + i - 1, skip)}
  <2>5. Bad = {}
    <3>1. SUFFICES ASSUME Bad # {} PROVE FALSE
      OBVIOUS
    <3>2. Bad \subseteq Nat
      BY <2>1
    <3>3. PICK i \in Bad : \A j \in Bad : i <= j
      <4> HIDE DEF Bad
      <4> QED BY <3>1, <3>2, LeastNumber
    <3>4. i \in 1..n /\ ~Covers(g[i], chain, from - 1, from + i - 1, skip)
      BY <3>3
    <3>5. CASE i = 1
      <4>1. (from + i - 1) - 1 = from - 1
        BY <3>5
      <4>2. Covers(ss[i], chain, from - 1, from + i - 1, skip)
        BY <2>4, <3>4, <4>1
      <4> QED BY <2>2, <3>4, <3>5, <4>2
    <3>6. CASE i # 1
      <4>1. i \in 2..n /\ i - 1 \in 1..n
        BY <2>1, <3>4, <3>6
      <4>2. i - 1 \notin Bad
        <5>1. ~(i <= i - 1)
          BY <2>1, <3>4
        <5> QED BY <3>3, <5>1
      <4> DEFINE mid == from + (i - 1) - 1
                 hi == from + i - 1
      <4>3. mid \in Nat /\ hi \in Nat /\ from - 1 \in Nat /\ from - 1 <= mid /\ mid <= hi /\ hi <= Len(chain)
            /\ mid = (from + i - 1) - 1
        BY <2>1, <2>3, <3>4, <4>1
      <4>4. Covers(g[i-1], chain, from - 1, mid, skip)
        BY <4>1, <4>2
      <4>5. Covers(ss[i], chain, mid, hi, skip)
        BY <2>4, <3>4, <4>3
      <4>6. \A h \in 1..hi : h \in 1..Len(chain) \/ h \in skip
        BY <1>0, <4>3
      <4> HIDE DEF mid, hi, Bad
      <4>7. Covers(g[i-1] \o ss[i], chain, from - 1, hi, skip)
        BY <4>3, <4>4, <4>5, <4>6, CoversJoin
      <4> QED BY <2>2, <3>4, <4>1, <4>7 DEF hi
    <3> QED BY <3>5, <3>6
  <2>6. Covers(g[n], chain, from - 1, from + n - 1, skip)
    BY <2>1, <2>5
  <2>7. from + n - 1 = top
    BY <1>2
  <2>8. from - 1 \in Nat /\ (top + 1)..to \subseteq skip
    BY <1>3
  <2> QED BY <1>2, <1>4, <2>2, <2>6, <2>7, <2>8, CoversGap
<1> QED BY <1>2, <1>5, <1>6

-----------------------------------------------------------------------------
(***************************************************************************)
(* What is dispatched is the chain                                         *)
(***************************************************************************)

\* The height up to which the loop has looked at the chain
Seen == IF monitor.pc \in {"fetch", "dispatch", "notify"} THEN monitor.to ELSE lastBlock

PlaceInv ==
  /\ monitor.pc \in {"down", "off"} => sent = <<>> /\ lastBlock = 0 /\ origin = 0
  /\ monitor.pc \notin {"dispatch", "notify"} => monitor.queue = <<>>
  /\ monitor.pc \in {"fetch", "dispatch", "notify"} => lastBlock < monitor.to
  /\ origin <= lastBlock
  /\ \A h \in 1..Seen : h \in 1..Len(chain) \/ h \in replaced

DispatchInv == Covers(All, chain, origin, Done, replaced)

LEMMA LoopTypes ==
  ASSUME TypeInv
  PROVE  /\ GoodChain(chain) /\ Len(chain) \in 0..MaxHeight /\ chain \in Seq(Seq(GoodLog))
         /\ monitor.pc \in Phases /\ monitor.to \in 0..MaxHeight /\ monitor.queue \in Seq(GoodEvent)
         /\ lastBlock \in 0..MaxHeight /\ origin \in 0..MaxHeight /\ sent \in Seq(GoodEvent)
<1>1. Len(chain) \in Nat
  BY LenProperties DEF TypeInv, ChainInv
<1> QED BY <1>1, Bounds DEF TypeInv, ChainInv, LoopInv, MonitorType, GoodChain

LEMMA AllOfNone ==
  ASSUME sent \in Seq(GoodEvent), monitor.queue = <<>>
  PROVE  All = sent
BY DEF All

LEMMA PlaceStep ==
  ASSUME TypeInv, PlaceInv, [Next]_vars
  PROVE  PlaceInv'
<1>0. /\ Len(chain) \in 0..MaxHeight /\ chain \in Seq(Seq(GoodLog)) /\ monitor.pc \in Phases /\ monitor.to \in 0..MaxHeight
      /\ lastBlock \in 0..MaxHeight /\ origin \in 0..MaxHeight /\ MaxHeight \in Nat
  BY LoopTypes, Bounds
<1>s. Seen \in 0..MaxHeight
  BY <1>0 DEF Seen
<1>p. /\ monitor.pc \in {"down", "off"} => sent = <<>> /\ lastBlock = 0 /\ origin = 0
      /\ monitor.pc \notin {"dispatch", "notify"} => monitor.queue = <<>>
      /\ monitor.pc \in {"fetch", "dispatch", "notify"} => lastBlock < monitor.to
      /\ origin <= lastBlock
      /\ \A h \in 1..Seen : h \in 1..Len(chain) \/ h \in replaced
  BY DEF PlaceInv
<1>m. monitor \in MonitorType
  BY DEF TypeInv, LoopInv
<1>1. CASE UNCHANGED <<chain, replaced, monitor, lastBlock, origin, sent>>
  BY <1>1 DEF PlaceInv, Seen
<1>2. CASE \E calls \in Blocks : Mine(calls)
  <2>1. PICK calls \in Blocks : Mine(calls)
    BY <1>2
  <2>2. PICK logs : chain' = Append(chain, logs) /\ logs \in Seq(GoodLog)
    BY <2>1, BlocksSay DEF Mine
  <2>3. Len(chain') = Len(chain) + 1
    BY <1>0, <2>2
  <2>4. UNCHANGED <<replaced, monitor, lastBlock, origin, sent>> /\ Seen' = Seen
    BY <2>1 DEF Mine, Seen
  <2>5. \A h \in 1..Seen' : h \in 1..Len(chain') \/ h \in replaced'
    BY <1>0, <1>p, <2>3, <2>4
  <2> QED BY <1>p, <2>4, <2>5 DEF PlaceInv
<1>3. CASE Reorg
  <2>1. chain # <<>> /\ chain' = SubSeq(chain, 1, Len(chain) - 1) /\ replaced' = replaced \cup {Len(chain)}
        /\ UNCHANGED <<monitor, lastBlock, origin, sent>>
    BY <1>3 DEF Reorg, Front
  <2>2. Len(chain') = Len(chain) - 1
    <3>1. Len(chain) # 0
      BY <1>0, <2>1, EmptySeq
    <3> DEFINE n == Len(chain) - 1
    <3>2. n \in Nat /\ \A i \in 1..n : i \in 1..Len(chain)
      BY <1>0, <3>1
    <3>3. chain' = SubSeq(chain, 1, n)
      BY <2>1
    <3> HIDE DEF n
    <3>4. Len(chain') = n
      BY <1>0, <3>2, <3>3, SubSeqProperties
    <3> QED BY <3>4 DEF n
  <2>3. Seen' = Seen
    BY <2>1 DEF Seen
  <2>4. \A h \in 1..Seen' : h \in 1..Len(chain') \/ h \in replaced'
    BY <1>0, <1>p, <2>1, <2>2, <2>3
  <2> QED BY <1>p, <2>1, <2>4 DEF PlaceInv
<1>4. CASE Connect
  <2>1. monitor.pc = "down" /\ monitor'.pc = "off" /\ monitor'.queue = <<>> /\ Seen' = lastBlock /\ Seen = lastBlock
        /\ UNCHANGED <<chain, replaced, lastBlock, origin, sent>>
    BY <1>4 DEF Connect, At, Seen
  <2> QED BY <1>p, <2>1 DEF PlaceInv
<1>5. CASE StartMonitoring
  <2>1. monitor.pc = "off" /\ monitor'.pc = "idle" /\ monitor'.queue = <<>> /\ Seen' = lastBlock'
        /\ lastBlock' = Len(chain) /\ origin' = lastBlock' /\ UNCHANGED <<chain, replaced, sent>>
    BY <1>p, <1>5 DEF StartMonitoring, At, Seen
  <2>2. \A h \in 1..Seen' : h \in 1..Len(chain') \/ h \in replaced'
    BY <2>1
  <2> QED BY <1>0, <2>1, <2>2 DEF PlaceInv
<1>6. CASE Poll
  <2> DEFINE to == Min({Len(chain), lastBlock + MaxBlocksPerQuery})
  <2>1. to = IF Len(chain) <= lastBlock + MaxBlocksPerQuery THEN Len(chain) ELSE lastBlock + MaxBlocksPerQuery
    BY <1>0, MinIs, Bounds
  <2>2. monitor' = [pc |-> "fetch", to |-> to, queue |-> <<>>] /\ monitor.pc = "idle" /\ Len(chain) > lastBlock
        /\ UNCHANGED <<chain, replaced, lastBlock, origin, sent>>
    BY <1>6 DEF Poll
  <2> HIDE DEF to
  <2>3. lastBlock < to /\ to <= Len(chain) /\ to \in Nat
    BY <1>0, <2>1, <2>2, Bounds
  <2>4. Seen' = to
    BY <2>2 DEF Seen
  <2>5. \A h \in 1..Seen' : h \in 1..Len(chain') \/ h \in replaced'
    BY <1>0, <2>2, <2>3, <2>4
  <2> QED BY <1>p, <2>2, <2>3, <2>5 DEF PlaceInv
<1>7. CASE Fetch
  <2>1. monitor.pc = "fetch" /\ monitor'.pc = "dispatch" /\ monitor'.to = monitor.to
        /\ UNCHANGED <<chain, replaced, lastBlock, origin, sent>>
    BY <1>m, <1>7 DEF Fetch, MonitorType
  <2>2. Seen' = Seen
    BY <2>1 DEF Seen
  <2> QED BY <1>p, <2>1, <2>2 DEF PlaceInv
<1>8. CASE Broadcast \/ Notify
  <2>1. monitor.pc \in {"dispatch", "notify"} /\ monitor'.pc \in {"dispatch", "notify"} /\ monitor'.to = monitor.to
        /\ UNCHANGED <<chain, replaced, lastBlock, origin>>
    BY <1>m, <1>8 DEF Broadcast, Notify, MonitorType
  <2>2. Seen' = Seen
    BY <2>1 DEF Seen
  <2> QED BY <1>p, <2>1, <2>2 DEF PlaceInv
<1>9. CASE EndPoll
  <2>1. monitor.pc = "dispatch" /\ monitor'.pc = "idle" /\ monitor'.queue = <<>> /\ lastBlock' = monitor.to
        /\ UNCHANGED <<chain, replaced, origin, sent>>
    BY <1>9 DEF EndPoll, At
  <2>2. Seen' = Seen /\ origin' <= lastBlock'
    BY <1>0, <1>p, <2>1 DEF Seen
  <2> QED BY <1>p, <2>1, <2>2 DEF PlaceInv
<1>10. CASE FetchError
  <2>1. monitor.pc = "fetch" /\ monitor'.pc = "idle" /\ monitor'.queue = <<>>
        /\ UNCHANGED <<chain, replaced, lastBlock, origin, sent>>
    BY <1>10 DEF FetchError, At
  <2>2. Seen' = lastBlock /\ Seen = monitor.to
    BY <2>1 DEF Seen
  <2>3. \A h \in 1..Seen' : h \in 1..Len(chain') \/ h \in replaced'
    BY <1>0, <1>p, <2>1, <2>2
  <2> QED BY <1>p, <2>1, <2>3 DEF PlaceInv
<1>11. CASE Stop
  <2>1. monitor'.pc = "down" /\ monitor'.queue = <<>> /\ lastBlock' = 0 /\ origin' = 0 /\ sent' = <<>>
    BY <1>11 DEF Stop, Down
  <2>2. Seen' = 0
    BY <2>1 DEF Seen
  <2>3. \A h \in 1..Seen' : FALSE
    BY <2>2
  <2> QED BY <2>1, <2>3 DEF PlaceInv
<1> QED BY <1>1, <1>2, <1>3, <1>4, <1>5, <1>6, <1>7, <1>8, <1>9, <1>10, <1>11 DEF Next, vars, MonitorSteps,
        Subscribe, Unsubscribe, NewManager, StartProcessing, ManagerSteps, ReceiveEvent, Lag

\* Taking the first of q to the end of s leaves the whole as it is.
LEMMA MoveOne ==
  ASSUME NEW S, NEW s \in Seq(S), NEW q \in Seq(S), q # <<>>
  PROVE  Append(s, Head(q)) \o Tail(q) = s \o q
<1>1. Len(s) \in Nat /\ Len(q) \in Nat /\ Len(q) # 0
  BY LenProperties, EmptySeq
<1> DEFINE a == Append(s, Head(q))
           b == Tail(q)
<1>2. Head(q) = q[1] /\ Head(q) \in S
  BY <1>1
<1>3. b \in Seq(S) /\ Len(b) = Len(q) - 1 /\ \A i \in 1..(Len(q) - 1) : b[i] = q[i + 1]
  BY <1>1
<1>4. a \in Seq(S) /\ Len(a) = Len(s) + 1 /\ a[Len(s) + 1] = q[1] /\ \A i \in 1..Len(s) : a[i] = s[i]
  BY <1>1, <1>2, AppendIs
<1> HIDE DEF a, b
<1>5. /\ a \o b \in Seq(S) /\ s \o q \in Seq(S)
      /\ Len(a \o b) = Len(s) + Len(q) /\ Len(s \o q) = Len(s) + Len(q)
  <2>1. a \o b \in Seq(S) /\ Len(a \o b) = Len(a) + Len(b)
    BY <1>3, <1>4, Joined
  <2>2. s \o q \in Seq(S) /\ Len(s \o q) = Len(s) + Len(q)
    BY Joined
  <2>3. Len(a) + Len(b) = Len(s) + Len(q)
    BY <1>1, <1>3, <1>4
  <2> QED BY <2>1, <2>2, <2>3
<1>6. ASSUME NEW i \in 1..(Len(s) + Len(q)) PROVE (a \o b)[i] = (s \o q)[i]
  <2>1. CASE i <= Len(s)
    <3>1. i \in 1..Len(s) /\ i \in 1..Len(a)
      BY <1>1, <1>4, <2>1
    <3>2. (a \o b)[i] = a[i] /\ (s \o q)[i] = s[i]
      BY <1>3, <1>4, <3>1, Joined
    <3> QED BY <1>4, <3>1, <3>2
  <2>2. CASE i = Len(s) + 1
    <3>1. i \in 1..Len(a) /\ 1 \in 1..Len(q)
      BY <1>1, <1>4, <2>2
    <3>2. (a \o b)[i] = a[i] /\ (s \o q)[Len(s) + 1] = q[1]
      BY <1>3, <1>4, <3>1, Joined
    <3> QED BY <1>4, <2>2, <3>2
  <2>3. CASE i > Len(s) + 1
    <3> DEFINE k == i - Len(s)
    <3>1. k \in 1..Len(q) /\ i = Len(s) + k /\ k - 1 \in 1..Len(b) /\ i = Len(a) + (k - 1)
          /\ k - 1 \in 1..(Len(q) - 1) /\ (k - 1) + 1 = k
      BY <1>1, <1>3, <1>4, <2>3
    <3> HIDE DEF k
    <3>2. (a \o b)[i] = b[k - 1] /\ (s \o q)[i] = q[k]
      BY <1>3, <1>4, <3>1, Joined
    <3>3. b[k - 1] = q[k]
      BY <1>3, <3>1
    <3> QED BY <3>2, <3>3
  <2>4. i \in Int /\ Len(s) \in Int
    BY <1>1
  <2>5. i <= Len(s) \/ i = Len(s) + 1 \/ i > Len(s) + 1
    BY <2>4
  <2> QED BY <2>1, <2>2, <2>3, <2>5
<1>7. a \o b = s \o q
  BY <1>5, <1>6, SeqEqual
<1> QED BY <1>7 DEF a, b

LEMMA DispatchStep ==
  ASSUME TypeInv, TypeInv', PlaceInv, PlaceInv', DispatchInv, [Next]_vars
  PROVE  DispatchInv'
<1>0. /\ GoodChain(chain) /\ Len(chain) \in 0..MaxHeight /\ chain \in Seq(Seq(GoodLog))
      /\ monitor.pc \in Phases /\ monitor.to \in 0..MaxHeight /\ monitor.queue \in Seq(GoodEvent)
      /\ lastBlock \in 0..MaxHeight /\ origin \in 0..MaxHeight /\ sent \in Seq(GoodEvent) /\ MaxHeight \in Nat
  BY LoopTypes, Bounds
<1>p. /\ monitor.pc \in {"down", "off"} => sent = <<>> /\ lastBlock = 0 /\ origin = 0
      /\ monitor.pc \notin {"dispatch", "notify"} => monitor.queue = <<>>
      /\ monitor.pc \in {"fetch", "dispatch", "notify"} => lastBlock < monitor.to
      /\ origin <= lastBlock
      /\ \A h \in 1..Seen : h \in 1..Len(chain) \/ h \in replaced
  BY DEF PlaceInv
<1>c. Covers(All, chain, origin, Done, replaced)
  BY DEF DispatchInv
<1>m. monitor \in MonitorType
  BY DEF TypeInv, LoopInv
<1>d. Done \in 0..MaxHeight /\ Done <= Seen /\ Seen \in 0..MaxHeight
  BY <1>0, <1>p DEF Done, Seen
<1>1. CASE UNCHANGED <<chain, replaced, monitor, lastBlock, origin, sent>>
  <2>1. All' = All /\ Done' = Done
    BY <1>1 DEF All, Done
  <2> QED BY <1>1, <1>c, <2>1 DEF DispatchInv
<1>2. CASE \E calls \in Blocks : Mine(calls)
  <2>1. PICK calls \in Blocks : Mine(calls)
    BY <1>2
  <2>2. PICK logs : chain' = Append(chain, logs) /\ logs \in Seq(GoodLog)
    BY <2>1, BlocksSay DEF Mine
  <2>3. UNCHANGED <<replaced, monitor, lastBlock, origin, sent>> /\ All' = All /\ Done' = Done
    BY <2>1 DEF Mine, All, Done
  <2>4. \A h \in ((origin + 1)..Done) \ replaced : chain[h] = chain'[h]
    <3> SUFFICES ASSUME NEW h \in ((origin + 1)..Done) \ replaced PROVE chain[h] = chain'[h]
      OBVIOUS
    <3>1. h \in 1..Seen
      BY <1>0, <1>d
    <3>2. h \in 1..Len(chain)
      BY <1>p, <3>1
    <3> QED BY <1>0, <2>2, <3>2
  <2>5. Covers(All, chain', origin, Done, replaced)
    BY <1>c, <2>4, CoversSame
  <2> QED BY <2>3, <2>5 DEF DispatchInv
<1>3. CASE Reorg
  <2>1. chain # <<>> /\ chain' = SubSeq(chain, 1, Len(chain) - 1) /\ replaced' = replaced \cup {Len(chain)}
        /\ UNCHANGED <<monitor, lastBlock, origin, sent>> /\ All' = All /\ Done' = Done
    BY <1>3 DEF Reorg, Front, All, Done
  <2>2. \A h \in ((origin + 1)..Done) \ replaced' : chain[h] = chain'[h]
    <3> SUFFICES ASSUME NEW h \in ((origin + 1)..Done) \ replaced' PROVE chain[h] = chain'[h]
      OBVIOUS
    <3>1. h \in 1..Seen
      BY <1>0, <1>d
    <3>2. h \in 1..Len(chain) /\ h # Len(chain)
      BY <1>p, <2>1, <3>1
    <3>3. h \in 1..(Len(chain) - 1)
      BY <1>0, <3>2
    <3> QED BY <1>0, <2>1, <3>3
  <2>3. replaced \subseteq replaced'
    BY <2>1
  <2>4. Covers(All, chain', origin, Done, replaced')
    BY <1>c, <2>2, <2>3, CoversSame
  <2> QED BY <2>1, <2>4 DEF DispatchInv
<1>4. CASE Connect
  <2>1. monitor.pc = "down" /\ monitor'.pc = "off" /\ monitor'.queue = <<>>
        /\ UNCHANGED <<chain, replaced, lastBlock, origin, sent>>
    BY <1>4 DEF Connect, At
  <2>2. monitor.queue = <<>>
    BY <1>p, <2>1
  <2>3. All' = All /\ Done' = Done
    BY <2>1, <2>2 DEF All, Done
  <2> QED BY <1>c, <2>1, <2>3 DEF DispatchInv
<1>5. CASE StartMonitoring
  <2>1. monitor.pc = "off" /\ monitor'.pc = "idle" /\ monitor'.queue = <<>>
        /\ origin' = lastBlock' /\ UNCHANGED <<chain, replaced, sent>>
    BY <1>5 DEF StartMonitoring, At
  <2>2. sent' = <<>> /\ Done' = origin'
    BY <1>p, <2>1 DEF Done
  <2>3. All' = <<>>
    BY <2>1, <2>2 DEF All
  <2>4. origin' \in Nat
    BY <1>0, <1>5 DEF StartMonitoring
  <2> QED BY <2>2, <2>3, <2>4, CoversNothing DEF DispatchInv
<1>6. CASE Poll \/ FetchError
  <2>1. monitor.pc \in {"idle", "fetch"} /\ monitor'.pc \in {"idle", "fetch"} /\ monitor'.queue = <<>>
        /\ UNCHANGED <<chain, replaced, lastBlock, origin, sent>>
    BY <1>6 DEF Poll, FetchError, At
  <2>2. monitor.queue = <<>>
    BY <1>p, <2>1
  <2>3. All' = All /\ Done' = Done
    BY <2>1, <2>2 DEF All, Done
  <2> QED BY <1>c, <2>1, <2>3 DEF DispatchInv
<1>7. CASE Fetch
  <2> DEFINE es == EventsInRange(lastBlock + 1, monitor.to)
  <2>1. monitor.pc = "fetch" /\ monitor'.pc = "dispatch" /\ monitor'.to = monitor.to /\ monitor'.queue = es
        /\ UNCHANGED <<chain, replaced, lastBlock, origin, sent>>
    BY <1>m, <1>7 DEF Fetch, MonitorType
  <2>2. All = sent /\ Done = lastBlock /\ Seen = monitor.to /\ lastBlock < monitor.to
    BY <1>0, <1>p, <2>1, AllOfNone DEF Done, Seen
  <2>3. Covers(es, chain, (lastBlock + 1) - 1, monitor.to, replaced)
    <3>1. lastBlock + 1 \in Nat \ {0} /\ monitor.to \in Nat /\ lastBlock + 1 <= monitor.to
      BY <1>0, <2>2
    <3>2. \A h \in 1..monitor.to : h \in 1..Len(chain) \/ h \in replaced
      BY <1>p, <2>2
    <3> QED BY <1>0, <3>1, <3>2, RangeIsCovered
  <2>4. (lastBlock + 1) - 1 = lastBlock
    BY <1>0
  <2> HIDE DEF es
  <2>5. Covers(sent \o es, chain, origin, monitor.to, replaced)
    <3>1. origin \in Nat /\ lastBlock \in Nat /\ monitor.to \in Nat /\ origin <= lastBlock /\ lastBlock <= monitor.to
      BY <1>0, <1>p, <2>2
    <3>2. Covers(sent, chain, origin, lastBlock, replaced)
      BY <1>c, <2>2
    <3>3. Covers(es, chain, lastBlock, monitor.to, replaced)
      BY <2>3, <2>4
    <3>4. \A h \in 1..monitor.to : h \in 1..Len(chain) \/ h \in replaced
      BY <1>p, <2>2
    <3> QED BY <1>0, <3>1, <3>2, <3>3, <3>4, CoversJoin
  <2>6. All' = sent \o es /\ Done' = monitor.to
    BY <2>1 DEF All, Done
  <2> QED BY <2>1, <2>5, <2>6 DEF DispatchInv
<1>8. CASE Broadcast
  <2>1. monitor.pc = "dispatch" /\ monitor'.pc = "notify" /\ monitor'.to = monitor.to /\ monitor.queue # <<>>
        /\ monitor'.queue = Tail(monitor.queue) /\ sent' = Append(sent, Head(monitor.queue))
        /\ UNCHANGED <<chain, replaced, lastBlock, origin>>
    BY <1>m, <1>8 DEF Broadcast, MonitorType
  <2>2. sent' \o monitor'.queue = sent \o monitor.queue
    BY <1>0, <2>1, MoveOne
  <2>3. All' = All /\ Done' = Done
    BY <2>1, <2>2 DEF All, Done
  <2> QED BY <1>c, <2>1, <2>3 DEF DispatchInv
<1>11. CASE Notify
  <2>1. monitor.pc = "notify" /\ monitor'.pc = "dispatch" /\ monitor'.to = monitor.to /\ monitor'.queue = monitor.queue
        /\ UNCHANGED <<chain, replaced, lastBlock, origin, sent>>
    BY <1>m, <1>11 DEF Notify, MonitorType
  <2>2. All' = All /\ Done' = Done
    BY <2>1 DEF All, Done
  <2> QED BY <1>c, <2>1, <2>2 DEF DispatchInv
<1>9. CASE EndPoll
  <2>1. monitor.pc = "dispatch" /\ monitor.queue = <<>> /\ monitor'.pc = "idle" /\ monitor'.queue = <<>>
        /\ lastBlock' = monitor.to /\ UNCHANGED <<chain, replaced, origin, sent>>
    BY <1>9 DEF EndPoll, At
  <2>2. All' = All /\ Done' = Done
    BY <2>1 DEF All, Done
  <2> QED BY <1>c, <2>1, <2>2 DEF DispatchInv
<1>10. CASE Stop
  <2>1. monitor'.pc = "down" /\ monitor'.queue = <<>> /\ lastBlock' = 0 /\ origin' = 0 /\ sent' = <<>>
    BY <1>10 DEF Stop, Down
  <2>2. All' = <<>> /\ Done' = 0
    BY <2>1 DEF All, Done
  <2> QED BY <2>1, <2>2, CoversNothing DEF DispatchInv
<1> QED BY <1>1, <1>2, <1>3, <1>4, <1>5, <1>6, <1>7, <1>8, <1>9, <1>10, <1>11 DEF Next, vars, MonitorSteps,
        Subscribe, Unsubscribe, NewManager, StartProcessing, ManagerSteps, ReceiveEvent, Lag

LEMMA CoversIsTheChain ==
  ASSUME TypeInv, PlaceInv, DispatchInv
  PROVE  DispatchIsTheChain
<1>1. /\ \A i, j \in DOMAIN All : i < j => All[i].block <= All[j].block
      /\ \A i \in DOMAIN All : All[i].block \in (origin + 1)..Done
      /\ \A h \in ((origin + 1)..Done) \ replaced : InPlace(All, EventsOf(chain[h], h), h)
  BY DEF DispatchInv, Covers
<1>2. \A h : EventsOfBlock(h) = EventsOf(chain[h], h)
  BY DEF EventsOfBlock, EventsOf
<1>3. ASSUME NEW h \in ((origin + 1)..Done) \ replaced PROVE Holds(All, h)
  <2>1. InPlace(All, EventsOfBlock(h), h)
    BY <1>1, <1>2
  <2> QED BY <2>1 DEF InPlace, Holds
<1> QED BY <1>1, <1>3 DEF DispatchIsTheChain

\* A process dispatches the events of the blocks since its start, once each and in
\* order, however its queries fail and split the range: only the blocks that were
\* taken back are different (process_new_events, fetch_events_in_range).
THEOREM DispatchFollowsChain == Spec => []DispatchIsTheChain
<1>1. Init => PlaceInv /\ DispatchInv
  <2> SUFFICES ASSUME Init PROVE PlaceInv /\ DispatchInv
    OBVIOUS
  <2>1. monitor.pc = "down" /\ monitor.queue = <<>> /\ sent = <<>> /\ lastBlock = 0 /\ origin = 0
    BY DEF Init, Down
  <2>2. Seen = 0 /\ Done = 0 /\ All = <<>>
    BY <2>1 DEF Seen, Done, All
  <2>3. \A h \in 1..Seen : FALSE
    BY <2>2
  <2>4. PlaceInv
    BY <2>1, <2>3 DEF PlaceInv
  <2> QED BY <2>1, <2>2, <2>4, CoversNothing DEF DispatchInv
<1>2. TypeInv /\ PlaceInv /\ [Next]_vars => PlaceInv'
  BY PlaceStep
<1>3. TypeInv /\ TypeInv' /\ PlaceInv /\ PlaceInv' /\ DispatchInv /\ [Next]_vars => DispatchInv'
  BY DispatchStep
<1>4. TypeInv /\ PlaceInv /\ DispatchInv => DispatchIsTheChain
  BY CoversIsTheChain
<1> QED BY <1>1, <1>2, <1>3, <1>4, TypeInvariant, PTL DEF Spec
=============================================================================
