-------------------------- MODULE AdsService_proofs --------------------------
(***************************************************************************)
(* Theorems about AdsService, for any finite set of nullifiers, any        *)
(* batches and limits, and any number of callers, calls and faults.        *)
(***************************************************************************)
EXTENDS AdsService, FiniteSetTheorems, SequenceTheorems, TLAPS

-----------------------------------------------------------------------------
(***************************************************************************)
(* The inductive invariant.                                                *)
(***************************************************************************)

\* Every root that is computed has a row.
CountsAreBounded == made <= Cardinality(members)

\* The phases that each kind of call goes through
PhasesFit ==
  \A c \in Callers :
    /\ Inserts(c) => call[c].pc # "keep"
    /\ Proves(c) => call[c].pc \in {"start", "store", "push"}
    /\ ~Inserts(c) /\ ~Proves(c) => call[c].pc \in {"start", "keep", "look"}
    /\ call[c].pc = "keep" => call[c].kind = "trail"
    /\ call[c].kind \in {"none", "commitment", "stats"} \/ call[c].value \in Values
    /\ Inserts(c) /\ call[c].pc # "start" <=> call[c].done # <<>>

\* The lock of the vApp integration's service excludes others.
LockIsExclusive ==
  \A c, d \in Callers : c # d /\ Writing(c) => ~Writing(d) /\ ~Reading(d)

\* Under the lock of an insertion only an ended call changes the root.
LastTransition(c) == Last(call[c].done)

TransitionsAreCurrent ==
  \A c \in Callers : call[c].done # <<>> =>
    /\ LastTransition(c).after <= made
    /\ LastTransition(c).after <= root \/ root \in strays
    /\ Writing(c) => LastTransition(c).after = root \/ root \in strays

IsInsertion(e) == events[e].kind = "insertion"

\* r is no older than the insertion of e, unless an ended call has put it there.
Follows(r, e) == events[e].after <= r \/ r \in strays

\* A nullifier in the table is inserted once, and its event is about to be
\* made or made, in the order of the insertions.
InsertionsAreOnce ==
  /\ \A e \in DOMAIN events : IsInsertion(e) =>
       events[e].value \in members /\ events[e].after <= made /\ Follows(root, e)
  /\ \A e, f \in DOMAIN events : IsInsertion(e) /\ IsInsertion(f) =>
       /\ events[e].value = events[f].value => e = f
       /\ e < f => Follows(events[f].before, e)
  /\ \A c \in Callers : Inserts(c) /\ call[c].pc = "cache" =>
       /\ call[c].value \in members
       /\ \A e \in DOMAIN events : IsInsertion(e) =>
            events[e].value # call[c].value /\ Follows(LastTransition(c).before, e)

InsertionsAreOnTheirWay ==
  \A v \in members :
    \/ InsertionEvents(v) # {}
    \/ v \in unaudited
    \/ \E c \in Callers : Inserts(c) /\ call[c].value = v /\ call[c].pc \in {"cache", "store"}

\* The event in the hands of a call is its own until it is in the trail.
EventsAreInHand ==
  /\ \A c \in Callers :
       /\ call[c].pc \in {"store", "push"} =>
            /\ call[c].event \in DOMAIN events
            /\ events[call[c].event].value = call[c].value
            /\ Inserts(c) => IsInsertion(call[c].event)
            /\ ~Contains(trail["vapp"][call[c].value], call[c].event)
       /\ call[c].pc = "push" => call[c].event \in stored
       /\ Inserts(c) /\ call[c].pc \in {"settle", "look", "submit", "audit"} =>
            /\ call[c].event # 0
            /\ Contains(trail["vapp"][call[c].value], call[c].event)
  /\ \A c, d \in Callers :
       c # d /\ {call[c].pc, call[d].pc} \subseteq {"store", "push"}
         => call[c].event # call[d].event

\* No trail will get the event of an ended call.
LateEventsAreLost == \A e \in lateEvents : e \in unpushed \/ e <= since

\* What is read for the other service's trail is a trail.
TrailOf(t, v) == IsInjective(t) /\ \A e \in Range(t) : e \in stored /\ events[e].value = v

LoadedAreTrails ==
  \A c \in Callers : call[c].pc = "keep" => TrailOf(call[c].loaded, call[c].value)

TrailsAreTrue ==
  /\ \A s \in Services, v \in Values : trail[s][v] # NoTrail => TrailOf(trail[s][v], v)
  /\ \A e \in stored : e > since =>
       \/ trail["vapp"][events[e].value] # NoTrail /\ Contains(trail["vapp"][events[e].value], e)
       \/ \E c \in Callers : call[c].pc = "push" /\ call[c].event = e
       \/ e \in unpushed

\* A commitment to r covers the insertion that led to root after.
Covers(r, after) == r >= after \/ r \in strays

Submitting == {c \in Callers : Inserts(c) /\ call[c].pc \in {"look", "submit"}}

SettlementsFit ==
  \A c \in Submitting : Covers(call[c].commitment.root, LastTransition(c).after)

IInv ==
  /\ TypeOK
  /\ CountsAreBounded
  /\ PhasesFit
  /\ LockIsExclusive
  /\ TransitionsAreCurrent
  /\ InsertionsAreOnce
  /\ InsertionsAreOnTheirWay
  /\ EventsAreInHand
  /\ LateEventsAreLost
  /\ LoadedAreTrails
  /\ TrailsAreTrue
  /\ SettlementsFit
  /\ BatchIsContiguous
  /\ SettlementCoversInsertion

-----------------------------------------------------------------------------
(***************************************************************************)
(* Sizes, sequences and records                                            *)
(***************************************************************************)

LEMMA SizeOfMembers ==
  ASSUME NEW S, S \subseteq Values
  PROVE  /\ IsFiniteSet(S) /\ Cardinality(S) \in Nat /\ Cardinality(Values) \in Nat
         /\ Cardinality(S) <= Cardinality(Values)
         /\ \A v \in Values \ S : /\ Cardinality(S \cup {v}) = Cardinality(S) + 1
                                  /\ Cardinality(S) + 1 <= Cardinality(Values)
<1>1. IsFiniteSet(Values) /\ IsFiniteSet(S) /\ Cardinality(S) <= Cardinality(Values)
  BY AdsAssumption, FS_Subset DEF AdsAssumption
<1>2. Cardinality(S) \in Nat /\ Cardinality(Values) \in Nat
  BY <1>1, FS_CardinalityType
<1>3. ASSUME NEW v \in Values \ S
      PROVE  Cardinality(S \cup {v}) = Cardinality(S) + 1 /\ Cardinality(S) + 1 <= Cardinality(Values)
  <2>1. Cardinality(S \cup {v}) = Cardinality(S) + 1
    BY <1>1, FS_AddElement
  <2>2. Cardinality(S \cup {v}) <= Cardinality(Values)
    BY <1>1, FS_Subset, S \cup {v} \subseteq Values
  <2> QED BY <2>1, <2>2
<1> QED BY <1>1, <1>2, <1>3

LEMMA LastOfSeq ==
  ASSUME NEW S, NEW s \in Seq(S), s # <<>>
  PROVE  Last(s) \in S /\ Last(s) = s[Len(s)] /\ Len(s) \in DOMAIN s
BY DEF Last

LEMMA AppendedSeq ==
  ASSUME NEW S, NEW s \in Seq(S), NEW x \in S
  PROVE  /\ Append(s, x) \in Seq(S) /\ Append(s, x) # <<>> /\ Last(Append(s, x)) = x
         /\ Len(Append(s, x)) = Len(s) + 1 /\ DOMAIN Append(s, x) = 1 .. Len(s) + 1
         /\ Append(s, x)[Len(s) + 1] = x
         /\ \A i \in DOMAIN s : Append(s, x)[i] = s[i]
BY DEF Last

LEMMA ContainedInSeq ==
  ASSUME NEW S, NEW s \in Seq(S), NEW e
  PROVE  Contains(s, e) <=> e \in Range(s)
BY DEF Contains, Range

LEMMA IdleIsTyped == Idle \in Call
<1>1. Cardinality(Values) \in Nat
  BY SizeOfMembers
<1>2. NoCommitment \in Commitment
  BY <1>1 DEF NoCommitment, Commitment, Roots
<1> QED BY <1>2 DEF Idle, Call

LEMMA CallIsTyped ==
  ASSUME TypeOK, NEW c \in Callers
  PROVE  /\ call[c] \in Call
         /\ call[c].value \in Values \cup {0} /\ call[c].rest \in Seq(Values)
         /\ call[c].done \in Seq(Transition) /\ call[c].event \in Nat
         /\ call[c].commitment \in Commitment /\ call[c].loaded \in Seq(Nat)
BY DEF TypeOK, Call

LEMMA EventsAreTyped ==
  ASSUME TypeOK, NEW e \in DOMAIN events
  PROVE  /\ events[e] \in Event /\ events[e].value \in Values
         /\ events[e].before \in Roots /\ events[e].after \in Roots
<1>1. events[e] \in Event
  BY DEF TypeOK
<1> QED BY <1>1 DEF Event

-----------------------------------------------------------------------------
(***************************************************************************)
(* Calls begin and end.                                                    *)
(***************************************************************************)

LEMMA CountsAreTyped ==
  ASSUME TypeOK
  PROVE  root \in Nat /\ made \in Nat /\ root <= made /\ root \in Roots
<1>1. Cardinality(Values) \in Nat
  BY SizeOfMembers
<1> QED BY <1>1 DEF TypeOK, Roots

(***************************************************************************)
(* Calls end, before their statements or with some of them on their way,   *)
(* or late statements run: the tree may gain a row and a root, and the     *)
(* database an event, which is accounted for.                              *)
(***************************************************************************)
LEMMA CallsEnd ==
  ASSUME IInv,
         call' \in [Callers -> Call], \A d \in Callers : call'[d] \in {call[d], Idle},
         \A d \in Callers : call'[d] # call[d] =>
           /\ Inserts(d) /\ call[d].pc \in {"cache", "store"} => call[d].value \in unaudited'
           /\ call[d].pc = "push" => call[d].event \in unpushed',
         UNCHANGED <<total, events, trail, since, calls>>,
         members \subseteq members', members' \subseteq Values, leaves' \subseteq members',
         members' \subseteq members \cup unaudited',
         unaudited \subseteq unaudited', unaudited' \subseteq members',
         made' \in Nat, made <= made', made' <= Cardinality(members'),
         \/ root' = root
         \/ root' = made' /\ \A d \in Callers : ~Writing(d)'
         \/ root' \in strays',
         root' \in 0 .. made', strays \subseteq strays', strays' \subseteq 1 .. made',
         lateRows' \subseteq Values \ members', lateRoots' \subseteq 1 .. made',
         stored \subseteq stored', stored' \subseteq DOMAIN events,
         \A e \in stored' \ stored : e \in unpushed' \/ e <= since,
         unpushed \subseteq unpushed', unpushed' \subseteq DOMAIN events,
         lateEvents' \subseteq DOMAIN events,
         \A e \in lateEvents' : e \in unpushed' \/ e <= since,
         cache' \in [Services -> SUBSET Commitment],
         settled' \subseteq [after: Roots, commitment: Commitment],
         \A x \in settled' : x.commitment.root >= x.after \/ x.commitment.root \in strays',
         faults' \in 0 .. MaxFaults
  PROVE  IInv'
<1> USE DEF IInv
<1>1. Idle.kind = "none" /\ Idle.pc = "start" /\ Idle.done = <<>>
  BY DEF Idle
<1>2. \A d \in Callers : call'[d] = call[d] \/ (call'[d] = Idle /\ ~Inserts(d)' /\ ~Writing(d)' /\ ~Reading(d)')
  BY <1>1 DEF Inserts, Writing, Reading, Proves
<1>3. /\ made \in Nat /\ root \in Nat /\ root <= made /\ Cardinality(members') <= Cardinality(Values)
      /\ Cardinality(members') \in Nat /\ Cardinality(Values) \in Nat /\ root' \in Nat
  BY CountsAreTyped, SizeOfMembers
<1>4. TypeOK'
  BY <1>3 DEF TypeOK, Roots
<1>5. CountsAreBounded'
  BY DEF CountsAreBounded
<1>6. PhasesFit'
  BY <1>1 DEF PhasesFit, Inserts, Proves
<1>7. \A d \in Callers : (Writing(d)' => Writing(d)) /\ (Reading(d)' => Reading(d))
  BY <1>2 DEF Writing, Reading, Inserts, Proves
<1>8. LockIsExclusive'
  BY <1>7 DEF LockIsExclusive
<1>9. \A d \in Callers : call'[d].done # <<>> =>
        call'[d] = call[d] /\ LastTransition(d)' = LastTransition(d) /\ LastTransition(d).after \in Nat
  <2> SUFFICES ASSUME NEW d \in Callers, call'[d].done # <<>>
               PROVE  call'[d] = call[d] /\ LastTransition(d)' = LastTransition(d) /\ LastTransition(d).after \in Nat
    OBVIOUS
  <2>1. call'[d] = call[d]
    BY <1>1, <1>2
  <2>2. LastTransition(d) \in Transition
    BY <2>1, CallIsTyped, LastOfSeq DEF LastTransition
  <2> QED BY <2>1, <2>2 DEF LastTransition, Transition, Roots
<1>10. TransitionsAreCurrent'
  <2> SUFFICES ASSUME NEW d \in Callers, call'[d].done # <<>>
               PROVE  /\ LastTransition(d)'.after <= made'
                      /\ LastTransition(d)'.after <= root' \/ root' \in strays'
                      /\ Writing(d)' => LastTransition(d)'.after = root' \/ root' \in strays'
    BY DEF TransitionsAreCurrent
  <2>1. /\ call'[d] = call[d] /\ LastTransition(d)' = LastTransition(d) /\ LastTransition(d).after \in Nat
        /\ LastTransition(d).after <= made
        /\ LastTransition(d).after <= root \/ root \in strays
        /\ Writing(d) => LastTransition(d).after = root \/ root \in strays
    BY <1>9 DEF TransitionsAreCurrent
  <2> QED BY <2>1, <1>3, <1>7
<1>11. \A r, e : Follows(r, e) => Follows(r, e)'
  BY DEF Follows
<1>12. \A e \in DOMAIN events : Follows(root, e) /\ events[e].after <= made => Follows(root, e)'
  <2>1. \A e \in DOMAIN events : events[e].after \in Nat
    BY <1>3, EventsAreTyped DEF Roots
  <2> QED BY <2>1, <1>3, <1>11 DEF Follows
<1>13. InsertionsAreOnce'
  <2>1. \A e : IsInsertion(e)' = IsInsertion(e)
    BY DEF IsInsertion
  <2>2. ASSUME NEW e \in DOMAIN events, IsInsertion(e)
        PROVE  events[e].value \in members' /\ events[e].after <= made' /\ Follows(root, e)'
    <3>1. events[e].after \in Nat
      BY <1>3, EventsAreTyped DEF Roots
    <3> QED BY <3>1, <2>2, <1>3, <1>12 DEF InsertionsAreOnce
  <2>3. ASSUME NEW e \in DOMAIN events, NEW f \in DOMAIN events, IsInsertion(e), IsInsertion(f)
        PROVE  /\ events[e].value = events[f].value => e = f
               /\ e < f => Follows(events[f].before, e)'
    BY <2>3, <1>11 DEF InsertionsAreOnce
  <2>4. ASSUME NEW d \in Callers, Inserts(d)', call'[d].pc = "cache"
        PROVE  /\ call'[d].value \in members'
               /\ \A e \in DOMAIN events : IsInsertion(e) =>
                    events[e].value # call'[d].value /\ Follows(LastTransition(d).before, e)'
    <3>1. call'[d] = call[d] /\ Inserts(d) /\ LastTransition(d)' = LastTransition(d)
      BY <2>4, <1>2 DEF Inserts, LastTransition
    <3> QED BY <3>1, <2>4, <1>11 DEF InsertionsAreOnce
  <2> QED BY <2>1, <2>2, <2>3, <2>4 DEF InsertionsAreOnce
<1>14. InsertionsAreOnTheirWay'
  <2> SUFFICES ASSUME NEW v \in members', v \notin unaudited', InsertionEvents(v)' = {}
               PROVE  \E d \in Callers : Inserts(d)' /\ call'[d].value = v /\ call'[d].pc \in {"cache", "store"}
    BY DEF InsertionsAreOnTheirWay
  <2>1. v \in members /\ v \notin unaudited /\ InsertionEvents(v) = {}
    BY DEF InsertionEvents
  <2>2. PICK d \in Callers : Inserts(d) /\ call[d].value = v /\ call[d].pc \in {"cache", "store"}
    BY <2>1 DEF InsertionsAreOnTheirWay
  <2>3. call'[d] = call[d]
    BY <2>2
  <2> QED BY <2>2, <2>3 DEF Inserts
<1>15. EventsAreInHand'
  <2>1. \A d \in Callers : call'[d].pc # "start" => call'[d] = call[d]
    BY <1>1
  <2>2. ASSUME NEW d \in Callers, call'[d].pc # "start"
        PROVE  /\ call'[d].pc \in {"store", "push"} =>
                    /\ call'[d].event \in DOMAIN events'
                    /\ events'[call'[d].event].value = call'[d].value
                    /\ Inserts(d)' => IsInsertion(call[d].event)'
                    /\ ~Contains(trail'["vapp"][call'[d].value], call'[d].event)
               /\ call'[d].pc = "push" => call'[d].event \in stored'
               /\ Inserts(d)' /\ call'[d].pc \in {"settle", "look", "submit", "audit"} =>
                    /\ call'[d].event # 0
                    /\ Contains(trail'["vapp"][call'[d].value], call'[d].event)
    BY <2>1, <2>2 DEF EventsAreInHand, IsInsertion, Inserts
  <2>3. ASSUME NEW d \in Callers, NEW e \in Callers, d # e,
               {call'[d].pc, call'[e].pc} \subseteq {"store", "push"}
        PROVE  call'[d].event # call'[e].event
    BY <2>1, <2>3 DEF EventsAreInHand
  <2>4. \A d \in Callers : call'[d].pc \in {"store", "push"} => call'[d] = call[d]
    BY <2>1
  <2> QED BY <2>2, <2>3, <2>4 DEF EventsAreInHand
<1>16. LateEventsAreLost'
  BY DEF LateEventsAreLost
<1>17. \A t, v : TrailOf(t, v) => TrailOf(t, v)'
  BY DEF TrailOf
<1>18. LoadedAreTrails'
  BY <1>1, <1>17 DEF LoadedAreTrails
<1>19. TrailsAreTrue'
  <2>1. ASSUME NEW e \in stored', e > since, e \notin unpushed',
               ~\E d \in Callers : call'[d].pc = "push" /\ call'[d].event = e
        PROVE  trail["vapp"][events[e].value] # NoTrail /\ Contains(trail["vapp"][events[e].value], e)
    <3>1. e \in stored
      BY <2>1 DEF TypeOK
    <3>2. ~\E d \in Callers : call[d].pc = "push" /\ call[d].event = e
      BY <2>1
    <3> QED BY <2>1, <3>1, <3>2 DEF TrailsAreTrue
  <2> QED BY <2>1, <1>17 DEF TrailsAreTrue
<1>20. SettlementsFit'
  <2> SUFFICES ASSUME NEW d \in Submitting'
               PROVE  Covers(call[d].commitment.root, LastTransition(d).after)'
    BY DEF SettlementsFit
  <2>1. d \in Submitting /\ call'[d] = call[d] /\ LastTransition(d)' = LastTransition(d)
    BY <1>2 DEF Submitting, Inserts, LastTransition
  <2> QED BY <2>1 DEF SettlementsFit, Covers
<1>21. BatchIsContiguous'
  <2> SUFFICES ASSUME NEW d \in Callers, NEW i \in 2 .. Len(call'[d].done)
               PROVE  call'[d].done[i].before \in {call'[d].done[i - 1].after} \cup strays'
    BY DEF BatchIsContiguous
  <2>1. CASE call'[d] = call[d]
    BY <2>1 DEF BatchIsContiguous
  <2>2. CASE call'[d] = Idle
    BY <2>2, <1>1
  <2> QED BY <2>1, <2>2
<1>22. SettlementCoversInsertion'
  BY DEF SettlementCoversInsertion, Covers
<1> QED BY <1>4, <1>5, <1>6, <1>8, <1>10, <1>13, <1>14, <1>15, <1>16, <1>18, <1>19, <1>20, <1>21, <1>22

\* A call ends without a trace.
LEMMA CallIsDone ==
  ASSUME IInv, NEW c \in Callers, End(c),
         ~Inserts(c) \/ call[c].pc \notin {"cache", "store"}, call[c].pc # "push",
         UNCHANGED <<tree, audit, since, late, calls, faults>>,
         cache' \in [Services -> SUBSET Commitment],
         settled' \subseteq [after: Roots, commitment: Commitment],
         \A x \in settled' : x.commitment.root >= x.after \/ x.commitment.root \in strays'
  PROVE  IInv'
<1> USE DEF IInv
<1>1. call'[c] = Idle /\ \A d \in Callers : d # c => call'[d] = call[d]
  BY DEF End, TypeOK
<1>2. call' \in [Callers -> Call]
  BY IdleIsTyped DEF TypeOK, End
<1>3. /\ UNCHANGED <<members, leaves, root, made, total, events, stored, trail, since, calls, faults>>
      /\ UNCHANGED <<lateRows, lateRoots, lateEvents, strays, unaudited, unpushed>>
  BY DEF tree, audit, late
<1>4. /\ members \subseteq Values /\ leaves \subseteq members /\ unaudited \subseteq members
      /\ root \in 0 .. made /\ strays \subseteq 1 .. made /\ lateRows \subseteq Values \ members
      /\ lateRoots \subseteq 1 .. made /\ stored \subseteq DOMAIN events
      /\ unpushed \subseteq DOMAIN events /\ lateEvents \subseteq DOMAIN events
      /\ faults \in 0 .. MaxFaults /\ made <= Cardinality(members) /\ made \in Nat /\ made <= made
      /\ \A e \in lateEvents : e \in unpushed \/ e <= since
  BY CountsAreTyped DEF TypeOK, CountsAreBounded, LateEventsAreLost
<1> QED BY <1>1, <1>2, <1>3, <1>4, CallsEnd

LEMMA SettledFit ==
  ASSUME IInv, UNCHANGED <<cache, settled, strays>>
  PROVE  /\ cache' \in [Services -> SUBSET Commitment]
         /\ settled' \subseteq [after: Roots, commitment: Commitment]
         /\ \A x \in settled' : x.commitment.root >= x.after \/ x.commitment.root \in strays'
BY DEF IInv, TypeOK, SettlementCoversInsertion, Covers

LEMMA CallBegins ==
  ASSUME IInv, NEW c \in Callers, NEW kind, NEW v, NEW rest \in Seq(Values), Make(c, kind, v, rest),
         \/ kind \in {"insert", "batch", "presence", "absence", "trail"} /\ v \in Values
         \/ kind \in {"commitment", "stats"} /\ v = 0
  PROVE  IInv'
<1> USE DEF IInv
<1> DEFINE new == [Idle EXCEPT !.kind = kind, !.value = v, !.rest = rest]
<1>1. call[c] = Idle /\ call'[c] = new /\ \A d \in Callers : d # c => call'[d] = call[d]
  BY DEF Make, TypeOK
<1>2. new.kind = kind /\ new.pc = "start" /\ new.done = <<>> /\ new.value = v
  BY DEF Idle
<1>3. Idle.pc = "start"
  BY DEF Idle
<1>a. /\ UNCHANGED <<members, leaves, root, made, total, events, stored, trail, cache, since, settled, faults>>
      /\ UNCHANGED <<lateRows, lateRoots, lateEvents, strays, unaudited, unpushed>>
  BY DEF Make, tree, audit, late
<1> HIDE DEF new
<1>4. TypeOK'
  <2>1. new \in Call
    BY IdleIsTyped DEF new, Call
  <2>2. call' \in [Callers -> Call]
    BY <2>1 DEF TypeOK, Make, new
  <2>3. calls' \in 0 .. MaxCalls
    BY AdsAssumption DEF AdsAssumption, TypeOK, Make
  <2> QED BY <1>a, <2>2, <2>3 DEF TypeOK
<1>5. CountsAreBounded'
  BY <1>a DEF CountsAreBounded
<1>6. PhasesFit'
  BY <1>1, <1>2 DEF PhasesFit, Inserts, Proves
<1>7. LockIsExclusive'
  BY <1>1, <1>2 DEF LockIsExclusive, Writing, Reading, Inserts, Proves
<1>8. TransitionsAreCurrent'
  BY <1>1, <1>2, <1>a DEF TransitionsAreCurrent, LastTransition, Writing, Inserts
<1>9. InsertionsAreOnce'
  BY <1>1, <1>2, <1>a DEF InsertionsAreOnce, IsInsertion, Follows, LastTransition, Inserts
<1>10. InsertionsAreOnTheirWay'
  BY <1>1, <1>3, <1>a DEF InsertionsAreOnTheirWay, InsertionEvents, Inserts
<1>11. EventsAreInHand'
  BY <1>1, <1>2, <1>a DEF EventsAreInHand, IsInsertion, Inserts
<1>12. LoadedAreTrails'
  BY <1>1, <1>2, <1>a DEF LoadedAreTrails, TrailOf
<1>13. TrailsAreTrue'
  BY <1>1, <1>3, <1>a DEF TrailsAreTrue, TrailOf
<1>14. LateEventsAreLost'
  BY <1>a DEF LateEventsAreLost
<1>15. Submitting' = Submitting /\ \A d \in Submitting : d \in Callers /\ call'[d] = call[d]
  BY <1>1, <1>2, <1>3 DEF Submitting, Inserts
<1>16. SettlementsFit'
  BY <1>15, <1>a DEF SettlementsFit, LastTransition, Covers
<1>17. BatchIsContiguous'
  BY <1>1, <1>2, <1>a DEF BatchIsContiguous
<1>18. SettlementCoversInsertion'
  BY <1>a DEF SettlementCoversInsertion
<1> QED BY <1>4, <1>5, <1>6, <1>7, <1>8, <1>9, <1>10, <1>11, <1>12, <1>13, <1>14, <1>16, <1>17, <1>18

-----------------------------------------------------------------------------
(***************************************************************************)
(* Insertions                                                              *)
(***************************************************************************)

LEMMA InsertRowKeeps ==
  ASSUME IInv, NEW c \in Callers, InsertRow(c)
  PROVE  IInv'
<1> USE DEF IInv
<1> DEFINE new == [before |-> root, after |-> made + 1]
           done == call[c].done
<1>f. \A d \in Callers : d # c => call'[d] = call[d]
  BY DEF InsertRow, TypeOK
<1>1. call'[c] = [call[c] EXCEPT !.pc = "cache", !.done = Append(done, new)]
  BY DEF InsertRow, TypeOK
<1>2. /\ call'[c].kind = call[c].kind /\ call'[c].pc = "cache" /\ call'[c].value = call[c].value
      /\ call'[c].done = Append(done, new)
  BY <1>1, CallIsTyped DEF Call
<1>3. /\ Inserts(c) /\ call[c].pc \in {"start", "row"} /\ call[c].value \in Values \ members
      /\ made' = made + 1 /\ root' = made + 1 /\ members' = members \cup {call[c].value}
      /\ call[c].value \notin lateRows
      /\ UNCHANGED <<total, events, stored, trail, cache, since, settled, calls, faults>>
      /\ UNCHANGED <<lateRows, lateRoots, lateEvents, strays, unaudited, unpushed>>
  BY DEF InsertRow, HasLock, PhasesFit, audit, late, Inserts
<1>4. \A d \in Callers : d # c => ~Writing(d) /\ ~Reading(d)
  BY <1>3 DEF InsertRow, HasLock, MayWrite, MayRead, LockIsExclusive, Writing
<1>5. /\ Cardinality(members') = Cardinality(members) + 1 /\ Cardinality(members) \in Nat
      /\ Cardinality(members) + 1 <= Cardinality(Values) /\ Cardinality(Values) \in Nat
      /\ made \in Nat /\ made + 1 \in Roots /\ root \in Roots /\ root \in Nat /\ root <= made /\ new \in Transition
  <2>1. /\ Cardinality(members') = Cardinality(members) + 1 /\ Cardinality(members) \in Nat
        /\ Cardinality(members) + 1 <= Cardinality(Values) /\ Cardinality(Values) \in Nat
    BY <1>3, SizeOfMembers DEF TypeOK
  <2>2. made \in Nat /\ made + 1 \in Roots /\ root \in Roots /\ root \in Nat /\ root <= made
    BY <2>1, CountsAreTyped DEF CountsAreBounded, Roots
  <2> QED BY <2>1, <2>2 DEF Transition
<1>6. /\ Append(done, new) \in Seq(Transition) /\ Append(done, new) # <<>>
      /\ Last(Append(done, new)) = new /\ done \in Seq(Transition)
      /\ Len(Append(done, new)) = Len(done) + 1
      /\ Append(done, new)[Len(done) + 1] = new
      /\ \A i \in 1 .. Len(done) : Append(done, new)[i] = done[i]
  <2>1. done \in Seq(Transition)
    BY CallIsTyped
  <2> HIDE DEF new, done
  <2> QED BY <2>1, <1>5, AppendedSeq
<1>7. new.before = root /\ new.after = made + 1
  OBVIOUS
<1> HIDE DEF new, done
<1>8. TypeOK'
  <2>1. call'[c] \in Call
    BY <1>1, <1>6, CallIsTyped DEF Call
  <2>2. call' \in [Callers -> Call]
    BY <1>1, <2>1 DEF TypeOK, InsertRow
  <2>3. leaves' \subseteq members'
    BY DEF TypeOK, InsertRow
  <2> QED BY <1>3, <1>5, <2>2, <2>3 DEF TypeOK
<1>9. CountsAreBounded'
  BY <1>3, <1>5 DEF CountsAreBounded
<1>10. PhasesFit'
  BY <1>f, <1>2, <1>3, <1>6 DEF PhasesFit, Inserts, Proves
<1>11. LockIsExclusive'
  BY <1>f, <1>2, <1>4 DEF LockIsExclusive, Writing, Reading, Inserts, Proves
<1>12. TransitionsAreCurrent'
  <2> SUFFICES ASSUME NEW d \in Callers, call'[d].done # <<>>
               PROVE  /\ Last(call'[d].done).after <= made'
                      /\ Last(call'[d].done).after <= root'
                      /\ Writing(d)' => Last(call'[d].done).after = root'
    BY DEF TransitionsAreCurrent, LastTransition
  <2>1. CASE d = c
    BY <2>1, <1>2, <1>3, <1>5, <1>6, <1>7
  <2>2. CASE d # c
    <3>1. ~Writing(d)' /\ Last(call'[d].done) = LastTransition(d) /\ call[d].done # <<>>
      BY <2>2, <1>f, <1>4 DEF Writing, Inserts, LastTransition
    <3>2. LastTransition(d) \in Transition
      BY <3>1, CallIsTyped, LastOfSeq DEF LastTransition
    <3> QED BY <3>1, <3>2, <1>3, <1>5 DEF TransitionsAreCurrent, Transition, Roots
  <2> QED BY <2>1, <2>2
<1>13. InsertionsAreOnce'
  <2>1. \A e \in DOMAIN events : events[e].after \in Nat
    BY <1>5, EventsAreTyped DEF Roots
  <2>2. \A d \in Callers : Inserts(d)' /\ call'[d].pc = "cache" => d = c
    BY <1>f, <1>4 DEF Writing, Inserts
  <2>3. LastTransition(c)'.before = root
    BY <1>2, <1>6, <1>7 DEF LastTransition
  <2>4. \A e \in DOMAIN events : IsInsertion(e) =>
          events[e].value \in members /\ events[e].after <= made /\ events[e].after <= made'
          /\ Follows(root, e)
    BY <1>3, <1>5, <2>1 DEF InsertionsAreOnce
  <2>5. \A e \in DOMAIN events : IsInsertion(e)' = IsInsertion(e)
    BY <1>3 DEF IsInsertion
  <2>6. \A r, e : Follows(r, e) => Follows(r, e)'
    BY <1>3 DEF Follows
  <2>7. ASSUME NEW e \in DOMAIN events, IsInsertion(e)
        PROVE  events'[e].value \in members' /\ events'[e].after <= made' /\ Follows(root, e)'
    BY <2>4, <2>7, <1>3 DEF Follows
  <2>8. ASSUME NEW e \in DOMAIN events, NEW f \in DOMAIN events, IsInsertion(e), IsInsertion(f)
        PROVE  /\ events'[e].value = events'[f].value => e = f
               /\ e < f => Follows(events[f].before, e)'
    BY <2>6, <2>8, <1>3 DEF InsertionsAreOnce, Follows
  <2>9. ASSUME NEW e \in DOMAIN events, IsInsertion(e)
        PROVE  events'[e].value # call'[c].value /\ Follows(LastTransition(c).before, e)'
    BY <2>3, <2>4, <2>9, <1>2, <1>3 DEF Follows
  <2> QED BY <1>2, <1>3, <2>2, <2>5, <2>7, <2>8, <2>9 DEF InsertionsAreOnce
<1>14. InsertionsAreOnTheirWay'
  BY <1>f, <1>2, <1>3 DEF InsertionsAreOnTheirWay, InsertionEvents, Inserts
<1>15. EventsAreInHand'
  BY <1>f, <1>2, <1>3 DEF EventsAreInHand, IsInsertion, Inserts
<1>16. LoadedAreTrails'
  BY <1>f, <1>2, <1>3 DEF LoadedAreTrails, TrailOf
<1>17. TrailsAreTrue'
  BY <1>f, <1>2, <1>3 DEF TrailsAreTrue, TrailOf
<1>18. LateEventsAreLost'
  BY <1>3 DEF LateEventsAreLost
<1>19. \A d \in Submitting' : d \in Submitting /\ d \in Callers /\ call'[d] = call[d]
  BY <1>f, <1>2 DEF Submitting, Inserts
<1>20. SettlementsFit'
  BY <1>3, <1>19 DEF SettlementsFit, Covers, LastTransition
<1>21. BatchIsContiguous'
  <2>1. ASSUME done # <<>> PROVE root \in {done[Len(done)].after} \cup strays
    <3>1. call[c].pc = "row"
      BY <2>1, <1>3 DEF PhasesFit, done
    <3> QED BY <3>1, <2>1, <1>3, <1>6, LastOfSeq DEF done, TransitionsAreCurrent, LastTransition, Writing
  <2> SUFFICES ASSUME NEW i \in 2 .. Len(call'[c].done)
               PROVE  call'[c].done[i].before \in {call'[c].done[i - 1].after} \cup strays
    BY <1>f, <1>3 DEF BatchIsContiguous
  <2>2. CASE i = Len(done) + 1
    BY <2>1, <2>2, <1>2, <1>6, <1>7
  <2>3. CASE i # Len(done) + 1
    BY <2>3, <1>2, <1>6 DEF BatchIsContiguous, done
  <2> QED BY <2>2, <2>3
<1>22. SettlementCoversInsertion'
  BY <1>3 DEF SettlementCoversInsertion
<1> QED BY <1>8, <1>9, <1>10, <1>11, <1>12, <1>13, <1>14, <1>15, <1>16, <1>17, <1>18, <1>20, <1>21, <1>22

LEMMA EventIsMade ==
  ASSUME IInv, NEW c \in Callers, NEW kind, NEW before \in Roots, NEW after \in Roots,
         MakeEvent(c, kind, before, after),
         \/ /\ Inserts(c) /\ call[c].pc = "cache" /\ kind = "insertion"
            /\ before = LastTransition(c).before /\ after = LastTransition(c).after
         \/ /\ Proves(c) /\ call[c].pc = "start" /\ MayRead
            /\ kind \in {"membership", "nonmembership"},
         cache' \in [Services -> SUBSET Commitment],
         UNCHANGED <<tree, since, settled, late, calls, faults>>
  PROVE  IInv'
<1> USE DEF IInv
<1>n. PICK n \in Nat : n = Len(events) + 1
  BY DEF TypeOK
<1> DEFINE new == [value |-> call[c].value, kind |-> kind, before |-> before, after |-> after]
<1>f. \A d \in Callers : d # c => call'[d] = call[d]
  BY DEF MakeEvent, TypeOK
<1>1. call'[c] = [call[c] EXCEPT !.pc = "store", !.event = n]
  BY <1>n DEF MakeEvent, TypeOK
<1>2. /\ call'[c].kind = call[c].kind /\ call'[c].pc = "store" /\ call'[c].value = call[c].value
      /\ call'[c].done = call[c].done /\ call'[c].event = n
  BY <1>1, CallIsTyped DEF Call
<1>3. /\ n \in Nat /\ n # 0 /\ n \notin DOMAIN events /\ DOMAIN events' = DOMAIN events \cup {n}
      /\ events'[n] = new /\ \A e \in DOMAIN events : events'[e] = events[e] /\ e < n
      /\ stored \subseteq DOMAIN events /\ Len(events') = n
  BY <1>n DEF TypeOK, MakeEvent
<1>4. /\ UNCHANGED <<members, leaves, root, made, total, stored, trail, since, settled, calls, faults>>
      /\ UNCHANGED <<lateRows, lateRoots, lateEvents, strays, unaudited, unpushed>>
  BY DEF MakeEvent, tree, late
<1>5. /\ call[c].pc \in {"cache", "start"} /\ (Inserts(c) \/ Proves(c)) /\ call[c].value \in Values
      /\ Inserts(c) => call[c].pc = "cache" /\ Writing(c)
      /\ Proves(c) => ~Inserts(c) /\ ~Writing(c)
  BY DEF PhasesFit, Inserts, Proves, Writing
<1>6. new.value = call[c].value /\ new.kind = kind /\ new.before = before /\ new.after = after
  OBVIOUS
<1> HIDE DEF new
<1>7. TypeOK'
  <2>1. new \in Event
    BY <1>5 DEF Event, new
  <2>2. events' \in Seq(Event)
    BY <2>1 DEF TypeOK, MakeEvent, new
  <2>3. call'[c] \in Call
    BY <1>1, <1>3, CallIsTyped DEF Call
  <2>4. call' \in [Callers -> Call]
    BY <1>f, <2>3 DEF TypeOK, MakeEvent
  <2>5. since \in 0 .. Len(events')
    BY <1>n, <1>3 DEF TypeOK
  <2> QED BY <1>3, <1>4, <2>2, <2>4, <2>5 DEF TypeOK
<1>8. CountsAreBounded'
  BY <1>4 DEF CountsAreBounded
<1>9. PhasesFit'
  BY <1>f, <1>2, <1>5 DEF PhasesFit, Inserts, Proves
<1>10. \A d \in Callers : Writing(d)' = Writing(d)
  BY <1>f, <1>2, <1>5 DEF Writing, Inserts, Proves
<1>11. LockIsExclusive'
  <2>1. \A d \in Callers : d # c => Reading(d)' = Reading(d)
    BY <1>f DEF Reading, Inserts, Proves
  <2>2. Reading(c)' => Proves(c)
    BY <1>2 DEF Reading, Proves
  <2>3. Proves(c) => \A d \in Callers : ~Writing(d)
    BY DEF MayRead, Proves, Inserts
  <2> QED BY <1>10, <2>1, <2>2, <2>3 DEF LockIsExclusive
<1>12. \A d \in Callers : call'[d].done = call[d].done /\ LastTransition(d)' = LastTransition(d)
  BY <1>f, <1>2 DEF LastTransition
<1>13. TransitionsAreCurrent'
  BY <1>4, <1>10, <1>12 DEF TransitionsAreCurrent
<1>14. InsertionsAreOnce'
  <2>1. \A e \in DOMAIN events : IsInsertion(e)' = IsInsertion(e)
    BY <1>3 DEF IsInsertion
  <2>2. IsInsertion(n)' => Inserts(c) /\ call[c].pc = "cache"
    BY <1>3, <1>6 DEF IsInsertion
  <2>3. ASSUME IsInsertion(n)'
        PROVE  /\ call[c].value \in members /\ after <= made /\ (after <= root \/ root \in strays)
               /\ \A e \in DOMAIN events : IsInsertion(e) =>
                    /\ events[e].value # call[c].value
                    /\ events[e].after <= before \/ before \in strays
    <3>1. Inserts(c) /\ call[c].pc = "cache" /\ before = LastTransition(c).before
            /\ after = LastTransition(c).after
      BY <2>2, <2>3 DEF Proves, Inserts
    <3>2. call[c].done # <<>>
      BY <3>1 DEF PhasesFit
    <3> QED BY <3>1, <3>2 DEF InsertionsAreOnce, TransitionsAreCurrent, Follows
  <2>4. \A d \in Callers : Inserts(d)' /\ call'[d].pc = "cache" =>
          d # c /\ Inserts(d) /\ call[d].pc = "cache" /\ ~IsInsertion(n)'
    <3>1. ASSUME NEW d \in Callers, Inserts(d)', call'[d].pc = "cache"
          PROVE  d # c /\ Inserts(d) /\ call[d].pc = "cache" /\ Writing(d)
      BY <3>1, <1>f, <1>2 DEF Inserts, Writing
    <3>2. IsInsertion(n)' => Writing(c)
      BY <2>2 DEF Writing
    <3> QED BY <3>1, <3>2 DEF LockIsExclusive
  <2>5. ASSUME NEW e \in DOMAIN events', IsInsertion(e)'
        PROVE  /\ events'[e].value \in members' /\ events'[e].after <= made'
               /\ events'[e].after <= root' \/ root' \in strays'
    BY <2>1, <2>3, <2>5, <1>3, <1>4, <1>6 DEF InsertionsAreOnce, Follows
  <2>6. ASSUME NEW e \in DOMAIN events', NEW f \in DOMAIN events', IsInsertion(e)', IsInsertion(f)'
        PROVE  /\ events'[e].value = events'[f].value => e = f
               /\ e < f => events'[e].after <= events'[f].before \/ events'[f].before \in strays'
    <3>1. CASE e \in DOMAIN events /\ f \in DOMAIN events
      BY <3>1, <2>1, <2>6, <1>3, <1>4 DEF InsertionsAreOnce, Follows
    <3>2. CASE e = n /\ f = n
      BY <3>2, <1>3
    <3>3. CASE e = n /\ f \in DOMAIN events
      BY <3>3, <2>1, <2>3, <2>6, <1>3, <1>4, <1>6
    <3>4. CASE f = n /\ e \in DOMAIN events
      BY <3>4, <2>1, <2>3, <2>6, <1>3, <1>4, <1>6
    <3> QED BY <3>1, <3>2, <3>3, <3>4, <1>3
  <2>7. ASSUME NEW d \in Callers, Inserts(d)', call'[d].pc = "cache"
        PROVE  /\ call'[d].value \in members'
               /\ \A e \in DOMAIN events' : IsInsertion(e)' =>
                    /\ events'[e].value # call'[d].value
                    /\ \/ events'[e].after <= LastTransition(d)'.before
                       \/ LastTransition(d)'.before \in strays'
    <3>1. call'[d] = call[d]
      BY <2>4, <2>7, <1>f
    <3> QED BY <3>1, <2>1, <2>4, <2>7, <1>3, <1>4, <1>12 DEF InsertionsAreOnce, Follows
  <2> QED BY <2>5, <2>6, <2>7 DEF InsertionsAreOnce, Follows
<1>15. InsertionsAreOnTheirWay'
  <2>1. \A v : InsertionEvents(v)' = InsertionEvents(v)
    BY <1>3, <1>4 DEF InsertionEvents
  <2>2. \A d \in Callers : Inserts(d) /\ call[d].pc \in {"cache", "store"} =>
          Inserts(d)' /\ call'[d].value = call[d].value /\ call'[d].pc \in {"cache", "store"}
    BY <1>f, <1>2 DEF Inserts
  <2> QED BY <1>4, <2>1, <2>2 DEF InsertionsAreOnTheirWay
<1>16. \A d \in Callers : d # c /\ call'[d].pc \in {"store", "push"} =>
         /\ call[d].pc = call'[d].pc /\ call[d].event \in DOMAIN events /\ call'[d].event = call[d].event
         /\ events'[call[d].event] = events[call[d].event]
  BY <1>f, <1>3 DEF EventsAreInHand
<1>17. EventsAreInHand'
  <2>1. ~Contains(trail["vapp"][call[c].value], n)
    <3>0. trail["vapp"][call[c].value] \in Seq(Nat)
      BY <1>5 DEF TypeOK, Services
    <3>1. CASE trail["vapp"][call[c].value] = NoTrail
      BY <3>1, <1>3 DEF NoTrail, Contains
    <3>2. CASE trail["vapp"][call[c].value] # NoTrail
      BY <3>0, <3>2, <1>3, <1>5, ContainedInSeq DEF TrailsAreTrue, TrailOf, Services
    <3> QED BY <3>1, <3>2
  <2>2. ASSUME NEW d \in Callers
        PROVE  /\ call'[d].pc \in {"store", "push"} =>
                    /\ call'[d].event \in DOMAIN events'
                    /\ events'[call'[d].event].value = call'[d].value
                    /\ Inserts(d)' => IsInsertion(call[d].event)'
                    /\ ~Contains(trail'["vapp"][call'[d].value], call'[d].event)
               /\ call'[d].pc = "push" => call'[d].event \in stored'
               /\ Inserts(d)' /\ call'[d].pc \in {"settle", "look", "submit", "audit"} =>
                    /\ call'[d].event # 0
                    /\ Contains(trail'["vapp"][call'[d].value], call'[d].event)
    <3>1. CASE d = c
      BY <3>1, <2>1, <1>2, <1>3, <1>4, <1>6 DEF IsInsertion, Inserts, Proves
    <3>2. CASE d # c
      BY <3>2, <1>f, <1>3, <1>4 DEF EventsAreInHand, IsInsertion, Inserts
    <3> QED BY <3>1, <3>2
  <2>3. ASSUME NEW d \in Callers, NEW e \in Callers, d # e,
               {call'[d].pc, call'[e].pc} \subseteq {"store", "push"}
        PROVE  call'[d].event # call'[e].event
    <3>1. CASE d = c \/ e = c
      BY <3>1, <2>3, <1>2, <1>3, <1>16
    <3>2. CASE d # c /\ e # c
      BY <3>2, <2>3, <1>f DEF EventsAreInHand
    <3> QED BY <3>1, <3>2
  <2> QED BY <2>2, <2>3 DEF EventsAreInHand
<1>18. \A t, v : TrailOf(t, v) => TrailOf(t, v)'
  BY <1>3, <1>4 DEF TrailOf
<1>19. LoadedAreTrails'
  BY <1>f, <1>2, <1>18 DEF LoadedAreTrails
<1>20. TrailsAreTrue'
  <2>1. ASSUME NEW e \in stored', e > since'
        PROVE  \/ /\ trail'["vapp"][events'[e].value] # NoTrail
                  /\ Contains(trail'["vapp"][events'[e].value], e)
               \/ \E d \in Callers : call'[d].pc = "push" /\ call'[d].event = e
               \/ e \in unpushed'
    <3>1. e \in stored /\ events'[e] = events[e]
      BY <1>3, <1>4
    <3>2. CASE \E d \in Callers : call[d].pc = "push" /\ call[d].event = e
      BY <3>2, <1>f, <1>5
    <3> QED BY <3>1, <3>2, <2>1, <1>4 DEF TrailsAreTrue
  <2> QED BY <2>1, <1>4, <1>18 DEF TrailsAreTrue
<1>21. Submitting' = Submitting /\ \A d \in Submitting : call'[d] = call[d]
  BY <1>f, <1>2, <1>5 DEF Submitting, Inserts, Proves
<1>22. LateEventsAreLost'
  BY <1>4 DEF LateEventsAreLost
<1>23. SettlementsFit' /\ BatchIsContiguous' /\ SettlementCoversInsertion'
  <2>1. SettlementsFit'
    <3>1. \A d \in Submitting : d \in Callers
      BY DEF Submitting
    <3> QED BY <3>1, <1>4, <1>12, <1>21 DEF SettlementsFit, Covers
  <2> QED BY <2>1, <1>4, <1>12 DEF BatchIsContiguous, SettlementCoversInsertion
<1> QED BY <1>7, <1>8, <1>9, <1>10, <1>11, <1>13, <1>14, <1>15, <1>17, <1>19, <1>20, <1>22, <1>23

LEMMA KeptCommitments ==
  ASSUME NEW C, NEW new, NEW kept \in Limited(Put(C, new))
  PROVE  kept \subseteq Put(C, new) /\ Put(C, new) \subseteq C \cup {new}
BY DEF Limited, Put

LEMMA CommitmentToIsTyped ==
  ASSUME TypeOK, NEW r \in Roots
  PROVE  CommitmentTo(r) \in Commitment /\ CommitmentTo(r).root = r
<1>1. Cardinality(Values) \in Nat
  BY SizeOfMembers
<1> QED BY <1>1 DEF TypeOK, Commitment, CommitmentTo, NullifierCount

LEMMA CacheCommitmentKeeps ==
  ASSUME IInv, NEW c \in Callers, CacheCommitment(c)
  PROVE  IInv'
<1> USE DEF IInv
<1>1. /\ Inserts(c) /\ call[c].pc = "cache" /\ call[c].done # <<>>
      /\ MakeEvent(c, "insertion", LastTransition(c).before, LastTransition(c).after)
      /\ UNCHANGED <<tree, since, settled, late, calls, faults>>
  BY DEF CacheCommitment, PhasesFit, LastTransition
<1>2. LastTransition(c).before \in Roots /\ LastTransition(c).after \in Roots
  <2>1. LastTransition(c) \in Transition
    BY <1>1, CallIsTyped, LastOfSeq DEF LastTransition
  <2> QED BY <2>1 DEF Transition
<1> DEFINE k == CommitmentTo(LastTransition(c).after)
<1>3. PICK kept \in Limited(Put(cache["vapp"], k)) : cache' = [cache EXCEPT !["vapp"] = kept]
  BY DEF CacheCommitment, LastTransition
<1>4. kept \subseteq cache["vapp"] \cup {k}
  BY <1>3, KeptCommitments
<1>5. k \in Commitment
  BY <1>2, CommitmentToIsTyped
<1> HIDE DEF k
<1>6. cache' \in [Services -> SUBSET Commitment]
  BY <1>3, <1>4, <1>5 DEF TypeOK, Services
<1> QED BY <1>1, <1>2, <1>6, EventIsMade

LEMMA StoreEventKeeps ==
  ASSUME IInv, NEW c \in Callers, StoreEvent(c)
  PROVE  IInv'
<1> USE DEF IInv
<1>f. \A d \in Callers : d # c => call'[d] = call[d]
  BY DEF StoreEvent, Go, TypeOK
<1>1. call'[c] = [call[c] EXCEPT !.pc = "push"]
  BY DEF StoreEvent, Go, TypeOK
<1>2. /\ call'[c].kind = call[c].kind /\ call'[c].pc = "push" /\ call'[c].value = call[c].value
      /\ call'[c].done = call[c].done /\ call'[c].event = call[c].event
  BY <1>1, CallIsTyped DEF Call
<1>3. /\ call[c].pc = "store" /\ call[c].event \in DOMAIN events
      /\ events[call[c].event].value = call[c].value
      /\ Inserts(c) => IsInsertion(call[c].event)
      /\ stored' = stored \cup {call[c].event}
      /\ UNCHANGED <<members, leaves, root, made, total, events, trail, cache, since, settled, calls, faults>>
      /\ UNCHANGED <<lateRows, lateRoots, lateEvents, strays, unaudited, unpushed>>
  BY DEF StoreEvent, EventsAreInHand, tree, late
<1>4. TypeOK'
  <2>1. call'[c] \in Call
    BY <1>1, CallIsTyped DEF Call
  <2>2. call' \in [Callers -> Call]
    BY <1>f, <2>1 DEF TypeOK, StoreEvent, Go
  <2> QED BY <2>2, <1>3 DEF TypeOK
<1>5. CountsAreBounded'
  BY <1>3 DEF CountsAreBounded
<1>6. PhasesFit'
  BY <1>f, <1>2, <1>3 DEF PhasesFit, Inserts, Proves
<1>7. \A d \in Callers : Writing(d)' = Writing(d) /\ Reading(d)' = Reading(d)
  BY <1>f, <1>2, <1>3 DEF Writing, Reading, Inserts, Proves
<1>8. \A d \in Callers : call'[d].done = call[d].done /\ LastTransition(d)' = LastTransition(d)
  BY <1>f, <1>2 DEF LastTransition
<1>9. LockIsExclusive'
  BY <1>7 DEF LockIsExclusive
<1>10. TransitionsAreCurrent'
  BY <1>3, <1>7, <1>8 DEF TransitionsAreCurrent
<1>11. InsertionsAreOnce'
  <2>1. \A e : IsInsertion(e)' = IsInsertion(e)
    BY <1>3 DEF IsInsertion
  <2>2. \A d \in Callers : Inserts(d)' /\ call'[d].pc = "cache" =>
          Inserts(d) /\ call[d].pc = "cache" /\ call'[d].value = call[d].value
    BY <1>f, <1>2 DEF Inserts
  <2>3. \A r, e : Follows(r, e)' <=> Follows(r, e)
    BY <1>3 DEF Follows
  <2> QED BY <2>1, <2>2, <1>3, <1>8 DEF InsertionsAreOnce, Follows
<1>12. InsertionsAreOnTheirWay'
  <2> SUFFICES ASSUME NEW v \in members, InsertionEvents(v)' = {}, v \notin unaudited
               PROVE  \E d \in Callers : Inserts(d)' /\ call'[d].value = v /\ call'[d].pc \in {"cache", "store"}
    BY <1>3 DEF InsertionsAreOnTheirWay
  <2>1. InsertionEvents(v) = {}
    BY <1>3 DEF InsertionEvents
  <2>2. PICK d \in Callers : Inserts(d) /\ call[d].value = v /\ call[d].pc \in {"cache", "store"}
    BY <2>1 DEF InsertionsAreOnTheirWay
  <2>3. d # c
    BY <2>2, <1>3 DEF InsertionEvents, IsInsertion
  <2> QED BY <2>2, <2>3, <1>f DEF Inserts
<1>13. EventsAreInHand'
  BY <1>f, <1>2, <1>3 DEF EventsAreInHand, IsInsertion, Inserts
<1>14. \A t, v : TrailOf(t, v) => TrailOf(t, v)'
  BY <1>3 DEF TrailOf
<1>15. LoadedAreTrails'
  BY <1>f, <1>2, <1>14 DEF LoadedAreTrails
<1>16. TrailsAreTrue'
  BY <1>f, <1>2, <1>3, <1>14 DEF TrailsAreTrue
<1>17. LateEventsAreLost'
  BY <1>3 DEF LateEventsAreLost
<1>18. Submitting' = Submitting /\ \A d \in Submitting : call'[d] = call[d] /\ d \in Callers
  BY <1>f, <1>2, <1>3 DEF Submitting, Inserts
<1>19. SettlementsFit'
  BY <1>3, <1>8, <1>18 DEF SettlementsFit, Covers
<1>20. BatchIsContiguous'
  BY <1>3, <1>8 DEF BatchIsContiguous
<1>21. SettlementCoversInsertion'
  BY <1>3 DEF SettlementCoversInsertion
<1> QED BY <1>4, <1>5, <1>6, <1>9, <1>10, <1>11, <1>12, <1>13, <1>15, <1>16, <1>17, <1>19, <1>20, <1>21

LEMMA AppendedTrail ==
  ASSUME TypeOK, NEW t \in Seq(Nat), NEW e \in Nat, NEW v, e # 0, ~Contains(t, e),
         e \in stored, events[e].value = v, t # NoTrail => TrailOf(t, v)
  PROVE  /\ Appended(t, e) \in Seq(Nat) /\ Appended(t, e) # NoTrail /\ TrailOf(Appended(t, e), v)
         /\ \A x : Contains(Appended(t, e), x) <=> x = e \/ (t # NoTrail /\ Contains(t, x))
<1>1. CASE t = NoTrail
  <2> DEFINE a == <<e>>
  <2>1. a \in Seq(Nat) /\ Len(a) = 1 /\ DOMAIN a = {1} /\ a[1] = e
    OBVIOUS
  <2>2. Appended(t, e) = a
    BY <1>1 DEF Appended
  <2> HIDE DEF a
  <2>3. a # NoTrail
    BY <2>1 DEF NoTrail
  <2>4. \A x : Contains(a, x) <=> x = e
    BY <2>1 DEF Contains
  <2>5. TrailOf(a, v)
    BY <2>1 DEF TrailOf, IsInjective, Range
  <2>6. Appended(t, e) \in Seq(Nat) /\ Appended(t, e) # NoTrail
    BY <2>1, <2>2, <2>3
  <2>7. TrailOf(Appended(t, e), v)
    BY <2>2, <2>5
  <2>8. \A x : Contains(Appended(t, e), x) <=> x = e \/ (t # NoTrail /\ Contains(t, x))
    BY <1>1, <2>2, <2>4
  <2> QED BY <2>6, <2>7, <2>8
<1>2. CASE t # NoTrail
  <2> DEFINE a == Append(t, e)
  <2>1. /\ a \in Seq(Nat) /\ Len(a) = Len(t) + 1 /\ DOMAIN a = 1 .. Len(t) + 1 /\ a[Len(t) + 1] = e
        /\ DOMAIN t = 1 .. Len(t) /\ Len(t) \in Nat /\ \A i \in DOMAIN t : a[i] = t[i]
    BY AppendedSeq
  <2>2. Appended(t, e) = a
    BY <1>2 DEF Appended
  <2> HIDE DEF a
  <2>3. a # NoTrail
    BY <2>1 DEF NoTrail
  <2>4. ASSUME NEW x PROVE Contains(a, x) <=> x = e \/ Contains(t, x)
    <3>1. Contains(a, x) <=> \E i \in 1 .. Len(t) + 1 : a[i] = x
      BY <2>1 DEF Contains
    <3>2. Contains(t, x) <=> \E i \in 1 .. Len(t) : t[i] = x
      BY <2>1 DEF Contains
    <3>3. \A i \in 1 .. Len(t) + 1 : i \in 1 .. Len(t) \/ i = Len(t) + 1
      BY <2>1
    <3>4. Len(t) + 1 \in 1 .. Len(t) + 1 /\ \A i \in 1 .. Len(t) : i \in 1 .. Len(t) + 1
      BY <2>1
    <3> QED BY <2>1, <3>1, <3>2, <3>3, <3>4
  <2>5. IsInjective(a)
    <3> SUFFICES ASSUME NEW i \in DOMAIN a, NEW j \in DOMAIN a, a[i] = a[j] PROVE i = j
      BY DEF IsInjective
    <3>1. \A k \in DOMAIN t : a[k] # e
      BY <2>1 DEF Contains
    <3>2. CASE i = Len(t) + 1 \/ j = Len(t) + 1
      BY <3>1, <3>2, <2>1
    <3>3. CASE i \in DOMAIN t /\ j \in DOMAIN t
      BY <3>3, <2>1, <1>2 DEF TrailOf, IsInjective
    <3> QED BY <3>2, <3>3, <2>1
  <2>6. \A x \in Range(a) : x \in stored /\ events[x].value = v
    BY <2>1, <2>4, <1>2, ContainedInSeq DEF TrailOf
  <2>7. TrailOf(a, v)
    BY <2>5, <2>6 DEF TrailOf
  <2>8. TrailOf(Appended(t, e), v)
    BY <2>2, <2>7
  <2>9. \A x : Contains(Appended(t, e), x) <=> x = e \/ (t # NoTrail /\ Contains(t, x))
    BY <1>2, <2>2, <2>4
  <2> QED BY <2>1, <2>2, <2>3, <2>8, <2>9
<1> QED BY <1>1, <1>2

LEMMA AfterPushIsTyped ==
  ASSUME IInv, NEW c \in Callers, call[c].pc = "push"
  PROVE  /\ AfterPush(c) \in Call
         /\ ~Inserts(c) => AfterPush(c) = Idle
         /\ Inserts(c) => /\ AfterPush(c).kind = call[c].kind /\ AfterPush(c).done = call[c].done
                          /\ AfterPush(c).pc \in {"settle", "row"} /\ AfterPush(c).value \in Values
                          /\ AfterPush(c).pc = "settle" =>
                               AfterPush(c).value = call[c].value /\ AfterPush(c).event = call[c].event
<1> USE DEF IInv
<1>1. CASE ~Inserts(c)
  BY <1>1, IdleIsTyped DEF AfterPush
<1>2. CASE Inserts(c) /\ call[c].rest = <<>>
  <2>1. AfterPush(c) = [call[c] EXCEPT !.pc = "settle"]
    BY <1>2 DEF AfterPush
  <2>2. call[c].value \in Values
    BY <1>2 DEF PhasesFit, Inserts
  <2> QED BY <1>2, <2>1, <2>2, CallIsTyped DEF Call
<1>3. CASE Inserts(c) /\ call[c].rest # <<>>
  <2>1. AfterPush(c) = [call[c] EXCEPT !.pc = "row", !.value = Head(call[c].rest), !.rest = Tail(@)]
    BY <1>3 DEF AfterPush
  <2>2. Head(call[c].rest) \in Values /\ Tail(call[c].rest) \in Seq(Values)
    BY <1>3, CallIsTyped
  <2> QED BY <1>3, <2>1, <2>2, CallIsTyped DEF Call
<1> QED BY <1>1, <1>2, <1>3

LEMMA PushEventKeeps ==
  ASSUME IInv, NEW c \in Callers, PushEvent(c)
  PROVE  IInv'
<1> USE DEF IInv
<1> DEFINE e == call[c].event
           v == call[c].value
           t == trail["vapp"][v]
<1>f. \A d \in Callers : d # c => call'[d] = call[d]
  BY DEF PushEvent, TypeOK
<1>1. call'[c] = AfterPush(c)
  BY DEF PushEvent, TypeOK
<1>2. /\ call[c].pc = "push" /\ e \in DOMAIN events /\ e \in Nat /\ e # 0 /\ events[e].value = v
      /\ ~Contains(t, e) /\ e \in stored /\ v \in Values
      /\ UNCHANGED <<members, leaves, root, made, total, events, stored, cache, since, settled, calls, faults>>
      /\ UNCHANGED <<lateRows, lateRoots, lateEvents, strays, unaudited, unpushed>>
  BY EventsAreTyped DEF PushEvent, EventsAreInHand, tree, late, TypeOK
<1>3. ~Inserts(c) => call'[c].kind = "none" /\ call'[c].pc = "start" /\ call'[c].done = <<>>
  BY <1>1, <1>2, AfterPushIsTyped DEF Idle
<1>4. Inserts(c) => /\ call'[c].kind = call[c].kind /\ call'[c].done = call[c].done
                    /\ call'[c].pc \in {"settle", "row"} /\ call'[c].value \in Values
                    /\ call'[c].pc = "settle" => call'[c].value = v /\ call'[c].event = e
  BY <1>1, <1>2, AfterPushIsTyped
<1>5. /\ t \in Seq(Nat) /\ Appended(t, e) \in Seq(Nat)
      /\ Appended(t, e) # NoTrail /\ TrailOf(Appended(t, e), v)
      /\ \A x : Contains(Appended(t, e), x) <=> x = e \/ (t # NoTrail /\ Contains(t, x))
  <2>1. t \in Seq(Nat) /\ (t # NoTrail => TrailOf(t, v))
    BY <1>2 DEF TypeOK, Services, TrailsAreTrue
  <2> HIDE DEF e, v, t
  <2> QED BY <2>1, <1>2, AppendedTrail
<1>6. /\ trail'["vapp"][v] = Appended(t, e) /\ trail'["ads"] = trail["ads"]
      /\ \A w \in Values : w # v => trail'["vapp"][w] = trail["vapp"][w]
      /\ trail' \in [Services -> [Values -> Seq(Nat)]]
  <2>1. trail' = [trail EXCEPT !["vapp"][v] = Appended(t, e)]
    BY DEF PushEvent
  <2> HIDE DEF e, v, t
  <2> QED BY <2>1, <1>2, <1>5 DEF TypeOK, Services
<1>t. t = trail["vapp"][v]
  OBVIOUS
<1> HIDE DEF e, v, t
<1>7. TypeOK'
  <2>1. call' \in [Callers -> Call]
    BY <1>1, <1>2, AfterPushIsTyped DEF TypeOK, PushEvent
  <2> QED BY <2>1, <1>2, <1>6 DEF TypeOK
<1>8. CountsAreBounded'
  BY <1>2 DEF CountsAreBounded
<1>9. PhasesFit'
  <2>1. CASE Inserts(c)
    BY <2>1, <1>f, <1>2, <1>4 DEF PhasesFit, Inserts, Proves
  <2>2. CASE ~Inserts(c)
    BY <2>2, <1>f, <1>3 DEF PhasesFit, Inserts, Proves
  <2> QED BY <2>1, <2>2
<1>10. \A d \in Callers : (Writing(d)' => Writing(d)) /\ (Reading(d)' => Reading(d))
  <2>1. CASE Inserts(c)
    BY <2>1, <1>f, <1>2, <1>4 DEF Writing, Reading, Inserts, Proves
  <2>2. CASE ~Inserts(c)
    BY <2>2, <1>f, <1>3 DEF Writing, Reading, Inserts, Proves
  <2> QED BY <2>1, <2>2
<1>11. \A d \in Callers : call'[d].done # <<>> =>
         call'[d].done = call[d].done /\ LastTransition(d)' = LastTransition(d)
  BY <1>f, <1>3, <1>4 DEF LastTransition
<1>12. LockIsExclusive'
  BY <1>10 DEF LockIsExclusive
<1>13. TransitionsAreCurrent'
  BY <1>2, <1>10, <1>11 DEF TransitionsAreCurrent
<1>14. \A d \in Callers : call'[d].pc \in {"cache", "store", "push", "look", "submit", "audit", "keep"} =>
         d # c /\ call'[d] = call[d]
  BY <1>f, <1>3, <1>4
<1>15. InsertionsAreOnce'
  <2>1. \A x : IsInsertion(x)' = IsInsertion(x)
    BY <1>2 DEF IsInsertion
  <2>2. ASSUME NEW d \in Callers, Inserts(d)', call'[d].pc = "cache"
        PROVE  call'[d] = call[d] /\ Inserts(d) /\ call[d].pc = "cache" /\ LastTransition(d)' = LastTransition(d)
    BY <2>2, <1>14 DEF Inserts, LastTransition
  <2>3. \A r, x : Follows(r, x)' <=> Follows(r, x)
    BY <1>2 DEF Follows
  <2> QED BY <2>1, <2>2, <1>2 DEF InsertionsAreOnce, Follows
<1>16. InsertionsAreOnTheirWay'
  BY <1>f, <1>2 DEF InsertionsAreOnTheirWay, InsertionEvents, Inserts
<1>17. EventsAreInHand'
  <2>1. ASSUME NEW d \in Callers, call'[d].pc \in {"store", "push"}
        PROVE  /\ call'[d].event \in DOMAIN events'
               /\ events'[call'[d].event].value = call'[d].value
               /\ Inserts(d)' => IsInsertion(call[d].event)'
               /\ ~Contains(trail'["vapp"][call'[d].value], call'[d].event)
               /\ call'[d].pc = "push" => call'[d].event \in stored'
    <3>1. d # c /\ call'[d] = call[d] /\ call[d].pc \in {"store", "push"}
      BY <2>1, <1>14
    <3>2. /\ call[d].event \in DOMAIN events /\ events[call[d].event].value = call[d].value
          /\ Inserts(d) => IsInsertion(call[d].event)
          /\ ~Contains(trail["vapp"][call[d].value], call[d].event)
          /\ call[d].pc = "push" => call[d].event \in stored
      BY <3>1 DEF EventsAreInHand
    <3>3. call[d].event # e /\ call[d].value \in Values
      BY <3>1, <3>2, <1>2, EventsAreTyped DEF EventsAreInHand, e
    <3>4. ~Contains(trail'["vapp"][call[d].value], call[d].event)
      BY <3>2, <3>3, <1>5, <1>6, <1>t
    <3> QED BY <3>1, <3>2, <3>4, <1>2 DEF IsInsertion, Inserts
  <2>2. ASSUME NEW d \in Callers, Inserts(d)' /\ call'[d].pc \in {"settle", "look", "submit", "audit"}
        PROVE  call'[d].event # 0 /\ Contains(trail'["vapp"][call'[d].value], call'[d].event)
    <3>1. CASE d = c
      <4>1. Inserts(c) /\ call'[c].value = v /\ call'[c].event = e
        BY <3>1, <2>2, <1>3, <1>4
      <4>2. Contains(Appended(t, e), e)
        BY <1>5
      <4> QED BY <3>1, <4>1, <4>2, <1>2, <1>6
    <3>2. CASE d # c
      <4>1. /\ call'[d] = call[d] /\ call[d].event # 0
            /\ Contains(trail["vapp"][call[d].value], call[d].event)
        BY <3>2, <2>2, <1>f DEF EventsAreInHand, Inserts
      <4>2. call[d].value \in Values
        <5>1. call'[d] = call[d]
          BY <3>2, <1>f
        <5> QED BY <5>1, <2>2 DEF PhasesFit, Inserts, Proves
      <4>3. Contains(NoTrail, call[d].event) => call[d].event = 0
        BY DEF NoTrail, Contains
      <4> QED BY <4>1, <4>2, <4>3, <1>5, <1>6, <1>t
    <3> QED BY <3>1, <3>2
  <2>3. ASSUME NEW d1 \in Callers, NEW d2 \in Callers, d1 # d2,
               {call'[d1].pc, call'[d2].pc} \subseteq {"store", "push"}
        PROVE  call'[d1].event # call'[d2].event
    BY <2>3, <1>14 DEF EventsAreInHand
  <2> QED BY <2>1, <2>2, <2>3 DEF EventsAreInHand
<1>18. \A s, w : TrailOf(s, w) => TrailOf(s, w)'
  BY <1>2 DEF TrailOf
<1>19. LoadedAreTrails'
  BY <1>14, <1>18 DEF LoadedAreTrails
<1>20. TrailsAreTrue'
  <2>1. ASSUME NEW s \in Services, NEW w \in Values, trail'[s][w] # NoTrail
        PROVE  TrailOf(trail[s][w], w)'
    <3>1. CASE s = "vapp" /\ w = v
      <4>1. TrailOf(Appended(t, e), w)
        BY <3>1, <1>5
      <4>2. trail'[s][w] = Appended(t, e)
        BY <3>1, <1>6
      <4> QED BY <3>1, <4>1, <4>2, <1>18
    <3>2. CASE ~(s = "vapp" /\ w = v)
      <4>1. trail'[s][w] = trail[s][w]
        BY <3>2, <1>6 DEF Services
      <4>2. TrailOf(trail[s][w], w)
        BY <4>1, <2>1 DEF TrailsAreTrue
      <4> QED BY <4>1, <4>2, <1>18
    <3> QED BY <3>1, <3>2
  <2>2. ASSUME NEW x \in stored, x > since, x \notin unpushed, ~\E d \in Callers : call'[d].pc = "push" /\ call'[d].event = x
        PROVE  trail'["vapp"][events[x].value] # NoTrail /\ Contains(trail'["vapp"][events[x].value], x)
    <3>1. CASE x = e
      <4>1. Contains(Appended(t, e), e)
        BY <1>5
      <4> QED BY <3>1, <4>1, <1>2, <1>5, <1>6
    <3>2. CASE x # e
      <4>1. ~\E d \in Callers : call[d].pc = "push" /\ call[d].event = x
        BY <3>2, <2>2, <1>f, <1>2 DEF e
      <4>2. trail["vapp"][events[x].value] # NoTrail /\ Contains(trail["vapp"][events[x].value], x)
        BY <4>1, <2>2 DEF TrailsAreTrue
      <4>3. events[x].value \in Values
        BY EventsAreTyped DEF TypeOK
      <4> QED BY <4>2, <4>3, <1>5, <1>6, <1>t
    <3> QED BY <3>1, <3>2
  <2> QED BY <2>1, <2>2, <1>2 DEF TrailsAreTrue
<1>21. \A d \in Submitting' : call'[d] = call[d] /\ d \in Callers /\ d \in Submitting
  BY <1>14 DEF Submitting, Inserts
<1>22. LateEventsAreLost'
  BY <1>2 DEF LateEventsAreLost
<1>24. SettlementsFit'
  BY <1>2, <1>21 DEF SettlementsFit, Covers, LastTransition
<1>25. BatchIsContiguous'
  BY <1>f, <1>2, <1>3, <1>4 DEF BatchIsContiguous
<1>26. SettlementCoversInsertion'
  BY <1>2 DEF SettlementCoversInsertion
<1> QED BY <1>7, <1>8, <1>9, <1>12, <1>13, <1>15, <1>16, <1>17, <1>19, <1>20, <1>22, <1>24, <1>25, <1>26

-----------------------------------------------------------------------------
(***************************************************************************)
(* The rest of the workflow                                                *)
(***************************************************************************)

\* The commitment of a service to the current root is the one that all have.
-----------------------------------------------------------------------------
(***************************************************************************)
(* The rest of the workflow                                                *)
(***************************************************************************)

\* A call takes a step that touches neither the tree nor the audit trails.
LEMMA CallMovesOn ==
  ASSUME IInv, NEW c \in Callers,
         call' \in [Callers -> Call], \A d \in Callers : d # c => call'[d] = call[d],
         call'[c].kind = call[c].kind, call'[c].value = call[c].value,
         call'[c].done = call[c].done, call'[c].event = call[c].event,
         \/ /\ Inserts(c) /\ call[c].pc \in {"settle", "look", "submit"}
            /\ call'[c].pc \in {"look", "submit", "audit"} /\ MayRead
         \/ /\ Inserts(c) /\ call[c].pc \in {"look", "submit"} /\ call'[c].pc \in {"submit", "audit"}
            /\ Reading(c)' => Reading(c)
         \/ /\ call[c].kind \in {"commitment", "stats"} /\ call[c].pc = "start" /\ call'[c].pc = "look"
            /\ call[c].kind = "stats" \/ MayRead
         \/ /\ call[c].kind = "trail" /\ call[c].pc = "start" /\ call'[c].pc = "keep"
            /\ TrailOf(call'[c].loaded, call[c].value),
         c \in Submitting' => Covers(call'[c].commitment.root, LastTransition(c).after),
         cache' \in [Services -> SUBSET Commitment],
         settled' \subseteq [after: Roots, commitment: Commitment],
         \A x \in settled' : x.commitment.root >= x.after \/ x.commitment.root \in strays,
         UNCHANGED <<tree, audit, since, late, calls, faults>>
  PROVE  IInv'
<1> USE DEF IInv
<1>1. /\ UNCHANGED <<members, leaves, root, made, total, events, stored, trail, since, calls, faults>>
      /\ UNCHANGED <<lateRows, lateRoots, lateEvents, strays, unaudited, unpushed>>
  BY DEF tree, audit, late
<1>2. /\ call[c].pc \in {"settle", "look", "submit", "start"}
      /\ call'[c].pc \in {"look", "submit", "audit", "keep"}
      /\ Inserts(c) => call[c].pc # "start" /\ call'[c].pc # "keep"
      /\ ~Inserts(c) => call'[c].pc \in {"keep", "look"} /\ ~Proves(c)
      /\ call'[c].pc = "keep" => call[c].kind = "trail"
  BY DEF Inserts, Proves
<1>3. TypeOK'
  BY <1>1 DEF TypeOK
<1>4. CountsAreBounded'
  BY <1>1 DEF CountsAreBounded
<1>5. PhasesFit'
  BY <1>2 DEF PhasesFit, Inserts, Proves
<1>6. \A d \in Callers : Writing(d)' = Writing(d) /\ LastTransition(d)' = LastTransition(d)
  BY <1>2 DEF Writing, Inserts, LastTransition
<1>7. LockIsExclusive'
  <2>1. \A d \in Callers : d # c => Reading(d)' = Reading(d)
    BY DEF Reading, Inserts, Proves
  <2>2. Reading(c)' => MayRead \/ Reading(c)
    BY <1>2 DEF Reading, Proves, Inserts
  <2> QED BY <1>6, <2>1, <2>2 DEF LockIsExclusive, MayRead
<1>8. TransitionsAreCurrent'
  <2>1. \A d \in Callers : call'[d].done = call[d].done
    OBVIOUS
  <2> QED BY <2>1, <1>1, <1>6 DEF TransitionsAreCurrent
<1>9. InsertionsAreOnce'
  <2>1. \A x : IsInsertion(x)' = IsInsertion(x)
    BY <1>1 DEF IsInsertion
  <2>2. \A d \in Callers : Inserts(d)' /\ call'[d].pc = "cache" =>
          Inserts(d) /\ call[d].pc = "cache" /\ call'[d].value = call[d].value
    BY <1>2 DEF Inserts
  <2>3. \A r, x : Follows(r, x)' <=> Follows(r, x)
    BY <1>1 DEF Follows
  <2> QED BY <2>1, <2>2, <1>1, <1>6 DEF InsertionsAreOnce, Follows
<1>10. InsertionsAreOnTheirWay'
  BY <1>1, <1>2 DEF InsertionsAreOnTheirWay, InsertionEvents, Inserts
<1>11. EventsAreInHand'
  BY <1>1, <1>2 DEF EventsAreInHand, IsInsertion, Inserts
<1>12. LateEventsAreLost'
  BY <1>1 DEF LateEventsAreLost
<1>13. LoadedAreTrails'
  BY <1>1, <1>2 DEF LoadedAreTrails, TrailOf
<1>14. TrailsAreTrue'
  BY <1>1, <1>2 DEF TrailsAreTrue, TrailOf
<1>15. SettlementsFit'
  <2>1. \A d \in Submitting' : d \in Callers /\ (d # c => d \in Submitting /\ call'[d] = call[d])
    BY DEF Submitting, Inserts
  <2>2. ASSUME NEW d \in Submitting'
        PROVE  call'[d].commitment.root >= LastTransition(d)'.after \/ call'[d].commitment.root \in strays'
    BY <2>1, <1>1, <1>6 DEF SettlementsFit, Covers
  <2> QED BY <2>2 DEF SettlementsFit, Covers
<1>16. BatchIsContiguous'
  BY <1>1 DEF BatchIsContiguous
<1>17. SettlementCoversInsertion'
  BY <1>1 DEF SettlementCoversInsertion
<1> QED BY <1>3, <1>4, <1>5, <1>7, <1>8, <1>9, <1>10, <1>11, <1>12, <1>13, <1>14, <1>15, <1>16, <1>17

\* A commitment is found or made: the call goes on with it, or is over.
LEMMA GivenIsTyped ==
  ASSUME TypeOK, NEW c \in Callers, NEW k \in Commitment, Inserts(c)
  PROVE  /\ Given(c, k) \in Call /\ Given(c, k).kind = call[c].kind /\ Given(c, k).value = call[c].value
         /\ Given(c, k).done = call[c].done /\ Given(c, k).event = call[c].event
         /\ Given(c, k).pc = "submit" /\ Given(c, k).commitment = k
<1>1. call[c] \in Call /\ "submit" \in {"start", "row", "cache", "store", "push", "settle", "look",
                                        "submit", "audit", "keep"}
  BY CallIsTyped
<1>2. Given(c, k) = [call[c] EXCEPT !.pc = "submit", !.commitment = k]
  BY DEF Given
<1>3. Given(c, k) \in Call
  BY <1>1, <1>2 DEF Call
<1> QED BY <1>1, <1>2, <1>3 DEF Call

\* The current root covers the insertion of a call that asks for a commitment to it.
LEMMA RootCovers ==
  ASSUME IInv, NEW c \in Callers, call[c].done # <<>>
  PROVE  Covers(root, LastTransition(c).after) /\ LastTransition(c).after \in Roots
<1> USE DEF IInv
<1>1. LastTransition(c) \in Transition
  BY CallIsTyped, LastOfSeq DEF LastTransition
<1>2. LastTransition(c).after \in Roots /\ LastTransition(c).after \in Nat
  BY <1>1 DEF Transition, Roots
<1> QED BY <1>2, CountsAreTyped DEF TransitionsAreCurrent, Covers

LEMMA ReadRootKeeps ==
  ASSUME IInv, NEW c \in Callers, ReadRoot(c)
  PROVE  IInv'
<1> USE DEF IInv
<1> DEFINE k == [root |-> root, count |-> 0]
<1>1. /\ UNCHANGED <<tree, audit, cache, since, settled, late, calls, faults>>
      /\ UNCHANGED strays
      /\ call' = [call EXCEPT ![c].pc = "look", ![c].commitment = k]
      /\ \/ call[c].kind = "stats" /\ call[c].pc = "start"
         \/ call[c].kind = "commitment" /\ call[c].pc = "start" /\ MayRead
         \/ Inserts(c) /\ call[c].pc = "settle" /\ MayRead /\ call[c].done # <<>>
  BY DEF ReadRoot, AsksForCommitment, late, PhasesFit, Inserts, Proves
<1>2. /\ cache' \in [Services -> SUBSET Commitment]
      /\ settled' \subseteq [after: Roots, commitment: Commitment]
      /\ \A x \in settled' : x.commitment.root >= x.after \/ x.commitment.root \in strays
      /\ \A x \in settled' : x.commitment.root >= x.after \/ x.commitment.root \in strays'
  BY <1>1, SettledFit
<1>3. k \in Commitment /\ k.root = root
  BY CountsAreTyped, SizeOfMembers DEF Commitment
<1> HIDE DEF k
<1>4. /\ call'[c] = [call[c] EXCEPT !.pc = "look", !.commitment = k]
      /\ \A d \in Callers : d # c => call'[d] = call[d]
  BY <1>1 DEF TypeOK
<1>5. call[c] \in Call /\ "look" \in {"start", "row", "cache", "store", "push", "settle", "look",
                                      "submit", "audit", "keep"}
  BY CallIsTyped
<1>6. call'[c] \in Call
  BY <1>3, <1>4, <1>5 DEF Call
<1>7. /\ call'[c].kind = call[c].kind /\ call'[c].value = call[c].value
      /\ call'[c].done = call[c].done /\ call'[c].event = call[c].event
      /\ call'[c].pc = "look" /\ call'[c].commitment = k
  BY <1>4, <1>5 DEF Call
<1>8. call' \in [Callers -> Call]
  BY <1>1, <1>4, <1>6 DEF TypeOK
<1>9. c \in Submitting' => Covers(call'[c].commitment.root, LastTransition(c).after)
  BY <1>1, <1>3, <1>7, RootCovers DEF Submitting, Inserts
<1>10. \/ Inserts(c) /\ call[c].pc = "settle" /\ MayRead
       \/ /\ call[c].kind \in {"commitment", "stats"} /\ call[c].pc = "start"
          /\ call[c].kind = "stats" \/ MayRead
  BY <1>1
<1> QED BY <1>1, <1>2, <1>4, <1>7, <1>8, <1>9, <1>10, CallMovesOn

LEMMA GetCommitmentKeeps ==
  ASSUME IInv, NEW c \in Callers, GetCommitment(c)
  PROVE  IInv'
<1> USE DEF IInv
<1> DEFINE new == CommitmentTo(call[c].commitment.root)
<1>1. /\ call[c].pc = "look" /\ UNCHANGED <<tree, audit, since, settled, late, calls, faults>>
      /\ UNCHANGED strays
  BY DEF GetCommitment, late
<1>2. new \in Commitment /\ new.root = call[c].commitment.root
  <2>1. call[c].commitment.root \in Roots
    BY CallIsTyped DEF Commitment
  <2> QED BY <2>1, CommitmentToIsTyped
<1>3. PICK k \in Commitment :
        /\ k.root = call[c].commitment.root
        /\ call' = [call EXCEPT ![c] = Given(c, k)]
        /\ cache' \in [Services -> SUBSET Commitment]
  <2>1. ServiceOf(c) \in Services
    BY DEF ServiceOf, Services
  <2>2. CASE \E k \in Cached(ServiceOf(c), new.root) : cache' = cache /\ call' = [call EXCEPT ![c] = Given(c, k)]
    BY <2>1, <2>2, <1>2 DEF Cached, TypeOK
  <2>3. CASE /\ cache' = [cache EXCEPT ![ServiceOf(c)] = Put(cache[ServiceOf(c)], new)]
             /\ call' = [call EXCEPT ![c] = Given(c, new)]
    <3>1. Put(cache[ServiceOf(c)], new) \subseteq cache[ServiceOf(c)] \cup {new}
      BY DEF Put
    <3>2. cache' \in [Services -> SUBSET Commitment]
      BY <2>1, <2>3, <3>1, <1>2 DEF TypeOK
    <3> QED BY <2>3, <3>2, <1>2
  <2> QED BY <2>2, <2>3 DEF GetCommitment
<1> HIDE DEF new
<1>4. /\ settled' \subseteq [after: Roots, commitment: Commitment]
      /\ \A x \in settled' : x.commitment.root >= x.after \/ x.commitment.root \in strays
      /\ \A x \in settled' : x.commitment.root >= x.after \/ x.commitment.root \in strays'
  BY <1>1 DEF TypeOK, SettlementCoversInsertion
<1>5. call'[c] = Given(c, k) /\ \A d \in Callers : d # c => call'[d] = call[d]
  BY <1>3 DEF TypeOK
<1>6. CASE Inserts(c)
  <2>1. /\ call'[c] \in Call /\ call'[c].kind = call[c].kind /\ call'[c].value = call[c].value
        /\ call'[c].done = call[c].done /\ call'[c].event = call[c].event
        /\ call'[c].pc = "submit" /\ call'[c].commitment = k
    BY <1>5, <1>6, GivenIsTyped
  <2>2. call' \in [Callers -> Call]
    BY <1>3, <1>5, <2>1 DEF TypeOK
  <2>3. c \in Submitting /\ Reading(c)
    BY <1>1, <1>6 DEF Submitting, Reading, Inserts
  <2>4. Covers(call'[c].commitment.root, LastTransition(c).after)
    BY <1>3, <2>1, <2>3 DEF SettlementsFit
  <2> QED BY <1>1, <1>3, <1>4, <1>5, <1>6, <2>1, <2>2, <2>3, <2>4, CallMovesOn
<1>7. CASE ~Inserts(c)
  <2>1. End(c)
    BY <1>3, <1>7 DEF Given, End
  <2> QED BY <1>1, <1>3, <1>4, <1>7, <2>1, CallIsDone
<1> QED BY <1>6, <1>7

LEMMA SubmitCommitmentKeeps ==
  ASSUME IInv, NEW c \in Callers, SubmitCommitment(c)
  PROVE  IInv'
<1> USE DEF IInv
<1> DEFINE new == [after |-> LastTransition(c).after, commitment |-> call[c].commitment]
<1>1. /\ call[c].pc = "submit" /\ c \in Submitting /\ Inserts(c) /\ call[c].done # <<>>
      /\ settled' \subseteq settled \cup {new}
      /\ UNCHANGED <<tree, audit, cache, since, late, calls, faults>> /\ UNCHANGED strays
  BY DEF SubmitCommitment, LastTransition, Submitting, PhasesFit, Inserts, Proves, late
<1>2. /\ new \in [after: Roots, commitment: Commitment]
      /\ new.commitment.root >= new.after \/ new.commitment.root \in strays
  BY <1>1, RootCovers, CallIsTyped DEF SettlementsFit, Covers
<1> HIDE DEF new
<1>3. /\ settled' \subseteq [after: Roots, commitment: Commitment]
      /\ \A x \in settled' : x.commitment.root >= x.after \/ x.commitment.root \in strays
      /\ \A x \in settled' : x.commitment.root >= x.after \/ x.commitment.root \in strays'
  BY <1>1, <1>2 DEF TypeOK, SettlementCoversInsertion
<1>4. cache' \in [Services -> SUBSET Commitment]
  BY <1>1 DEF TypeOK
<1>5. CASE call[c].kind = "insert"
  <2>1. /\ call'[c] = [call[c] EXCEPT !.pc = "audit"]
        /\ \A d \in Callers : d # c => call'[d] = call[d]
    BY <1>5 DEF SubmitCommitment, Go, TypeOK
  <2>2. /\ call'[c] \in Call /\ call'[c].kind = call[c].kind /\ call'[c].value = call[c].value
        /\ call'[c].done = call[c].done /\ call'[c].event = call[c].event /\ call'[c].pc = "audit"
    BY <2>1, CallIsTyped DEF Call
  <2>3. call' \in [Callers -> Call]
    BY <1>5, <2>1, <2>2 DEF TypeOK, SubmitCommitment, Go
  <2>4. ~Reading(c)' /\ c \notin Submitting'
    BY <1>5, <2>2 DEF Reading, Submitting, Proves
  <2> QED BY <1>1, <1>3, <1>4, <2>1, <2>2, <2>3, <2>4, CallMovesOn
<1>6. CASE call[c].kind # "insert"
  <2>1. End(c)
    BY <1>6 DEF SubmitCommitment
  <2> QED BY <1>1, <1>3, <1>4, <2>1, CallIsDone
<1> QED BY <1>5, <1>6

-----------------------------------------------------------------------------
(***************************************************************************)
(* Proofs and trails                                                       *)
(***************************************************************************)

LEMMA ProofKeeps ==
  ASSUME IInv, NEW c \in Callers, ProveMembership(c) \/ ProveNonMembership(c)
  PROVE  IInv'
<1> USE DEF IInv
<1>1. /\ Proves(c) /\ call[c].pc = "start" /\ MayRead /\ ~Inserts(c)
      /\ UNCHANGED <<tree, cache, since, settled, late, calls, faults>> /\ UNCHANGED strays
  BY DEF ProveMembership, ProveNonMembership, Proves, Inserts, late
<1>2. /\ cache' \in [Services -> SUBSET Commitment]
      /\ settled' \subseteq [after: Roots, commitment: Commitment]
      /\ \A x \in settled' : x.commitment.root >= x.after \/ x.commitment.root \in strays'
  BY <1>1, SettledFit
<1>3. ASSUME NEW kind \in {"membership", "nonmembership"}, MakeEvent(c, kind, root, root)
      PROVE  IInv'
  BY <1>1, <1>2, <1>3, CountsAreTyped, EventIsMade
<1>4. ASSUME End(c), UNCHANGED audit PROVE IInv'
  BY <1>1, <1>2, <1>4, CallIsDone
<1> QED BY <1>3, <1>4 DEF ProveMembership, ProveNonMembership

\* What is read from the database in the order of the timestamps is a trail.
LEMMA InOrderIsTrail ==
  ASSUME TypeOK, NEW v \in Values, NEW t \in InOrder(StoredEvents(v))
  PROVE  t \in Seq(Nat) /\ TrailOf(t, v)
<1> DEFINE S == StoredEvents(v)
<1>1. /\ S \subseteq stored /\ S \subseteq 1 .. Len(events) /\ S \subseteq Nat
      /\ \A e \in S : events[e].value = v
  BY DEF TypeOK, StoredEvents
<1>2. Cardinality(S) \in Nat
  <2>1. IsFiniteSet(1 .. Len(events))
    BY FS_Interval DEF TypeOK
  <2> QED BY <1>1, <2>1, FS_Subset, FS_CardinalityType
<1>3. t \in [1 .. Cardinality(S) -> S] /\ \A i, j \in DOMAIN t : i < j => t[i] < t[j]
  BY DEF InOrder
<1> HIDE DEF S
<1>4. t \in Seq(Nat)
  <2>1. t \in [1 .. Cardinality(S) -> Nat]
    BY <1>1, <1>3
  <2> QED BY <1>2, <2>1, IsASeq
<1>5. IsInjective(t)
  <2> SUFFICES ASSUME NEW i \in DOMAIN t, NEW j \in DOMAIN t, t[i] = t[j], i # j PROVE FALSE
    BY DEF IsInjective
  <2>1. DOMAIN t = 1 .. Cardinality(S) /\ t[i] \in S
    BY <1>3
  <2>2. t[i] \in Nat
    BY <1>1, <2>1
  <2>3. i \in 1 .. Cardinality(S) /\ j \in 1 .. Cardinality(S)
    BY <2>1
  <2>4. ~(i < j) /\ ~(j < i)
    BY <2>2, <2>3, <1>3
  <2> QED BY <2>3, <2>4
<1>6. \A e \in Range(t) : e \in stored /\ events[e].value = v
  BY <1>1, <1>3 DEF Range
<1> QED BY <1>4, <1>5, <1>6 DEF TrailOf

LEMMA ReadTrailKeeps ==
  ASSUME IInv, NEW c \in Callers, ReadTrail(c)
  PROVE  IInv'
<1> USE DEF IInv
<1>1. /\ call[c].kind = "trail" /\ call[c].pc = "start" /\ ~Inserts(c) /\ call[c].value \in Values
      /\ UNCHANGED <<tree, audit, cache, since, settled, late, calls, faults>> /\ UNCHANGED strays
  BY DEF ReadTrail, Inserts, PhasesFit, late
<1>2. /\ cache' \in [Services -> SUBSET Commitment]
      /\ settled' \subseteq [after: Roots, commitment: Commitment]
      /\ \A x \in settled' : x.commitment.root >= x.after \/ x.commitment.root \in strays
      /\ \A x \in settled' : x.commitment.root >= x.after \/ x.commitment.root \in strays'
  BY <1>1, SettledFit
<1>3. CASE End(c)
  BY <1>1, <1>2, <1>3, CallIsDone
<1>4. CASE \E t \in InOrder(StoredEvents(call[c].value)) :
             call' = [call EXCEPT ![c].pc = "keep", ![c].loaded = t]
  <2>1. PICK t \in InOrder(StoredEvents(call[c].value)) :
          call' = [call EXCEPT ![c].pc = "keep", ![c].loaded = t]
    BY <1>4
  <2>2. t \in Seq(Nat) /\ TrailOf(t, call[c].value)
    BY <1>1, InOrderIsTrail
  <2>3. /\ call'[c] = [call[c] EXCEPT !.pc = "keep", !.loaded = t]
        /\ \A d \in Callers : d # c => call'[d] = call[d]
    BY <2>1 DEF TypeOK
  <2>4. /\ call'[c] \in Call /\ call'[c].kind = call[c].kind /\ call'[c].value = call[c].value
        /\ call'[c].done = call[c].done /\ call'[c].event = call[c].event
        /\ call'[c].pc = "keep" /\ call'[c].loaded = t
    BY <2>2, <2>3, CallIsTyped DEF Call
  <2>5. call' \in [Callers -> Call]
    BY <2>1, <2>3, <2>4 DEF TypeOK
  <2>6. c \notin Submitting'
    BY <2>4 DEF Submitting
  <2> QED BY <1>1, <1>2, <2>2, <2>3, <2>4, <2>5, <2>6, CallMovesOn
<1> QED BY <1>3, <1>4 DEF ReadTrail

LEMMA KeepTrailKeeps ==
  ASSUME IInv, NEW c \in Callers, KeepTrail(c)
  PROVE  IInv'
<1> USE DEF IInv
<1>1. /\ call[c].pc = "keep" /\ call[c].kind = "trail" /\ call[c].value \in Values
      /\ UNCHANGED <<members, leaves, root, made, total, events, stored, cache, since, settled, calls, faults>>
      /\ UNCHANGED <<lateRows, lateRoots, lateEvents, strays, unaudited, unpushed>>
  BY DEF KeepTrail, PhasesFit, tree, late
<1>2. call'[c] = Idle /\ \A d \in Callers : d # c => call'[d] = call[d]
  BY DEF KeepTrail, End, TypeOK
<1>3. Idle.kind = "none" /\ Idle.pc = "start" /\ Idle.done = <<>>
  BY DEF Idle
<1>4. /\ trail' \in [Services -> [Values -> Seq(Nat)]] /\ trail'["vapp"] = trail["vapp"]
      /\ trail'["ads"][call[c].value] = call[c].loaded
      /\ \A v \in Values : v # call[c].value => trail'["ads"][v] = trail["ads"][v]
  <2>1. trail' = [trail EXCEPT !["ads"][call[c].value] = call[c].loaded]
    BY DEF KeepTrail
  <2>2. call[c].loaded \in Seq(Nat)
    BY CallIsTyped
  <2> QED BY <1>1, <2>1, <2>2 DEF TypeOK, Services
<1>5. TypeOK'
  <2>1. call' \in [Callers -> Call]
    BY IdleIsTyped DEF TypeOK, KeepTrail, End
  <2> QED BY <1>1, <1>4, <2>1 DEF TypeOK
<1>6. CountsAreBounded'
  BY <1>1 DEF CountsAreBounded
<1>7. PhasesFit'
  BY <1>2, <1>3 DEF PhasesFit, Inserts, Proves
<1>8. LockIsExclusive' /\ \A d \in Callers : Writing(d)' => Writing(d)
  BY <1>2, <1>3 DEF LockIsExclusive, Writing, Reading, Inserts, Proves
<1>9. TransitionsAreCurrent'
  BY <1>1, <1>2, <1>3 DEF TransitionsAreCurrent, LastTransition, Writing, Inserts
<1>10. InsertionsAreOnce'
  BY <1>1, <1>2, <1>3 DEF InsertionsAreOnce, IsInsertion, Follows, LastTransition, Inserts
<1>11. InsertionsAreOnTheirWay'
  BY <1>1, <1>2 DEF InsertionsAreOnTheirWay, InsertionEvents, Inserts
<1>12. EventsAreInHand'
  <2>1. \A d \in Callers : call'[d].pc \in {"store", "push", "settle", "look", "submit", "audit"} =>
          d # c /\ call'[d] = call[d]
    BY <1>2, <1>3
  <2>2. ASSUME NEW d \in Callers
        PROVE  /\ call'[d].pc \in {"store", "push"} =>
                    /\ call'[d].event \in DOMAIN events'
                    /\ events'[call'[d].event].value = call'[d].value
                    /\ Inserts(d)' => IsInsertion(call[d].event)'
                    /\ ~Contains(trail'["vapp"][call'[d].value], call'[d].event)
               /\ call'[d].pc = "push" => call'[d].event \in stored'
               /\ Inserts(d)' /\ call'[d].pc \in {"settle", "look", "submit", "audit"} =>
                    /\ call'[d].event # 0
                    /\ Contains(trail'["vapp"][call'[d].value], call'[d].event)
    BY <1>1, <1>4, <2>1 DEF EventsAreInHand, IsInsertion, Inserts
  <2>3. ASSUME NEW d1 \in Callers, NEW d2 \in Callers, d1 # d2,
               {call'[d1].pc, call'[d2].pc} \subseteq {"store", "push"}
        PROVE  call'[d1].event # call'[d2].event
    BY <2>1, <2>3 DEF EventsAreInHand
  <2> QED BY <2>2, <2>3 DEF EventsAreInHand
<1>13. \A t, v : TrailOf(t, v)' <=> TrailOf(t, v)
  BY <1>1 DEF TrailOf
<1>14. LoadedAreTrails'
  BY <1>1, <1>2, <1>3 DEF LoadedAreTrails, TrailOf
<1>15. TrailsAreTrue'
  <2>1. ASSUME NEW s \in Services, NEW v \in Values, trail'[s][v] # NoTrail
        PROVE  TrailOf(trail[s][v], v)'
    <3>1. CASE s = "ads" /\ v = call[c].value
      BY <3>1, <1>1, <1>4 DEF LoadedAreTrails, TrailOf
    <3>2. CASE ~(s = "ads" /\ v = call[c].value)
      <4>1. trail'[s][v] = trail[s][v]
        BY <3>2, <1>4 DEF Services
      <4>2. TrailOf(trail[s][v], v)
        BY <4>1, <2>1 DEF TrailsAreTrue
      <4> QED BY <4>1, <4>2, <1>1 DEF TrailOf
    <3> QED BY <3>1, <3>2
  <2>2. ASSUME NEW e \in stored, e > since
        PROVE  \/ trail["vapp"][events[e].value] # NoTrail /\ Contains(trail["vapp"][events[e].value], e)
               \/ \E d \in Callers : call'[d].pc = "push" /\ call'[d].event = e
               \/ e \in unpushed
    BY <2>2, <1>1, <1>2 DEF TrailsAreTrue
  <2> QED BY <2>1, <2>2, <1>1, <1>4 DEF TrailsAreTrue
<1>16. LateEventsAreLost'
  BY <1>1 DEF LateEventsAreLost
<1>17. \A d \in Submitting' : d \in Submitting /\ d \in Callers /\ call'[d] = call[d]
  BY <1>2, <1>3 DEF Submitting, Inserts
<1>18. SettlementsFit'
  BY <1>1, <1>17 DEF SettlementsFit, Covers, LastTransition
<1>19. BatchIsContiguous'
  BY <1>1, <1>2, <1>3 DEF BatchIsContiguous
<1>20. SettlementCoversInsertion'
  BY <1>1 DEF SettlementCoversInsertion
<1> QED BY <1>5, <1>6, <1>7, <1>8, <1>9, <1>10, <1>11, <1>12, <1>14, <1>15, <1>16, <1>18, <1>19, <1>20

-----------------------------------------------------------------------------
(***************************************************************************)
(* The start, restarts, and the theorems                                   *)
(***************************************************************************)

LEMMA InitHolds == Init => IInv
<1> SUFFICES ASSUME Init PROVE IInv
  OBVIOUS
<1> USE DEF Init
<1>1. \A c \in Callers : call[c].kind = "none" /\ call[c].pc = "start" /\ call[c].done = <<>>
  BY DEF Idle
<1>2. Cardinality(Values) \in Nat
  BY SizeOfMembers
<1>3. TypeOK
  <2>1. call \in [Callers -> Call]
    BY IdleIsTyped
  <2>2. trail \in [Services -> [Values -> Seq(Nat)]]
    BY DEF NoTrail
  <2>3. events \in Seq(Event) /\ stored \subseteq DOMAIN events /\ since \in 0 .. Len(events)
    OBVIOUS
  <2>4. calls \in 0 .. MaxCalls /\ faults \in 0 .. MaxFaults
    BY AdsAssumption DEF AdsAssumption
  <2> QED BY <1>2, <2>1, <2>2, <2>3, <2>4 DEF TypeOK, Roots
<1>4. CountsAreBounded
  BY FS_EmptySet DEF CountsAreBounded
<1>5. PhasesFit /\ LockIsExclusive
  BY <1>1 DEF PhasesFit, LockIsExclusive, Writing, Reading, Inserts, Proves
<1>6. LateEventsAreLost /\ TransitionsAreCurrent /\ InsertionsAreOnce /\ InsertionsAreOnTheirWay
  BY <1>1 DEF LateEventsAreLost, TransitionsAreCurrent, InsertionsAreOnce, InsertionsAreOnTheirWay, Inserts
<1>7. EventsAreInHand /\ LoadedAreTrails /\ TrailsAreTrue
  BY <1>1 DEF EventsAreInHand, LoadedAreTrails, TrailsAreTrue
<1>8. Submitting = {}
  BY <1>1 DEF Submitting
<1>9. SettlementsFit /\ SettlementCoversInsertion
  BY <1>8 DEF SettlementsFit, SettlementCoversInsertion
<1>10. BatchIsContiguous
  BY <1>1 DEF BatchIsContiguous
<1> QED BY <1>3, <1>4, <1>5, <1>6, <1>7, <1>9, <1>10 DEF IInv

LEMMA RestartKeeps ==
  ASSUME IInv, Restart
  PROVE  IInv'
<1> USE DEF IInv
<1>1. /\ \A c \in Callers : call'[c] = Idle
      /\ \A s \in Services, v \in Values : trail'[s][v] = NoTrail
      /\ total' = 1 + Cardinality(members) /\ since' = Len(events)
      /\ faults' \in 0 .. MaxFaults
      /\ UNCHANGED <<members, leaves, root, made, events, stored, settled, calls>>
      /\ UNCHANGED <<lateRows, lateRoots, strays, unpushed>>
  BY AdsAssumption DEF Restart, Fault, TypeOK, AdsAssumption
<1>2. \A c \in Callers : call'[c].kind = "none" /\ call'[c].pc = "start" /\ call'[c].done = <<>>
  BY <1>1 DEF Idle
<1>3. Cardinality(members) \in Nat /\ Cardinality(Values) \in Nat /\ Cardinality(members) <= Cardinality(Values)
  BY SizeOfMembers DEF TypeOK
<1>4. lateEvents' \subseteq DOMAIN events
  <2>1. \A c \in Callers : call[c].pc = "store" => call[c].event \in DOMAIN events
    BY DEF EventsAreInHand
  <2> QED BY <2>1 DEF Restart, TypeOK
<1>5. /\ unaudited \subseteq unaudited' /\ unaudited' \subseteq members
      /\ \A c \in Callers : Inserts(c) /\ call[c].pc \in {"cache", "store"} => call[c].value \in unaudited'
  <2>1. ASSUME NEW c \in Callers, Inserts(c), call[c].pc \in {"cache", "store"}
        PROVE  call[c].value \in members
    <3>1. CASE call[c].pc = "cache"
      BY <2>1, <3>1 DEF InsertionsAreOnce
    <3>2. CASE call[c].pc = "store"
      BY <2>1, <3>2 DEF InsertionsAreOnce, EventsAreInHand
    <3> QED BY <2>1, <3>1, <3>2
  <2>2. unaudited' = unaudited \cup {call[c].value : c \in {d \in Callers : Inserts(d) /\ call[d].pc \in {"cache", "store"}}}
    BY DEF Restart
  <2>3. unaudited' \subseteq members
    BY <2>1, <2>2 DEF TypeOK
  <2> QED BY <2>2, <2>3
<1>6. TypeOK'
  <2>1. call' \in [Callers -> Call]
    BY IdleIsTyped DEF Restart
  <2>2. trail' \in [Services -> [Values -> Seq(Nat)]]
    BY DEF Restart, NoTrail
  <2>3. cache' \in [Services -> SUBSET Commitment]
    <3>1. PICK proven \in SUBSET (0 .. made) : cache' = [s \in Services |-> RebuiltCache(proven)]
      BY DEF Restart
    <3>2. proven \subseteq Roots
      BY <1>3, <3>1, CountsAreTyped DEF TypeOK, Roots
    <3>3. RebuiltCache(proven) \subseteq Commitment
      BY <1>3, <3>2 DEF RebuiltCache, Commitment
    <3> QED BY <3>1, <3>3
  <2>4. since' \in 0 .. Len(events')
    BY <1>1 DEF TypeOK
  <2> QED BY <1>1, <1>3, <1>4, <1>5, <2>1, <2>2, <2>3, <2>4 DEF TypeOK
<1>7. CountsAreBounded'
  BY <1>1 DEF CountsAreBounded
<1>8. PhasesFit' /\ LockIsExclusive'
  BY <1>2 DEF PhasesFit, LockIsExclusive, Writing, Reading, Inserts, Proves
<1>9. TransitionsAreCurrent' /\ BatchIsContiguous'
  BY <1>2 DEF TransitionsAreCurrent, BatchIsContiguous
<1>10. InsertionsAreOnce'
  <2>1. \A r, e : Follows(r, e)' <=> Follows(r, e)
    BY <1>1 DEF Follows
  <2> QED BY <2>1, <1>1, <1>2 DEF InsertionsAreOnce, IsInsertion, Inserts, Follows
<1>11. InsertionsAreOnTheirWay'
  <2>1. \A v : InsertionEvents(v)' = InsertionEvents(v)
    BY <1>1 DEF InsertionEvents
  <2> QED BY <2>1, <1>1, <1>5 DEF InsertionsAreOnTheirWay
<1>12. EventsAreInHand' /\ LoadedAreTrails'
  BY <1>2 DEF EventsAreInHand, LoadedAreTrails
<1>13. LateEventsAreLost'
  <2>1. \A e \in lateEvents' : e <= Len(events)
    BY <1>4 DEF TypeOK
  <2> QED BY <1>1, <2>1 DEF LateEventsAreLost
<1>14. TrailsAreTrue'
  <2>1. \A e \in stored : ~(e > Len(events))
    BY DEF TypeOK
  <2> QED BY <1>1, <2>1 DEF TrailsAreTrue
<1>15. SettlementsFit' /\ SettlementCoversInsertion'
  BY <1>1, <1>2 DEF SettlementsFit, Submitting, SettlementCoversInsertion
<1> QED BY <1>6, <1>7, <1>8, <1>9, <1>10, <1>11, <1>12, <1>13, <1>14, <1>15

LEMMA RequestKeeps ==
  ASSUME IInv, NEW c \in Callers, Requests(c)
  PROVE  IInv'
<1>0. <<>> \in Seq(Values)
  OBVIOUS
<1>1. CASE InsertNullifier(c)
  <2>1. PICK v \in Compliant : Make(c, "insert", v, <<>>)
    BY <1>1 DEF InsertNullifier
  <2>2. v \in Values
    BY AdsAssumption DEF AdsAssumption
  <2> QED BY <1>0, <2>1, <2>2, CallBegins
<1>2. CASE BatchInsertNullifiers(c)
  <2>1. PICK list \in Lists : Len(list) \in 1 .. BatchLimit /\ Make(c, "batch", Head(list), Tail(list))
    BY <1>2 DEF BatchInsertNullifiers
  <2>2. Head(list) \in Values /\ Tail(list) \in Seq(Values)
    BY <2>1, AdsAssumption DEF AdsAssumption
  <2> QED BY <2>1, <2>2, CallBegins
<1>3. CASE MembershipProof(c)
  <2>1. PICK v \in Values : Make(c, "presence", v, <<>>)
    BY <1>3 DEF MembershipProof
  <2> QED BY <1>0, <2>1, CallBegins
<1>4. CASE NonMembershipProof(c)
  <2>1. PICK v \in Values : Make(c, "absence", v, <<>>)
    BY <1>4 DEF NonMembershipProof
  <2> QED BY <1>0, <2>1, CallBegins
<1>5. CASE StateCommitment(c)
  <2>1. Make(c, "commitment", 0, <<>>)
    BY <1>5 DEF StateCommitment
  <2> QED BY <1>0, <2>1, CallBegins
<1>6. CASE TreeStats(c)
  <2>1. Make(c, "stats", 0, <<>>)
    BY <1>6 DEF TreeStats
  <2> QED BY <1>0, <2>1, CallBegins
<1>7. CASE AuditTrail(c)
  <2>1. PICK v \in Values : Make(c, "trail", v, <<>>)
    BY <1>7 DEF AuditTrail
  <2> QED BY <1>0, <2>1, CallBegins
<1> QED BY <1>1, <1>2, <1>3, <1>4, <1>5, <1>6, <1>7 DEF Requests

\* What CallsEnd asks for when a step leaves most of the state as it is
LEMMA AsBefore ==
  ASSUME IInv
  PROVE  /\ members \subseteq Values /\ leaves \subseteq members /\ unaudited \subseteq members
         /\ root \in 0 .. made /\ made \in Nat /\ made <= made /\ made <= Cardinality(members)
         /\ strays \subseteq 1 .. made /\ lateRoots \subseteq 1 .. made /\ lateRows \subseteq Values \ members
         /\ stored \subseteq DOMAIN events /\ unpushed \subseteq DOMAIN events
         /\ lateEvents \subseteq DOMAIN events /\ \A e \in lateEvents : e \in unpushed \/ e <= since
         /\ call \in [Callers -> Call] /\ faults \in 0 .. MaxFaults
BY CountsAreTyped DEF IInv, TypeOK, CountsAreBounded, LateEventsAreLost

\* A call is refused or has been audited.
LEMMA CallIsOver ==
  ASSUME IInv, NEW c \in Callers, InsertRefused(c) \/ AuditOperation(c)
  PROVE  IInv'
<1>1. /\ End(c) /\ call[c].pc \in {"start", "row", "audit"}
      /\ UNCHANGED <<tree, audit, cache, since, settled, late, calls, faults>> /\ UNCHANGED strays
  BY DEF InsertRefused, HasLock, AuditOperation, late
<1>2. /\ cache' \in [Services -> SUBSET Commitment]
      /\ settled' \subseteq [after: Roots, commitment: Commitment]
      /\ \A x \in settled' : x.commitment.root >= x.after \/ x.commitment.root \in strays'
  BY <1>1, SettledFit
<1> QED BY <1>1, <1>2, CallIsDone

\* insert_nullifier stops half-way; no other insertion is under way.
LEMMA InsertFailsKeeps ==
  ASSUME IInv, NEW c \in Callers, InsertFails(c)
  PROVE  IInv'
<1> USE DEF IInv
<1> DEFINE v == call[c].value
<1>1. /\ Inserts(c) /\ call[c].pc \in {"start", "row"} /\ v \in Values \ members /\ v \notin lateRows
      /\ End(c) /\ faults' = faults + 1 /\ faults < MaxFaults
      /\ UNCHANGED <<total, events, stored, trail, cache, since, settled, calls>>
      /\ UNCHANGED <<lateEvents, strays, unpushed>>
  BY DEF InsertFails, HasLock, Fault, PhasesFit, Inserts, audit
<1>2. \/ /\ lateRows' \in {lateRows, lateRows \cup {v}}
         /\ UNCHANGED <<members, leaves, root, made, lateRoots, unaudited>>
      \/ /\ lateRows' = lateRows /\ members' = members \cup {v} /\ unaudited' = unaudited \cup {v}
         /\ leaves' \in {leaves, leaves \cup {v}}
         /\ \/ UNCHANGED <<root, made, lateRoots>>
            \/ made' = made + 1 /\ root' = made + 1 /\ UNCHANGED lateRoots
            \/ made' = made + 1 /\ lateRoots' = lateRoots \cup {made + 1} /\ UNCHANGED root
  BY DEF InsertFails
<1>3. /\ call'[c] = Idle /\ \A d \in Callers : d # c => call'[d] = call[d]
      /\ call' \in [Callers -> Call]
  BY <1>1, IdleIsTyped DEF End, TypeOK
<1>4. \A d \in Callers : ~Writing(d)'
  <2>1. \A d \in Callers : d # c => ~Writing(d)
    BY <1>1 DEF InsertFails, HasLock, MayWrite, MayRead, LockIsExclusive, Writing
  <2>2. ~Writing(c)'
    BY <1>3 DEF Idle, Writing, Inserts
  <2> QED BY <1>3, <2>1, <2>2 DEF Writing, Inserts
<1>5. Cardinality(members) \in Nat /\ Cardinality(members \cup {v}) = Cardinality(members) + 1
  BY <1>1, AsBefore, SizeOfMembers
<1> HIDE DEF v
<1>6. /\ members \subseteq members' /\ members' \subseteq Values /\ leaves' \subseteq members'
      /\ members' \subseteq members \cup unaudited' /\ unaudited \subseteq unaudited'
      /\ unaudited' \subseteq members' /\ lateRows' \subseteq Values \ members'
  BY <1>1, <1>2, AsBefore
<1>7. /\ made' \in Nat /\ made <= made' /\ made' <= Cardinality(members')
      /\ root' \in {root, made'} /\ root' \in 0 .. made'
      /\ strays' \subseteq 1 .. made' /\ lateRoots' \subseteq 1 .. made'
  <2>1. CASE UNCHANGED <<root, made, lateRoots>>
    <3>1. Cardinality(members') \in {Cardinality(members), Cardinality(members) + 1}
      BY <1>2, <1>5
    <3> QED BY <2>1, <3>1, <1>1, <1>5, AsBefore
  <2>2. CASE /\ members' = members \cup {v} /\ made' = made + 1
             /\ \/ root' = made + 1 /\ UNCHANGED lateRoots
                \/ lateRoots' = lateRoots \cup {made + 1} /\ UNCHANGED root
    BY <2>2, <1>1, <1>5, AsBefore
  <2> QED BY <1>2, <2>1, <2>2
<1>8. /\ cache' \in [Services -> SUBSET Commitment]
      /\ settled' \subseteq [after: Roots, commitment: Commitment]
      /\ \A x \in settled' : x.commitment.root >= x.after \/ x.commitment.root \in strays'
  BY <1>1, SettledFit
<1>9. faults' \in 0 .. MaxFaults
  BY <1>1, AsBefore, AdsAssumption DEF AdsAssumption
<1> QED BY <1>1, <1>3, <1>4, <1>6, <1>7, <1>8, <1>9, AsBefore, CallsEnd

\* A call ends between two steps.
LEMMA CallEndsKeeps ==
  ASSUME IInv, NEW c \in Callers, CallEnds(c)
  PROVE  IInv'
<1> USE DEF IInv
<1>1. /\ End(c) /\ faults' = faults + 1 /\ faults < MaxFaults
      /\ UNCHANGED <<members, leaves, root, made, total, events, stored, trail, cache, since, settled, calls>>
      /\ UNCHANGED <<lateRows, lateRoots, strays>>
  BY DEF CallEnds, Fault, tree, audit
<1>2. /\ call'[c] = Idle /\ \A d \in Callers : d # c => call'[d] = call[d]
      /\ call' \in [Callers -> Call]
  BY <1>1, IdleIsTyped DEF End, TypeOK
<1>3. /\ unaudited \subseteq unaudited' /\ unaudited' \subseteq members
      /\ Inserts(c) /\ call[c].pc \in {"cache", "store"} => call[c].value \in unaudited'
  <2>1. Inserts(c) /\ call[c].pc = "cache" => call[c].value \in members
    BY DEF InsertionsAreOnce
  <2>2. Inserts(c) /\ call[c].pc = "store" => call[c].value \in members
    BY DEF InsertionsAreOnce, EventsAreInHand
  <2> QED BY <2>1, <2>2, AsBefore DEF CallEnds
<1>4. /\ unpushed \subseteq unpushed' /\ unpushed' \subseteq DOMAIN events
      /\ call[c].pc \in {"store", "push"} => call[c].event \in unpushed'
  <2>1. call[c].pc \in {"store", "push"} => call[c].event \in DOMAIN events
    BY DEF EventsAreInHand
  <2> QED BY <2>1, AsBefore DEF CallEnds
<1>5. lateEvents' \subseteq DOMAIN events /\ \A e \in lateEvents' : e \in unpushed' \/ e <= since
  <2>1. \/ lateEvents' = lateEvents
        \/ call[c].pc = "store" /\ lateEvents' = lateEvents \cup {call[c].event}
    BY DEF CallEnds
  <2> QED BY <2>1, <1>4, AsBefore
<1>6. /\ cache' \in [Services -> SUBSET Commitment]
      /\ settled' \subseteq [after: Roots, commitment: Commitment]
      /\ \A x \in settled' : x.commitment.root >= x.after \/ x.commitment.root \in strays'
  BY <1>1, SettledFit
<1>7. faults' \in 0 .. MaxFaults
  BY <1>1, AsBefore, AdsAssumption DEF AdsAssumption
<1> QED BY <1>1, <1>2, <1>3, <1>4, <1>5, <1>6, <1>7, AsBefore, CallsEnd

\* A statement of an ended call runs.
LEMMA LateKeeps ==
  ASSUME IInv, \/ \E v \in Values : LateRow(v)
               \/ \E r \in Roots : LateRoot(r)
               \/ \E e \in lateEvents : LateEvent(e)
  PROVE  IInv'
<1> USE DEF IInv
<1>1. ASSUME NEW v \in Values, LateRow(v) PROVE IInv'
  <2>1. /\ v \in Values \ members /\ v \in lateRows /\ members' = members \cup {v}
        /\ lateRows' = lateRows \ {v} /\ unaudited' = unaudited \cup {v}
        /\ UNCHANGED <<leaves, root, made, total, events, stored, trail, cache, since, call, settled>>
        /\ UNCHANGED <<lateRoots, lateEvents, strays, unpushed, calls, faults>>
    BY <1>1, AsBefore DEF LateRow, audit
  <2>2. made <= Cardinality(members')
    BY <2>1, AsBefore, SizeOfMembers
  <2>3. /\ members \subseteq members' /\ members' \subseteq Values /\ leaves' \subseteq members'
        /\ members' \subseteq members \cup unaudited' /\ unaudited \subseteq unaudited'
        /\ unaudited' \subseteq members' /\ lateRows' \subseteq Values \ members'
    BY <2>1, AsBefore
  <2>4. /\ cache' \in [Services -> SUBSET Commitment]
        /\ settled' \subseteq [after: Roots, commitment: Commitment]
        /\ \A x \in settled' : x.commitment.root >= x.after \/ x.commitment.root \in strays'
    BY <2>1, SettledFit
  <2> QED BY <2>1, <2>2, <2>3, <2>4, AsBefore, CallsEnd
<1>2. ASSUME NEW r \in Roots, LateRoot(r) PROVE IInv'
  <2>1. /\ r \in lateRoots /\ root' = r /\ lateRoots' = lateRoots \ {r} /\ strays' = strays \cup {r}
        /\ UNCHANGED <<members, leaves, made, total, events, stored, trail, cache, since, call, settled>>
        /\ UNCHANGED <<lateRows, lateEvents, unaudited, unpushed, calls, faults>>
    BY <1>2 DEF LateRoot, audit
  <2>2. /\ root' \in strays' /\ root' \in 0 .. made' /\ strays \subseteq strays'
        /\ strays' \subseteq 1 .. made' /\ lateRoots' \subseteq 1 .. made'
    BY <2>1, AsBefore
  <2>3. /\ cache' \in [Services -> SUBSET Commitment]
        /\ settled' \subseteq [after: Roots, commitment: Commitment]
        /\ \A x \in settled' : x.commitment.root >= x.after \/ x.commitment.root \in strays'
    BY <2>1 DEF TypeOK, SettlementCoversInsertion
  <2> QED BY <2>1, <2>2, <2>3, AsBefore, CallsEnd
<1>3. ASSUME NEW e \in lateEvents, LateEvent(e) PROVE IInv'
  <2>1. /\ stored' = stored \cup {e} /\ lateEvents' = lateEvents \ {e}
        /\ UNCHANGED <<members, leaves, root, made, total, events, trail, cache, since, call, settled>>
        /\ UNCHANGED <<lateRows, lateRoots, strays, unaudited, unpushed, calls, faults>>
    BY <1>3 DEF LateEvent, tree
  <2>2. /\ stored \subseteq stored' /\ stored' \subseteq DOMAIN events
        /\ \A x \in stored' \ stored : x \in unpushed' \/ x <= since
        /\ lateEvents' \subseteq DOMAIN events /\ \A x \in lateEvents' : x \in unpushed' \/ x <= since
    BY <2>1, AsBefore
  <2>3. /\ cache' \in [Services -> SUBSET Commitment]
        /\ settled' \subseteq [after: Roots, commitment: Commitment]
        /\ \A x \in settled' : x.commitment.root >= x.after \/ x.commitment.root \in strays'
    BY <2>1, SettledFit
  <2> QED BY <2>1, <2>2, <2>3, AsBefore, CallsEnd
<1> QED BY <1>1, <1>2, <1>3

LEMMA StutterKeeps == ASSUME IInv, UNCHANGED vars PROVE IInv'
<1>1. /\ UNCHANGED <<members, leaves, root, made, total, events, stored, trail, cache, since, call, settled>>
      /\ UNCHANGED <<lateRows, lateRoots, lateEvents, strays, unaudited, unpushed, calls, faults>>
  BY DEF vars, tree, audit, late
<1>2. /\ cache' \in [Services -> SUBSET Commitment]
      /\ settled' \subseteq [after: Roots, commitment: Commitment]
      /\ \A x \in settled' : x.commitment.root >= x.after \/ x.commitment.root \in strays'
  BY <1>1, SettledFit
<1> QED BY <1>1, <1>2, AsBefore, CallsEnd

LEMMA NextKeeps == IInv /\ [Next]_vars => IInv'
<1> SUFFICES ASSUME IInv, [Next]_vars PROVE IInv'
  OBVIOUS
<1>1. CASE UNCHANGED vars
  BY <1>1, StutterKeeps
<1>2. CASE \/ \E v \in Values : LateRow(v)
           \/ \E r \in Roots : LateRoot(r)
           \/ \E e \in lateEvents : LateEvent(e)
  BY <1>2, LateKeeps
<1>3. CASE Restart
  BY <1>3, RestartKeeps
<1>4. ASSUME NEW c \in Callers, Requests(c)
      PROVE  IInv'
  BY <1>4, RequestKeeps
<1>5. ASSUME NEW c \in Callers, InsertFails(c) \/ CallEnds(c)
      PROVE  IInv'
  BY <1>5, InsertFailsKeeps, CallEndsKeeps
<1>6. ASSUME NEW c \in Callers, Steps(c)
      PROVE  IInv'
  <2>1. CASE InsertRow(c)
    BY <2>1, InsertRowKeeps
  <2>2. CASE InsertRefused(c) \/ AuditOperation(c)
    BY <2>2, CallIsOver
  <2>3. CASE CacheCommitment(c)
    BY <2>3, CacheCommitmentKeeps
  <2>4. CASE StoreEvent(c)
    BY <2>4, StoreEventKeeps
  <2>5. CASE PushEvent(c)
    BY <2>5, PushEventKeeps
  <2>6. CASE ReadRoot(c)
    BY <2>6, ReadRootKeeps
  <2>7. CASE GetCommitment(c)
    BY <2>7, GetCommitmentKeeps
  <2>8. CASE SubmitCommitment(c)
    BY <2>8, SubmitCommitmentKeeps
  <2>9. CASE ProveMembership(c) \/ ProveNonMembership(c)
    BY <2>9, ProofKeeps
  <2>10. CASE ReadTrail(c)
    BY <2>10, ReadTrailKeeps
  <2>11. CASE KeepTrail(c)
    BY <2>11, KeepTrailKeeps
  <2> QED BY <1>6, <2>1, <2>2, <2>3, <2>4, <2>5, <2>6, <2>7, <2>8, <2>9, <2>10, <2>11 DEF Steps
<1> QED BY <1>1, <1>2, <1>3, <1>4, <1>5, <1>6 DEF Next

\* The inductive invariant holds in every state of the services.
THEOREM InvariantHolds == Spec => []IInv
BY InitHolds, NextKeeps, PTL DEF Spec

\* Every variable has its type: in particular no more roots are computed than
\* there are nullifiers, and what ended calls left behind is accounted for.
THEOREM Typing == Spec => []TypeOK
<1>1. IInv => TypeOK
  BY DEF IInv
<1> QED BY <1>1, InvariantHolds, PTL

\* A nullifier has one insertion event, unless its own call ended before it, and
\* the events are in the order of the insertions, whatever fails, restarts or
\* runs late, but for insertions that started from a late root.
THEOREM InsertionsAreAlwaysAudited == Spec => []InsertionsAreAudited
<1>1. IInv => InsertionsAreAudited
  <2> SUFFICES ASSUME IInv PROVE InsertionsAreAudited
    OBVIOUS
  <2> USE DEF IInv
  <2>1. ASSUME NEW v \in Values PROVE Cardinality(InsertionEvents(v)) <= 1
    <3>1. CASE InsertionEvents(v) = {}
      BY <3>1, FS_EmptySet
    <3>2. ASSUME NEW e \in InsertionEvents(v) PROVE Cardinality(InsertionEvents(v)) = 1
      <4>1. \A f \in InsertionEvents(v) : f = e
        BY <3>2 DEF InsertionEvents, InsertionsAreOnce, IsInsertion, TypeOK
      <4>2. InsertionEvents(v) = {e}
        BY <3>2, <4>1
      <4> QED BY <4>2, FS_Singleton
    <3> QED BY <3>1, <3>2
  <2>2. ASSUME NEW v \in members
        PROVE  \/ InsertionEvents(v) # {}
               \/ v \in unaudited
               \/ \E c \in Callers : call[c].value = v /\ Writing(c)
    BY DEF InsertionsAreOnTheirWay, Writing
  <2>3. ASSUME NEW e \in UNION {InsertionEvents(v) : v \in Values},
               NEW f \in UNION {InsertionEvents(v) : v \in Values}, e < f
        PROVE  events[e].after <= events[f].before \/ events[f].before \in strays
    <3>1. /\ e \in DOMAIN events /\ f \in DOMAIN events /\ IsInsertion(e) /\ IsInsertion(f)
      BY DEF InsertionEvents, IsInsertion, TypeOK
    <3> QED BY <3>1, <2>3 DEF InsertionsAreOnce, Follows
  <2> QED BY <2>1, <2>2, <2>3 DEF InsertionsAreAudited
<1> QED BY <1>1, InvariantHolds, PTL

\* The trails in memory hold what was recorded since the start, once each, but
\* for the events of calls that ended before they reached them.
THEOREM TrailsAreAlwaysComplete == Spec => []TrailsAreComplete
<1>1. IInv => TrailsAreComplete
  <2> SUFFICES ASSUME IInv PROVE TrailsAreComplete
    OBVIOUS
  <2>1. \A c \in Callers : call[c].pc = "audit" => Contains(trail["vapp"][call[c].value], call[c].event)
    BY DEF IInv, EventsAreInHand, PhasesFit, Inserts, Proves
  <2> QED BY <2>1 DEF IInv, TrailsAreTrue, TrailOf, TrailsAreComplete
<1> QED BY <1>1, InvariantHolds, PTL

\* Nothing but a late root comes between two nullifiers of a batch.
THEOREM BatchesAreContiguous == Spec => []BatchIsContiguous
<1>1. IInv => BatchIsContiguous
  BY DEF IInv
<1> QED BY <1>1, InvariantHolds, PTL

\* What is settled after an insertion contains it, unless its root came late.
THEOREM SettlementsCoverInsertions == Spec => []SettlementCoversInsertion
<1>1. IInv => SettlementCoversInsertion
  BY DEF IInv
<1> QED BY <1>1, InvariantHolds, PTL

=============================================================================
