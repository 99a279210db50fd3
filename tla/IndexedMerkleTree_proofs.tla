---------------------- MODULE IndexedMerkleTree_proofs ----------------------
(***************************************************************************)
(* Theorems about IndexedMerkleTree, for any set of nullifiers, any height *)
(* of the tree, any callers that bypass the lock and any number of         *)
(* abandoned insertions: first about the list, then about the hash tree.   *)
(***************************************************************************)
EXTENDS IndexedMerkleTree, FiniteSums, TLAPS

-----------------------------------------------------------------------------
(***************************************************************************)
(* The inductive invariant.                                                *)
(***************************************************************************)

\* What a transaction read of its low nullifier is still good enough: the
\* row exists, and so does the row it pointed to, above the new value.
ReadStillHolds(t) ==
  /\ t.low.value \in Members /\ t.low.value < t.value
  /\ t.low.next # 0 => t.low.next \in Members /\ t.value < t.low.next

ReadsStillHold ==
  /\ ins.pc \in {"index", "insert"} => ReadStillHolds(ins)
  /\ \A t \in late : ReadStillHolds(t)
  /\ \A c \in Callers : calls[c].pc = "found" => ReadStillHolds(calls[c])

\* An insertion or a call that runs has a value.
RunningHasValue ==
  /\ ins.pc # "idle" => ins.value \in Values
  /\ \A c \in Callers : calls[c].pc = "found" => calls[c].value \in Values

\* A transaction that waits for its turn keeps others from its value.
LateIsNew == \A t \in late : t.value \notin Members

\* The list always has its first row.
ZeroIsMember == 0 \in Members

\* The service does not insert while it restarts, and the index it is given
\* is taken from the counter; what a restart is about to write is beyond
\* every index, unless it has missed one.
CounterMovesOn ==
  /\ ins.pc # "idle" => fix = 0
  /\ ins.pc = "insert" => ins.index < nextIndex
  /\ (fix # 0 /\ ~raced) => \A r \in rows \cup late : r.index < fix

IInv ==
  /\ TypeOK
  /\ ZeroIsMember
  /\ RunningHasValue
  /\ ReadsStillHold
  /\ LateIsNew
  /\ ChainLeadsUp
  /\ IndexesAreUnique
  /\ CounterMovesOn

-----------------------------------------------------------------------------
(***************************************************************************)
(* Rows and their order.                                                   *)
(***************************************************************************)

LEMMA RowFields ==
  ASSUME NEW r \in Row
  PROVE  /\ r.value \in Nat /\ r.next \in Nat /\ r.nextIndex \in Nat /\ r.index \in Nat
         /\ r.value \in 0 .. MaxValue
<1>1. r.value \in Values \cup {0} /\ r.next \in Values \cup {0}
      /\ r.nextIndex \in Nat /\ r.index \in Nat
  BY DEF Row
<1>2. \A x \in Values \cup {0} : x \in Nat /\ x \in 0 .. MaxValue
  BY TreeAssumption
<1> QED BY <1>1, <1>2

\* A set of rows that is not empty has a highest one: values are bounded.
LEMMA HighestIsHighest ==
  ASSUME NEW R, R \subseteq Row, R # {}
  PROVE  Highest(R) \in R /\ \A s \in R : s.value <= Highest(R).value
<1> DEFINE T == {MaxValue - r.value : r \in R}
<1>1. T \subseteq Nat /\ T # {}
  BY RowFields, TreeAssumption
<1>2. PICK x \in T : \A y \in T : x <= y
  <2> HIDE DEF T
  <2> QED BY <1>1, LeastNumber
<1>3. PICK h \in R : x = MaxValue - h.value
  OBVIOUS
<1>4. ASSUME NEW s \in R PROVE s.value <= h.value
  <2>1. h \in Row /\ s \in Row
    OBVIOUS
  <2>2. h.value \in Nat /\ s.value \in Nat /\ MaxValue \in Nat
    BY <2>1, RowFields, TreeAssumption
  <2>3. MaxValue - h.value <= MaxValue - s.value
    BY <1>2, <1>3
  <2> QED BY <2>2, <2>3
<1> QED BY <1>3, <1>4 DEF Highest

\* The low nullifier of any value is a row.
LEMMA LowIsRow ==
  ASSUME TypeOK, rows # {}, NEW v
  PROVE  FindLow(v) \in rows
<1>1. Candidates(v) \subseteq rows /\ rows \subseteq Row
  BY DEF Candidates, TypeOK
<1>2. CASE Candidates(v) = {}
  BY <1>1, <1>2, HighestIsHighest DEF FindLow, LowNullifierRow
<1>3. CASE Candidates(v) # {}
  BY <1>1, <1>3, HighestIsHighest DEF FindLow, LowNullifierRow
<1> QED BY <1>2, <1>3

\* With pointers that lead up, the low nullifier of a value that is not in
\* the list is its predecessor.
LEMMA LowPrecedes ==
  ASSUME TypeOK, ChainLeadsUp, 0 \in Members
  PROVE  LowIsPredecessor
<1> SUFFICES ASSUME NEW v \in Values \ Members
             PROVE  /\ InRange(v, FindLow(v))
                    /\ \A m \in Members : m < v => m <= FindLow(v).value
  BY DEF LowIsPredecessor
<1> DEFINE Below == {r \in rows : r.value < v}
<1> DEFINE p == Highest(Below)
<1>1. v \in Nat /\ 0 < v
  BY TreeAssumption
<1>2. rows \subseteq Row /\ Below \subseteq Row /\ Below # {}
  BY <1>1 DEF TypeOK, Members
<1>3. p \in Below /\ \A s \in Below : s.value <= p.value
  BY <1>2, HighestIsHighest
<1> HIDE DEF p
<1>4. p \in Row /\ p \in rows /\ p.value < v
  BY <1>2, <1>3
<1>5. p.next = 0 \/ p.next > v
  <2> SUFFICES ASSUME p.next # 0, ~(p.next > v) PROVE FALSE
    OBVIOUS
  <2>1. p.next \in Members /\ p.value < p.next
    BY <1>4 DEF ChainLeadsUp
  <2>2. PICK s \in rows : s.value = p.next
    BY <2>1 DEF Members
  <2>3. p.next # v
    BY <2>1
  <2>4. p.next < v
    BY <2>3, <1>1, <1>4, RowFields
  <2>5. s \in Below
    BY <2>2, <2>4
  <2> QED BY <2>1, <2>2, <2>5, <1>2, <1>3, <1>4, RowFields
<1>6. p \in Candidates(v)
  BY <1>4, <1>5 DEF Candidates
<1>7. Candidates(v) \subseteq Row
  BY <1>2 DEF Candidates
<1>8. /\ FindLow(v) \in Candidates(v)
      /\ \A s \in Candidates(v) : s.value <= FindLow(v).value
  BY <1>6, <1>7, HighestIsHighest DEF FindLow, LowNullifierRow, Candidates
<1>9. InRange(v, FindLow(v))
  BY <1>8 DEF Candidates, InRange
<1>10. ASSUME NEW m \in Members, m < v PROVE m <= FindLow(v).value
  <2>1. PICK s \in rows : s.value = m
    BY DEF Members
  <2>2. m <= p.value
    BY <2>1, <1>3, <1>10
  <2>3. p.value <= FindLow(v).value
    BY <1>6, <1>8
  <2> QED BY <2>1, <2>2, <2>3, <1>2, <1>4, <1>7, <1>8, RowFields
<1> QED BY <1>9, <1>10

-----------------------------------------------------------------------------
(***************************************************************************)
(* The table after the transaction t of an insertion.                      *)
(***************************************************************************)

RowsAfter(t) == UpdateLow(t) \cup {NewRow(t)}

\* Every row afterwards is the new one, an old one, or the low nullifier
\* with its new pointer; and no row is lost.
LEMMA RowsAfterShape ==
  ASSUME TypeOK, NEW t, t.value \in Values, t.low \in Row, t.index \in Nat
  PROVE  /\ RowsAfter(t) \subseteq Row
         /\ \A r \in RowsAfter(t) : r # NewRow(t) => \E s \in rows :
              /\ r.value = s.value /\ r.index = s.index
              /\ \/ r = s
                 \/ s.value = t.low.value /\ r = [s EXCEPT !.next = t.value, !.nextIndex = t.index]
         /\ \A s \in rows : \E r \in RowsAfter(t) : r.value = s.value
         /\ NewRow(t) \in RowsAfter(t)
<1> DEFINE upd(s) == IF s.value = t.low.value
                       THEN [s EXCEPT !.next = t.value, !.nextIndex = t.index] ELSE s
<1>1. NewRow(t) \in Row
  <2>1. t.low.next \in Values \cup {0} /\ t.low.nextIndex \in Nat
    BY DEF Row
  <2> QED BY <2>1 DEF NewRow, Row
<1>2. ASSUME NEW s \in rows
      PROVE  /\ s \in Row /\ upd(s) \in Row
             /\ upd(s).value = s.value /\ upd(s).index = s.index
             /\ upd(s) = s \/ (s.value = t.low.value
                              /\ upd(s) = [s EXCEPT !.next = t.value, !.nextIndex = t.index])
  <2>1. s \in Row
    BY DEF TypeOK
  <2>2. [s EXCEPT !.next = t.value, !.nextIndex = t.index] \in Row
    BY <2>1 DEF Row
  <2> QED BY <2>1, <2>2 DEF Row
<1>3. CASE IsEmptyTree(t.low)
  <2>1. RowsAfter(t) = rows \cup {NewRow(t)}
    BY <1>3 DEF RowsAfter, UpdateLow
  <2> QED BY <1>1, <1>2, <2>1
<1>4. CASE ~IsEmptyTree(t.low)
  <2>1. RowsAfter(t) = {upd(s) : s \in rows} \cup {NewRow(t)}
    BY <1>4 DEF RowsAfter, UpdateLow
  <2> HIDE DEF upd
  <2>2. RowsAfter(t) \subseteq Row
    BY <1>1, <1>2, <2>1
  <2>3. ASSUME NEW r \in RowsAfter(t), r # NewRow(t)
        PROVE  \E s \in rows :
                 /\ r.value = s.value /\ r.index = s.index
                 /\ \/ r = s
                    \/ s.value = t.low.value /\ r = [s EXCEPT !.next = t.value, !.nextIndex = t.index]
    <3>1. PICK s \in rows : r = upd(s)
      BY <2>1, <2>3
    <3> QED BY <3>1, <1>2
  <2>4. ASSUME NEW s \in rows PROVE \E r \in RowsAfter(t) : r.value = s.value
    <3>1. upd(s) \in RowsAfter(t)
      BY <2>1
    <3> QED BY <3>1, <1>2
  <2> QED BY <2>1, <2>2, <2>3, <2>4
<1> QED BY <1>3, <1>4

ValuesOf(R) == {r.value : r \in R}

LEMMA RowsAfterValues ==
  ASSUME TypeOK, NEW t, t.value \in Values, t.low \in Row, t.index \in Nat
  PROVE  ValuesOf(RowsAfter(t)) = Members \cup {t.value}
<1>1. NewRow(t).value = t.value
  BY DEF NewRow
<1>2. ASSUME NEW r \in RowsAfter(t) PROVE r.value \in Members \cup {t.value}
  <2>1. CASE r = NewRow(t)
    BY <1>1, <2>1
  <2>2. CASE r # NewRow(t)
    <3>1. PICK s \in rows :
            /\ r.value = s.value /\ r.index = s.index
            /\ \/ r = s
               \/ s.value = t.low.value /\ r = [s EXCEPT !.next = t.value, !.nextIndex = t.index]
      BY <2>2, RowsAfterShape
    <3> QED BY <3>1 DEF Members
  <2> QED BY <2>1, <2>2
<1>3. ASSUME NEW m \in Members PROVE \E r \in RowsAfter(t) : r.value = m
  <2>1. PICK s \in rows : s.value = m
    BY DEF Members
  <2>2. \E r \in RowsAfter(t) : r.value = s.value
    BY RowsAfterShape
  <2> QED BY <2>1, <2>2
<1>4. \E r \in RowsAfter(t) : r.value = t.value
  <2>1. NewRow(t) \in RowsAfter(t)
    BY RowsAfterShape
  <2> QED BY <1>1, <2>1
<1> QED BY <1>2, <1>3, <1>4 DEF ValuesOf

LEMMA RowsAfterLeadUp ==
  ASSUME TypeOK, ChainLeadsUp, NEW t, t.value \in Values, t.low \in Row, t.index \in Nat,
         ReadStillHolds(t)
  PROVE  \A r \in RowsAfter(t) : r.next # 0 =>
           r.next \in ValuesOf(RowsAfter(t)) /\ r.value < r.next
<1>1. ValuesOf(RowsAfter(t)) = Members \cup {t.value}
  BY RowsAfterValues
<1>2. SUFFICES ASSUME NEW r \in RowsAfter(t), r.next # 0
               PROVE  r.next \in Members \cup {t.value} /\ r.value < r.next
  BY <1>1
<1>3. CASE r = NewRow(t)
  <2>1. r.value = t.value /\ r.next = t.low.next
    BY <1>2, <1>3 DEF NewRow
  <2> QED BY <2>1, <1>2 DEF ReadStillHolds
<1>4. CASE r # NewRow(t)
  <2>1. PICK s \in rows :
          /\ r.value = s.value /\ r.index = s.index
          /\ \/ r = s
             \/ s.value = t.low.value /\ r = [s EXCEPT !.next = t.value, !.nextIndex = t.index]
    BY <1>4, RowsAfterShape
  <2>2. CASE r = s
    BY <2>2, <1>2 DEF ChainLeadsUp
  <2>3. CASE s.value = t.low.value /\ r = [s EXCEPT !.next = t.value, !.nextIndex = t.index]
    <3>1. s \in Row
      BY DEF TypeOK
    <3>2. r.value = t.low.value /\ r.next = t.value
      BY <2>3, <3>1 DEF Row
    <3> QED BY <3>2 DEF ReadStillHolds
  <2> QED BY <2>1, <2>2, <2>3
<1> QED BY <1>3, <1>4

LEMMA RowsAfterIndexes ==
  ASSUME TypeOK, NEW t, t.value \in Values, t.low \in Row, t.index \in Nat,
         \A r, s \in rows : r.index = s.index => r = s,
         \A r \in rows : t.index # r.index
  PROVE  /\ \A r, s \in RowsAfter(t) : r.index = s.index => r = s
         /\ \A r \in RowsAfter(t) : r.index = t.index \/ \E s \in rows : r.index = s.index
<1> DEFINE upd(s) == IF s.value = t.low.value
                       THEN [s EXCEPT !.next = t.value, !.nextIndex = t.index] ELSE s
<1>1. NewRow(t).index = t.index
  BY DEF NewRow
<1>2. ASSUME NEW s \in rows PROVE upd(s).index = s.index
  <2>1. s \in Row
    BY DEF TypeOK
  <2> QED BY <2>1 DEF Row
<1>3. CASE IsEmptyTree(t.low)
  <2>1. RowsAfter(t) = rows \cup {NewRow(t)}
    BY <1>3 DEF RowsAfter, UpdateLow
  <2> QED BY <1>1, <2>1
<1>4. CASE ~IsEmptyTree(t.low)
  <2>1. RowsAfter(t) = {upd(s) : s \in rows} \cup {NewRow(t)}
    BY <1>4 DEF RowsAfter, UpdateLow
  <2> HIDE DEF upd
  <2> QED BY <1>1, <1>2, <2>1
<1> QED BY <1>3, <1>4

\* A transaction that may commit next, with what the invariant says of it.
MayCommit(t) ==
  /\ t.value \in Values /\ t.low \in Row /\ t.index \in Nat
  /\ ReadStillHolds(t)
  /\ t.value \notin Members
  /\ \A r \in rows : t.index # r.index

\* What the commit of t preserves of the table.
LEMMA CommitKeepsTable ==
  ASSUME IInv, NEW t, MayCommit(t), rows' = RowsAfter(t)
  PROVE  /\ rows' \subseteq Row
         /\ Members' = Members \cup {t.value}
         /\ ZeroIsMember'
         /\ ChainLeadsUp'
         /\ \A r, s \in rows' : r.index = s.index => r = s
         /\ \A r \in rows' : r.index = t.index \/ \E s \in rows : r.index = s.index
<1>1. /\ TypeOK /\ ChainLeadsUp /\ ZeroIsMember
      /\ t.value \in Values /\ t.low \in Row /\ t.index \in Nat /\ ReadStillHolds(t)
      /\ \A r \in rows : t.index # r.index
      /\ \A r, s \in rows : r.index = s.index => r = s
  BY DEF IInv, MayCommit, IndexesAreUnique
<1>2. RowsAfter(t) \subseteq Row
  BY <1>1, RowsAfterShape
<1>3. Members' = ValuesOf(RowsAfter(t)) /\ Members' = Members \cup {t.value}
  BY <1>1, RowsAfterValues DEF Members, ValuesOf
<1>4. ChainLeadsUp'
  BY <1>1, <1>3, RowsAfterLeadUp DEF ChainLeadsUp
<1>5. /\ \A r, s \in RowsAfter(t) : r.index = s.index => r = s
      /\ \A r \in RowsAfter(t) : r.index = t.index \/ \E s \in rows : r.index = s.index
  BY <1>1, RowsAfterIndexes
<1> QED BY <1>1, <1>2, <1>3, <1>4, <1>5 DEF ZeroIsMember

\* What the statements of insert_nullifier_atomic preserve of the table.
LEMMA SpliceKeepsTable ==
  ASSUME IInv, NEW t, t.value \in Values, t.low \in Row, ReadStillHolds(t),
         rows' = Spliced(t, nextIndex), \A r \in rows : r.index # nextIndex
  PROVE  /\ rows' \subseteq Row
         /\ Members' = Members \cup {t.value}
         /\ ZeroIsMember'
         /\ ChainLeadsUp'
         /\ \A r, s \in rows' : r.index = s.index => r = s
         /\ \A r \in rows' : r.index = nextIndex \/ \E s \in rows : r.index = s.index
<1> DEFINE new == [value |-> t.value, next |-> t.low.next, nextIndex |-> t.low.nextIndex,
                   index |-> nextIndex]
<1> DEFINE upd(s) == IF s.value = t.low.value
                       THEN [s EXCEPT !.next = t.value, !.nextIndex = nextIndex] ELSE s
<1>1. /\ rows \subseteq Row /\ nextIndex \in Nat /\ 0 \in Members
      /\ \A r, s \in rows : r.index = s.index => r = s
      /\ \A r \in rows : r.index # nextIndex
      /\ \A r \in rows : r.next # 0 => r.next \in Members /\ r.value < r.next
  BY RowFields DEF IInv, TypeOK, ZeroIsMember, IndexesAreUnique, ChainLeadsUp
<1>2. rows' = {upd(s) : s \in rows} \cup {new}
  BY DEF Spliced
<1>3. new \in Row /\ new.value = t.value /\ new.next = t.low.next /\ new.index = nextIndex
  BY <1>1 DEF Row
<1>4. ASSUME NEW s \in rows
      PROVE  /\ upd(s) \in Row /\ upd(s).value = s.value /\ upd(s).index = s.index
             /\ \/ upd(s).next = s.next
                \/ s.value = t.low.value /\ upd(s).next = t.value
  <2>1. s \in Row
    BY <1>1
  <2>2. CASE s.value = t.low.value
    <3>1. upd(s) = [s EXCEPT !.next = t.value, !.nextIndex = nextIndex]
      BY <2>2
    <3> QED BY <1>1, <2>1, <2>2, <3>1 DEF Row
  <2>3. CASE s.value # t.low.value
    BY <2>1, <2>3
  <2> QED BY <2>2, <2>3
<1> HIDE DEF new, upd
<1>5. rows' \subseteq Row
  BY <1>2, <1>3, <1>4
<1>6. Members' = Members \cup {t.value}
  <2>1. ASSUME NEW m \in Members PROVE m \in Members'
    <3>1. PICK s \in rows : s.value = m
      BY DEF Members
    <3>2. upd(s) \in rows' /\ upd(s).value = m
      BY <1>2, <1>4, <3>1
    <3> QED BY <3>2 DEF Members
  <2>2. t.value \in Members'
    BY <1>2, <1>3 DEF Members
  <2>3. ASSUME NEW m \in Members' PROVE m \in Members \cup {t.value}
    BY <1>2, <1>3, <1>4, <2>3 DEF Members
  <2> QED BY <2>1, <2>2, <2>3
<1>7. ChainLeadsUp'
  <2> SUFFICES ASSUME NEW r \in rows', r.next # 0
               PROVE  r.next \in Members' /\ r.value < r.next
    BY DEF ChainLeadsUp
  <2>1. CASE r = new
    BY <1>3, <1>6, <2>1 DEF ReadStillHolds
  <2>2. ASSUME NEW s \in rows, r = upd(s) PROVE r.next \in Members' /\ r.value < r.next
    <3>1. CASE upd(s).next = s.next
      BY <1>1, <1>4, <1>6, <2>2, <3>1
    <3>2. CASE s.value = t.low.value /\ upd(s).next = t.value
      BY <1>4, <1>6, <2>2, <3>2 DEF ReadStillHolds
    <3> QED BY <1>4, <3>1, <3>2
  <2> QED BY <1>2, <2>1, <2>2
<1>8. \A r \in rows' : (r = new /\ r.index = nextIndex) \/ \E s \in rows : r = upd(s) /\ r.index = s.index
  BY <1>2, <1>3, <1>4
<1>9. \A r \in rows' : r.index = nextIndex \/ \E s \in rows : r.index = s.index
  BY <1>8
<1>11. ASSUME NEW q \in rows', NEW r \in rows', q.index = r.index PROVE q = r
  BY <1>1, <1>8, <1>11
<1> QED BY <1>1, <1>5, <1>6, <1>7, <1>9, <1>11 DEF ZeroIsMember

\* A read stays good while the list only grows.
LEMMA GrowthKeepsReads ==
  ASSUME NEW t, ReadStillHolds(t), Members \subseteq Members'
  PROVE  /\ t.low.value \in Members' /\ t.low.value < t.value
         /\ t.low.next # 0 => t.low.next \in Members' /\ t.value < t.low.next
BY DEF ReadStillHolds

-----------------------------------------------------------------------------
(***************************************************************************)
(* Types.                                                                  *)
(***************************************************************************)

LEMMA GenesisIsRow == Genesis \in Row
BY DEF Genesis, Row

LEMMA IdleIsInsertion == Idle \in Insertion
BY GenesisIsRow, TreeAssumption DEF Idle, Insertion

LEMMA ReadyIsCall == Ready \in Call
BY GenesisIsRow DEF Ready, Call

LEMMA FlightType ==
  ASSUME TypeOK, RunningHasValue
  PROVE  /\ InFlight \subseteq [value: Values, low: Row, index: Nat]
         /\ \A w \in WriteInFlight : w.level \in 0 .. Height + 1 /\ w.at \in Nat
<1>1. InFlight \subseteq [value: Values, low: Row, index: Nat]
  BY DEF TypeOK, RunningHasValue, InFlight, Insertion
<1>2. ins.level \in 0 .. Height + 1 /\ ins.at \in Nat /\ ins.at \div 2 \in Nat /\ 0 \in 0 .. Height + 1
  BY TreeAssumption DEF TypeOK, Insertion
<1>3. NextWrite.level \in 0 .. Height + 1 /\ NextWrite.at \in Nat
  BY <1>2 DEF NextWrite
<1> QED BY <1>1, <1>3 DEF WriteInFlight

LEMMA TypeStep ==
  ASSUME IInv, Next
  PROVE  TypeOK' /\ RunningHasValue'
<1>1. /\ TypeOK /\ RunningHasValue /\ ins \in Insertion /\ rows # {}
      /\ faults \in 0 .. MaxFaults /\ nextIndex \in Nat /\ disturbed \in BOOLEAN
  BY DEF IInv, TypeOK, ZeroIsMember, Members
<1>2. Height \in Nat /\ Height > 0 /\ MaxFaults \in Nat
  BY TreeAssumption
<1> USE DEF stale, locals
<1>3. ASSUME NEW v \in Values, Begin(v) PROVE TypeOK' /\ RunningHasValue'
  <2>1. ins' \in Insertion /\ ins'.value = v
    BY <1>3, IdleIsInsertion DEF Begin, Insertion
  <2> QED BY <1>1, <1>3, <2>1 DEF Begin, TypeOK, RunningHasValue
<1>4. CASE FindLowNullifier
  <2>1. FindLow(ins.value) \in Row
    BY <1>1, LowIsRow DEF TypeOK
  <2>2. ins' \in Insertion /\ ins'.value = ins.value
    BY <1>1, <1>4, <2>1 DEF FindLowNullifier, Insertion
  <2>3. ins.pc # "idle"
    BY <1>4 DEF FindLowNullifier
  <2> QED BY <1>1, <1>4, <2>2, <2>3 DEF FindLowNullifier, TypeOK, RunningHasValue
<1>5. CASE GetNextIndex
  <2>1. ins' \in Insertion /\ ins'.value = ins.value /\ ins.pc # "idle"
    BY <1>1, <1>5 DEF GetNextIndex, Insertion
  <2> QED BY <1>1, <1>5, <2>1 DEF GetNextIndex, TakeIndex, TypeOK, RunningHasValue
<1>6. CASE InsertRow
  <2>1. ins.low \in Row /\ ins.low.index \in Nat /\ ins.index \in Nat
    BY <1>1 DEF Insertion, Row
  <2>2. ins' \in Insertion /\ ins'.value = ins.value /\ ins.pc # "idle"
    <3>1. 0 \in 0 .. Height + 1
      BY <1>2
    <3>2. ins' = [ins EXCEPT !.pc = "climb", !.leaf = "low", !.level = 0, !.at = ins.low.index]
      BY <1>6 DEF InsertRow
    <3>3. ins.pc # "idle"
      BY <1>6 DEF InsertRow
    <3> QED BY <1>1, <2>1, <3>1, <3>2, <3>3 DEF Insertion
  <2>3. ins.value \in Values
    BY <1>1, <2>2 DEF RunningHasValue
  <2>4. rows' \subseteq Row
    BY <1>1, <1>6, <2>1, <2>3, RowsAfterShape DEF InsertRow, RowsAfter
  <2> QED BY <1>1, <1>6, <2>2, <2>3, <2>4 DEF InsertRow, TypeOK, RunningHasValue
<1>7. ASSUME End, UNCHANGED <<rows, nodes, nextIndex, calls, fix, raced>>,
             late' \subseteq [value: Values, low: Row, index: Nat], lateTakes' \in Nat,
             \A w \in lateWrites' : w.level \in 0 .. Height + 1 /\ w.at \in Nat,
             faults' \in 0 .. MaxFaults
      PROVE  TypeOK' /\ RunningHasValue'
  <2>1. ins'.pc = "idle" /\ ins' \in Insertion /\ disturbed' \in BOOLEAN
    BY <1>7, IdleIsInsertion DEF End, Idle
  <2>2. TypeOK'
    BY <1>1, <1>7, <2>1 DEF TypeOK
  <2>3. RunningHasValue'
    BY <1>1, <1>7, <2>1 DEF RunningHasValue
  <2> QED BY <2>2, <2>3
<1>8. CASE UpsertLeaf
  <2>1. ins' \in Insertion /\ ins'.value = ins.value /\ ins.pc # "idle"
    BY <1>1, <1>2, <1>8 DEF UpsertLeaf, Insertion
  <2>2. DOMAIN nodes' = Positions
    BY <1>1, <1>8 DEF UpsertLeaf, UpsertNode, TypeOK
  <2> QED BY <1>1, <1>8, <2>1, <2>2 DEF UpsertLeaf, TypeOK, RunningHasValue
<1>9. CASE UpsertParent
  <2>1. ins.at \div 2 \in Nat /\ ins.level + 1 \in 0 .. Height + 1
    BY <1>1, <1>2, <1>9 DEF UpsertParent, Insertion
  <2>2. ins' \in Insertion /\ ins'.value = ins.value /\ ins.pc # "idle"
    BY <1>1, <1>9, <2>1 DEF UpsertParent, Insertion
  <2>3. DOMAIN nodes' = Positions
    BY <1>1, <1>9 DEF UpsertParent, UpsertNode, TypeOK
  <2> QED BY <1>1, <1>9, <2>2, <2>3 DEF UpsertParent, TypeOK, RunningHasValue
<1>10. CASE UpdateRoot
  <2>1. ins' \in Insertion /\ ins'.value = ins.value /\ ins.pc # "idle"
    <3>1. 0 \in 0 .. Height + 1 /\ ins.index \in Nat
      BY <1>1, <1>2 DEF Insertion
    <3>2. \/ ins' = [ins EXCEPT !.leaf = "new", !.level = 0, !.at = ins.index]
          \/ ins' = [ins EXCEPT !.pc = "prove"]
      BY <1>10 DEF UpdateRoot
    <3>3. ins.pc # "idle"
      BY <1>10 DEF UpdateRoot
    <3> QED BY <1>1, <3>1, <3>2, <3>3 DEF Insertion
  <2> QED BY <1>1, <1>10, <2>1 DEF UpdateRoot, TypeOK, RunningHasValue
<1>11. CASE Return \/ OutOfRange \/ InsertConflicts
  <2>1. /\ late \subseteq [value: Values, low: Row, index: Nat] /\ lateTakes \in Nat
        /\ \A w \in lateWrites : w.level \in 0 .. Height + 1 /\ w.at \in Nat
    BY <1>1 DEF TypeOK
  <2>2. End /\ UNCHANGED <<rows, nodes, nextIndex, calls, fix, raced, late, lateTakes, lateWrites, faults>>
    BY <1>11 DEF Return, OutOfRange, InsertConflicts
  <2> QED BY <1>1, <1>7, <2>1, <2>2
<1>12. CASE Abandon
  <2>1. /\ late \subseteq [value: Values, low: Row, index: Nat] /\ lateTakes \in Nat
        /\ \A w \in lateWrites : w.level \in 0 .. Height + 1 /\ w.at \in Nat
    BY <1>1 DEF TypeOK
  <2>2. /\ End /\ UNCHANGED <<rows, nodes, nextIndex, calls, fix, raced>>
        /\ late' \subseteq late \cup InFlight /\ lateTakes' \in {lateTakes, lateTakes + 1}
        /\ lateWrites' \subseteq lateWrites \cup WriteInFlight
        /\ faults < MaxFaults /\ faults' = faults + 1
    BY <1>12 DEF Abandon
  <2>3. faults' \in 0 .. MaxFaults
    BY <1>1, <1>2, <2>2
  <2>4. \A w \in lateWrites' : w.level \in 0 .. Height + 1 /\ w.at \in Nat
    BY <1>1, <2>1, <2>2, FlightType
  <2> QED BY <1>1, <1>7, <2>1, <2>2, <2>3, <2>4, FlightType
<1>13. CASE LateCommit
  <2>1. PICK t \in late : rows' = UpdateLow(t) \cup {NewRow(t)}
    BY <1>13 DEF LateCommit
  <2>2. t.value \in Values /\ t.low \in Row /\ t.index \in Nat
    BY <1>1 DEF TypeOK
  <2>3. rows' \subseteq Row
    BY <1>1, <2>1, <2>2, RowsAfterShape DEF RowsAfter
  <2>4. late' = {} /\ UNCHANGED <<nodes, nextIndex, ins, disturbed, lateTakes, lateWrites, calls, fix, raced, faults>>
    BY <1>13 DEF LateCommit
  <2> QED BY <1>1, <2>3, <2>4 DEF TypeOK, RunningHasValue
<1>14. CASE LateTake
  BY <1>1, <1>14 DEF LateTake, TakeIndex, TypeOK, RunningHasValue
<1>15. CASE LateWrite
  <2>1. DOMAIN nodes' = Positions /\ disturbed' \in BOOLEAN
    BY <1>1, <1>15 DEF LateWrite, UpsertNode, TypeOK
  <2>2. lateWrites' \subseteq lateWrites /\ UNCHANGED <<rows, nextIndex, ins, late, lateTakes, calls, fix, raced, faults>>
    BY <1>15 DEF LateWrite
  <2>3. TypeOK'
    BY <1>1, <2>1, <2>2 DEF TypeOK
  <2> QED BY <1>1, <2>2, <2>3 DEF RunningHasValue
<1>16. CASE Restart
  <2>1. PICK r \in rows : fix' = r.index + 1
    BY <1>16 DEF Restart
  <2>2. r.index \in Nat
    BY <1>1, RowFields DEF TypeOK
  <2>3. /\ fix' \in Nat /\ raced' \in BOOLEAN
        /\ UNCHANGED <<rows, nodes, nextIndex, ins, disturbed, late, lateTakes, lateWrites, calls, faults>>
    BY <1>16, <2>1, <2>2 DEF Restart
  <2> QED BY <1>1, <2>3 DEF TypeOK, RunningHasValue
<1>17. CASE FixTreeState
  BY <1>1, <1>17 DEF FixTreeState, TypeOK, RunningHasValue
<1>18. ASSUME NEW c \in Callers, NEW v \in Values, AtomicBegin(c, v)
       PROVE  TypeOK' /\ RunningHasValue'
  <2>1. FindLow(v) \in Row
    BY <1>1, LowIsRow DEF TypeOK
  <2> DEFINE call == [pc |-> "found", value |-> v, low |-> FindLow(v)]
  <2>2. call \in Call /\ call.value = v
    BY <2>1 DEF Call
  <2>3. calls \in [Callers -> Call] /\ calls' = [calls EXCEPT ![c] = call]
    BY <1>1, <1>18 DEF AtomicBegin, TypeOK
  <2> HIDE DEF call
  <2>4. calls' \in [Callers -> Call]
    BY <2>2, <2>3
  <2>5. \A d \in Callers : calls'[d].pc = "found" => calls'[d].value \in Values
    BY <1>1, <2>2, <2>3 DEF RunningHasValue
  <2>6. UNCHANGED <<rows, nodes, nextIndex, ins, disturbed, late, lateTakes, lateWrites, fix, raced, faults>>
    BY <1>18 DEF AtomicBegin
  <2> QED BY <1>1, <2>4, <2>5, <2>6 DEF TypeOK, RunningHasValue
<1>19. ASSUME NEW c \in Callers, AtomicInsert(c) PROVE TypeOK' /\ RunningHasValue'
  <2>1. /\ calls \in [Callers -> Call] /\ calls[c].pc = "found" /\ calls[c].low \in Row
        /\ calls[c].value \in Values /\ ReadStillHolds(calls[c])
    BY <1>1, <1>19 DEF AtomicInsert, TypeOK, Call, RunningHasValue, IInv, ReadsStillHold
  <2>2. calls' = [calls EXCEPT ![c].pc = "done"]
    BY <1>19 DEF AtomicInsert
  <2>3. calls' \in [Callers -> Call]
    BY <2>1, <2>2 DEF Call
  <2>4. \A d \in Callers : calls'[d].pc = "found" => calls'[d].value \in Values
    BY <1>1, <2>1, <2>2 DEF RunningHasValue
  <2>5. /\ nextIndex' = nextIndex + 1 /\ raced' \in BOOLEAN
        /\ UNCHANGED <<nodes, ins, disturbed, late, lateTakes, lateWrites, fix, faults>>
    BY <1>1, <1>19 DEF AtomicInsert, TakeIndex, TypeOK
  <2>6. \/ rows' = rows
        \/ rows' = Spliced(calls[c], nextIndex) /\ \A r \in rows : r.index # nextIndex
    BY <1>19 DEF AtomicInsert, Fits
  <2>7. rows' \subseteq Row
    BY <1>1, <2>1, <2>5, <2>6, SpliceKeepsTable DEF TypeOK
  <2> QED BY <1>1, <2>3, <2>4, <2>5, <2>7 DEF TypeOK, RunningHasValue
<1> QED BY <1>3, <1>4, <1>5, <1>6, <1>8, <1>9, <1>10, <1>11, <1>12, <1>13, <1>14,
           <1>15, <1>16, <1>17, <1>18, <1>19
        DEF Next, Insert, InsertComplete

-----------------------------------------------------------------------------
(***************************************************************************)
(* Every step keeps the rest of the invariant.                             *)
(***************************************************************************)

Rest ==
  /\ ZeroIsMember /\ ReadsStillHold /\ LateIsNew /\ ChainLeadsUp
  /\ IndexesAreUnique /\ CounterMovesOn

Table == <<rows, late, nextIndex, calls, fix, raced>>

\* Steps that leave the table, the late transactions, the counter and the
\* calls alone, and do not bring an insertion into a phase with a read or an index.
LEMMA QuietStep ==
  ASSUME IInv, UNCHANGED Table,
         ins'.pc \in {"index", "insert"} => ins' = ins,
         ins'.pc # "idle" => ins.pc # "idle" \/ fix = 0
  PROVE  Rest'
<1>1. /\ rows' = rows /\ late' = late /\ nextIndex' = nextIndex /\ Members' = Members
      /\ calls' = calls /\ fix' = fix /\ raced' = raced
  BY DEF Table, Members
<1>2. Rest
  BY DEF IInv, Rest
<1>3. ZeroIsMember' /\ LateIsNew' /\ ChainLeadsUp'
  BY <1>1, <1>2 DEF Rest, ZeroIsMember, LateIsNew, ChainLeadsUp
<1>4. ReadsStillHold'
  BY <1>1, <1>2 DEF Rest, ReadsStillHold, ReadStillHolds
<1>5. IndexesAreUnique'
  BY <1>1, <1>2 DEF Rest, IndexesAreUnique
<1>6. CounterMovesOn'
  BY <1>1, <1>2 DEF Rest, CounterMovesOn
<1> QED BY <1>3, <1>4, <1>5, <1>6 DEF Rest

\* Steps that take or set the counter, with the list as it is
LEMMA CounterStep ==
  ASSUME IInv, UNCHANGED <<rows, calls>>, late' \subseteq late,
         ins'.pc \in {"index", "insert"} => ins' = ins
  PROVE  /\ ZeroIsMember' /\ ReadsStillHold' /\ LateIsNew' /\ ChainLeadsUp'
         /\ \A r, s \in rows' : r.index = s.index => r = s
         /\ \A r \in rows', t \in late' : t.index # r.index
<1>1. Members' = Members
  BY DEF Members
<1>2. ZeroIsMember' /\ LateIsNew' /\ ChainLeadsUp'
  BY <1>1 DEF IInv, ZeroIsMember, LateIsNew, ChainLeadsUp
<1>3. ReadsStillHold'
  BY <1>1 DEF IInv, ReadsStillHold, ReadStillHolds
<1> QED BY <1>2, <1>3 DEF IInv, IndexesAreUnique

LEMMA InvariantStep ==
  ASSUME IInv, Next
  PROVE  Rest'
<1>1. /\ TypeOK /\ RunningHasValue /\ ZeroIsMember /\ ReadsStillHold /\ LateIsNew
      /\ ChainLeadsUp /\ IndexesAreUnique /\ CounterMovesOn /\ ins \in Insertion /\ rows # {}
      /\ rows \subseteq Row /\ nextIndex \in Nat /\ fix \in Nat
  BY DEF IInv, TypeOK, ZeroIsMember, Members
<1>0. /\ \A r \in rows : r.index \in Nat
      /\ \A t \in late : t.index \in Nat
  BY <1>1, RowFields DEF TypeOK
<1> USE DEF stale, locals
<1>2. ASSUME NEW v \in Values, Begin(v)
      PROVE  UNCHANGED Table /\ ins'.pc = "find" /\ fix = 0
  BY <1>2 DEF Begin, Table, Idle
<1>3. CASE FindLowNullifier
  <2>1. /\ rows' = rows /\ late' = late /\ nextIndex' = nextIndex /\ Members' = Members
        /\ ins'.value = ins.value /\ ins'.low = FindLow(ins.value) /\ ins'.pc = "index"
        /\ calls' = calls /\ fix' = fix /\ raced' = raced /\ fix = 0
    BY <1>1, <1>3 DEF FindLowNullifier, Members, Insertion, CounterMovesOn
  <2>2. FindLow(ins.value) \in rows /\ InRange(ins.value, FindLow(ins.value))
    BY <1>1, <1>3, LowIsRow DEF FindLowNullifier
  <2>3. /\ ins'.low.value \in Members' /\ ins'.low.value < ins'.value
        /\ ins'.low.next # 0 => ins'.low.next \in Members' /\ ins'.value < ins'.low.next
    BY <1>1, <2>1, <2>2 DEF InRange, ChainLeadsUp, Members
  <2>4. ReadsStillHold'
    BY <1>1, <2>1, <2>3 DEF ReadsStillHold, ReadStillHolds
  <2>5. IndexesAreUnique' /\ CounterMovesOn'
    BY <1>1, <2>1 DEF IndexesAreUnique, CounterMovesOn
  <2> QED BY <1>1, <2>1, <2>4, <2>5 DEF Rest, ZeroIsMember, LateIsNew, ChainLeadsUp
<1>4. CASE GetNextIndex
  <2>1. /\ rows' = rows /\ late' = late /\ nextIndex' = nextIndex + 1 /\ Members' = Members
        /\ ins.pc = "index" /\ ins'.value = ins.value /\ ins'.low = ins.low
        /\ ins'.index = nextIndex /\ calls' = calls
        /\ fix' = fix /\ raced' = raced /\ fix = 0
    BY <1>1, <1>4 DEF GetNextIndex, TakeIndex, Members, Insertion, CounterMovesOn
  <2>2. ReadsStillHold'
    BY <1>1, <2>1 DEF ReadsStillHold, ReadStillHolds
  <2>3. ~raced => \A r \in rows \cup late : r.index < nextIndex /\ r.index \in Nat
    BY <1>0, <1>1, <2>1 DEF IndexesAreUnique
  <2>4. IndexesAreUnique'
    BY <1>1, <2>1, <2>3 DEF IndexesAreUnique
  <2>5. CounterMovesOn'
    BY <1>1, <2>1 DEF CounterMovesOn
  <2> QED BY <1>1, <2>1, <2>2, <2>4, <2>5 DEF Rest, ZeroIsMember, LateIsNew, ChainLeadsUp
<1>5. CASE InsertRow
  <2>1. /\ rows' = RowsAfter(ins) /\ late' = late /\ nextIndex' = nextIndex
        /\ ins.pc = "insert" /\ ins'.pc = "climb" /\ ~Waits(ins, ins.index)
        /\ ins.value \notin Members /\ \A r \in rows : ins.index # r.index
        /\ calls' = calls /\ fix' = fix /\ raced' = raced /\ fix = 0
    BY <1>1, <1>5 DEF InsertRow, RowsAfter, Insertion, Fits, CounterMovesOn
  <2>2. MayCommit(ins)
    BY <1>1, <2>1 DEF MayCommit, Insertion, RunningHasValue, ReadsStillHold
  <2>3. /\ ZeroIsMember' /\ ChainLeadsUp' /\ Members' = Members \cup {ins.value}
        /\ \A r, s \in rows' : r.index = s.index => r = s
        /\ \A r \in rows' : r.index = ins.index \/ \E s \in rows : r.index = s.index
    BY <2>1, <2>2, CommitKeepsTable
  <2>4. LateIsNew'
    BY <1>1, <2>1, <2>3 DEF LateIsNew, Waits
  <2>5. ReadsStillHold'
    BY <1>1, <2>1, <2>3 DEF ReadsStillHold, ReadStillHolds
  <2>6. \A t \in late : t.index # ins.index
    BY <2>1 DEF Waits
  <2>7. ins.index < nextIndex
    BY <1>1, <2>1 DEF CounterMovesOn
  <2>8. \A r \in rows', t \in late : t.index # r.index
    BY <1>1, <2>3, <2>6 DEF IndexesAreUnique
  <2>9. ~raced => \A r \in rows' \cup late : r.index < nextIndex
    BY <1>1, <2>1, <2>3, <2>7 DEF IndexesAreUnique
  <2>10. IndexesAreUnique' /\ CounterMovesOn'
    BY <2>1, <2>3, <2>8, <2>9 DEF IndexesAreUnique, CounterMovesOn
  <2> QED BY <2>3, <2>4, <2>5, <2>10 DEF Rest
<1>6. CASE InsertConflicts \/ OutOfRange \/ Return
  BY <1>6, QuietStep DEF InsertConflicts, OutOfRange, Return, End, Table, Idle
<1>7. CASE UpsertLeaf \/ UpsertParent
  <2>1. UNCHANGED Table /\ ins.pc = "climb" /\ ins'.pc = "climb"
    BY <1>1, <1>7 DEF UpsertLeaf, UpsertParent, Table, Insertion
  <2> QED BY <2>1, QuietStep
<1>8. CASE LateWrite
  BY <1>8, QuietStep DEF LateWrite, Table
<1>9. CASE UpdateRoot
  <2>1. UNCHANGED Table /\ ins.pc = "climb" /\ ins'.pc \in {"climb", "prove"}
    BY <1>1, <1>9 DEF UpdateRoot, Table, Insertion
  <2> QED BY <2>1, QuietStep
<1>10. CASE LateTake
  <2>1. /\ rows' = rows /\ late' = late /\ nextIndex' = nextIndex + 1 /\ ins' = ins
        /\ calls' = calls /\ fix' = fix /\ raced' = raced
    BY <1>10 DEF LateTake, TakeIndex
  <2>2. ins.pc = "insert" => ins.index \in Nat
    BY <1>1 DEF Insertion
  <2>3. IndexesAreUnique' /\ CounterMovesOn'
    BY <1>0, <1>1, <2>1, <2>2 DEF IndexesAreUnique, CounterMovesOn
  <2> QED BY <2>1, <2>3, CounterStep DEF Rest
<1>11. CASE Abandon
  <2>1. /\ rows' = rows /\ nextIndex' = nextIndex /\ Members' = Members /\ ins'.pc = "idle"
        /\ late' \subseteq late \cup InFlight /\ calls' = calls /\ fix' = fix /\ raced' = raced
        /\ fix = 0
    BY <1>1, <1>11 DEF Abandon, End, Idle, Members, CounterMovesOn
  <2>2. ASSUME NEW t \in InFlight
        PROVE  /\ ReadStillHolds(t) /\ t.value \notin Members
               /\ t.index < nextIndex /\ \A r \in rows : t.index # r.index
    <3>1. /\ ins.pc = "insert" /\ ins.value \notin Members /\ \A r \in rows : ins.index # r.index
          /\ t.value = ins.value /\ t.low = ins.low /\ t.index = ins.index
      BY DEF InFlight, Fits
    <3>2. ReadStillHolds(ins) /\ ins.index < nextIndex
      BY <1>1, <3>1 DEF ReadsStillHold, CounterMovesOn
    <3>3. ReadStillHolds(t)
      BY <3>1, <3>2 DEF ReadStillHolds
    <3> QED BY <3>1, <3>2, <3>3
  <2>3. LateIsNew'
    BY <1>1, <2>1, <2>2 DEF LateIsNew
  <2>4. ReadsStillHold'
    BY <1>1, <2>1, <2>2 DEF ReadsStillHold, ReadStillHolds
  <2>5. \A r \in rows, t \in late' : t.index # r.index
    BY <1>1, <2>1, <2>2 DEF IndexesAreUnique
  <2>6. ~raced => \A r \in rows \cup late' : r.index < nextIndex
    BY <1>1, <2>1, <2>2 DEF IndexesAreUnique
  <2>7. IndexesAreUnique' /\ CounterMovesOn'
    BY <1>1, <2>1, <2>5, <2>6 DEF IndexesAreUnique, CounterMovesOn
  <2> QED BY <1>1, <2>1, <2>3, <2>4, <2>7 DEF Rest, ZeroIsMember, ChainLeadsUp
<1>12. CASE LateCommit
  <2>1. PICK t \in late : rows' = RowsAfter(t)
    BY <1>12 DEF LateCommit, RowsAfter
  <2>2. /\ late' = {} /\ nextIndex' = nextIndex /\ ins' = ins /\ calls' = calls
        /\ fix' = fix /\ raced' = raced
    BY <1>12 DEF LateCommit
  <2>3. MayCommit(t)
    BY <1>1 DEF MayCommit, TypeOK, ReadsStillHold, LateIsNew, IndexesAreUnique
  <2>4. /\ ZeroIsMember' /\ ChainLeadsUp' /\ Members' = Members \cup {t.value}
        /\ \A r, s \in rows' : r.index = s.index => r = s
        /\ \A r \in rows' : r.index = t.index \/ \E s \in rows : r.index = s.index
    BY <2>1, <2>3, CommitKeepsTable
  <2>5. LateIsNew'
    BY <2>2 DEF LateIsNew
  <2>6. ReadsStillHold'
    BY <1>1, <2>2, <2>4 DEF ReadsStillHold, ReadStillHolds
  <2>7. IndexesAreUnique'
    <3>1. (fix = 0 /\ ~raced) =>
            /\ \A r \in rows' : r.index < nextIndex
            /\ ins.pc = "insert" => \A r \in rows' : ins.index # r.index
      BY <1>1, <2>4 DEF IndexesAreUnique
    <3> QED BY <2>2, <2>4, <3>1 DEF IndexesAreUnique
  <2>8. CounterMovesOn'
    <3>1. (fix # 0 /\ ~raced) => \A r \in rows' : r.index < fix
      BY <1>1, <2>4 DEF CounterMovesOn
    <3> QED BY <1>1, <2>2, <3>1 DEF CounterMovesOn
  <2> QED BY <2>4, <2>5, <2>6, <2>7, <2>8 DEF Rest
<1>13. CASE Restart
  <2>1. /\ rows' = rows /\ late' = late /\ ins.pc = "idle" /\ ins' = ins /\ calls' = calls
        /\ nextIndex' = nextIndex /\ raced' = (late # {})
    BY <1>13 DEF Restart
  <2>2. PICK r \in rows : (\A s \in rows : s.index <= r.index) /\ fix' = r.index + 1
    BY <1>13 DEF Restart
  <2>3. fix' # 0 /\ \A s \in rows : s.index < fix'
    BY <1>0, <2>2
  <2>4. CounterMovesOn'
    BY <2>1, <2>3 DEF CounterMovesOn
  <2>5. IndexesAreUnique'
    BY <1>1, <2>1, <2>3 DEF IndexesAreUnique
  <2> QED BY <2>1, <2>4, <2>5, CounterStep DEF Rest
<1>14. CASE FixTreeState
  <2>1. /\ rows' = rows /\ late' = late /\ ins' = ins /\ calls' = calls
        /\ nextIndex' = fix /\ fix # 0 /\ fix' = 0 /\ raced' = raced
    BY <1>14 DEF FixTreeState
  <2>2. ins.pc = "idle"
    BY <1>1, <2>1 DEF CounterMovesOn
  <2>3. CounterMovesOn' /\ IndexesAreUnique'
    BY <1>1, <2>1, <2>2 DEF CounterMovesOn, IndexesAreUnique
  <2> QED BY <2>1, <2>3, CounterStep DEF Rest
<1>15. ASSUME NEW c \in Callers, NEW v \in Values, AtomicBegin(c, v)
       PROVE  Rest'
  <2>1. /\ rows' = rows /\ late' = late /\ nextIndex' = nextIndex /\ Members' = Members
        /\ ins' = ins /\ v \notin Members /\ fix' = fix /\ raced' = raced
        /\ calls' = [calls EXCEPT ![c] = [pc |-> "found", value |-> v, low |-> FindLow(v)]]
    BY <1>15 DEF AtomicBegin, Members
  <2>2. FindLow(v) \in rows /\ InRange(v, FindLow(v))
    <3>1. LowIsPredecessor
      BY <1>1, LowPrecedes DEF ZeroIsMember
    <3> QED BY <1>1, <2>1, <3>1, LowIsRow DEF LowIsPredecessor
  <2>3. calls \in [Callers -> Call]
    BY <1>1 DEF TypeOK
  <2>4. ReadStillHolds([pc |-> "found", value |-> v, low |-> FindLow(v)])
    BY <1>1, <2>2 DEF InRange, ChainLeadsUp, Members, ReadStillHolds
  <2>5. \A d \in Callers : calls'[d].pc = "found" => ReadStillHolds(calls'[d])
    <3>1. calls'[c] = [pc |-> "found", value |-> v, low |-> FindLow(v)]
      BY <2>1, <2>3
    <3>2. ReadStillHolds(calls'[c])
      BY <2>4, <3>1
    <3>3. \A d \in Callers \ {c} : calls'[d] = calls[d]
      BY <2>1, <2>3
    <3> QED BY <1>1, <3>2, <3>3 DEF ReadsStillHold
  <2>6. ReadsStillHold'
    BY <1>1, <2>1, <2>5 DEF ReadsStillHold, ReadStillHolds
  <2>7. IndexesAreUnique' /\ CounterMovesOn'
    BY <1>1, <2>1 DEF IndexesAreUnique, CounterMovesOn
  <2> QED BY <1>1, <2>1, <2>6, <2>7 DEF Rest, ZeroIsMember, LateIsNew, ChainLeadsUp
<1>16. ASSUME NEW c \in Callers, AtomicInsert(c)
       PROVE  Rest'
  <2>1. /\ late' = late /\ nextIndex' = nextIndex + 1 /\ ins' = ins
        /\ calls[c].pc = "found" /\ ~Waits(calls[c], nextIndex)
        /\ calls' = [calls EXCEPT ![c].pc = "done"]
        /\ fix' = fix /\ raced' = (raced \/ fix # 0)
        /\ \/ rows' = rows
           \/ /\ rows' = Spliced(calls[c], nextIndex) /\ calls[c].value \notin Members
              /\ \A r \in rows : r.index # nextIndex
    BY <1>16 DEF AtomicInsert, TakeIndex, Fits
  <2>2. /\ calls \in [Callers -> Call] /\ calls[c] \in Call /\ calls[c].low \in Row
        /\ calls[c].value \in Values /\ ReadStillHolds(calls[c])
    BY <1>1, <2>1 DEF TypeOK, Call, RunningHasValue, ReadsStillHold
  <2>3. /\ ZeroIsMember' /\ ChainLeadsUp'
        /\ Members' \subseteq Members \cup {calls[c].value} /\ Members \subseteq Members'
        /\ \A r, s \in rows' : r.index = s.index => r = s
        /\ \A r \in rows' : r.index = nextIndex \/ \E s \in rows : r.index = s.index
        /\ rows' = rows => Members' = Members
    <3>1. CASE rows' = rows
      <4>1. Members' = Members
        BY <3>1 DEF Members
      <4> QED BY <1>1, <3>1, <4>1 DEF IndexesAreUnique, ZeroIsMember, ChainLeadsUp
    <3>2. CASE rows' # rows
      BY <2>1, <2>2, <3>2, SpliceKeepsTable
    <3> QED BY <3>1, <3>2
  <2>4. LateIsNew'
    BY <1>1, <2>1, <2>3 DEF LateIsNew, Waits
  <2>5. \A d \in Callers : calls'[d].pc = "found" => calls'[d] = calls[d] /\ calls[d].pc = "found"
    BY <2>1, <2>2 DEF Call
  <2>6. ReadsStillHold'
    <3>1. \A d \in Callers : calls'[d].pc = "found" => ReadStillHolds(calls[d])
      BY <1>1, <2>5 DEF ReadsStillHold
    <3>2. \A d \in Callers : calls'[d].pc = "found" =>
            /\ calls'[d].low.value \in Members' /\ calls'[d].low.value < calls'[d].value
            /\ calls'[d].low.next # 0 =>
                 calls'[d].low.next \in Members' /\ calls'[d].value < calls'[d].low.next
      BY <2>3, <2>5, <3>1 DEF ReadStillHolds
    <3> QED BY <1>1, <2>1, <2>3, <3>2 DEF ReadsStillHold, ReadStillHolds
  <2>7. \A t \in late : t.index # nextIndex
    BY <2>1 DEF Waits
  <2>8. ins.pc = "insert" => ins.index \in Nat /\ ins.index < nextIndex
    BY <1>1 DEF CounterMovesOn, Insertion
  <2>9. \A r \in rows', t \in late : t.index # r.index
    BY <1>1, <2>3, <2>7 DEF IndexesAreUnique
  <2>10. (fix = 0 /\ ~raced) =>
           /\ \A r \in rows' \cup late : r.index < nextIndex + 1
           /\ ins.pc = "insert" => \A r \in rows' \cup late : ins.index # r.index
    BY <1>0, <1>1, <2>3, <2>8 DEF IndexesAreUnique
  <2>11. IndexesAreUnique'
    BY <2>1, <2>3, <2>9, <2>10 DEF IndexesAreUnique
  <2>12. CounterMovesOn'
    <3>1. ins.pc # "idle" => fix = 0
      BY <1>1 DEF CounterMovesOn
    <3>2. ins.pc = "insert" => ins.index < nextIndex + 1
      BY <1>1, <2>8
    <3>3. fix # 0 => raced'
      BY <2>1
    <3> QED BY <2>1, <3>1, <3>2, <3>3 DEF CounterMovesOn
  <2> QED BY <2>3, <2>4, <2>6, <2>11, <2>12 DEF Rest
<1> QED BY <1>2, <1>3, <1>4, <1>5, <1>6, <1>7, <1>8, <1>9, <1>10, <1>11, <1>12, <1>13, <1>14,
           <1>15, <1>16, QuietStep
        DEF Next, Insert, InsertComplete

-----------------------------------------------------------------------------
(***************************************************************************)
(* The theorems.                                                           *)
(***************************************************************************)

LEMMA InitInvariant == Init => IInv
<1> SUFFICES ASSUME Init PROVE IInv
  OBVIOUS
<1>1. Members = {0} /\ rows = {Genesis}
  BY DEF Init, Members, Genesis
<1>2. TypeOK
  <2>1. DOMAIN nodes = Positions
    BY DEF Init
  <2>2. calls \in [Callers -> Call]
    BY ReadyIsCall DEF Init
  <2>3. rows \subseteq Row /\ ins \in Insertion
    BY GenesisIsRow, IdleIsInsertion DEF Init
  <2>4. /\ nextIndex \in Nat /\ lateTakes \in Nat /\ fix \in Nat /\ faults \in 0 .. MaxFaults
        /\ late = {} /\ lateWrites = {}
    BY TreeAssumption DEF Init
  <2>5. disturbed \in BOOLEAN /\ raced \in BOOLEAN
    BY DEF Init
  <2> QED BY <2>1, <2>2, <2>3, <2>4, <2>5 DEF TypeOK
<1>3. RunningHasValue /\ ReadsStillHold /\ LateIsNew /\ CounterMovesOn
  BY DEF Init, Idle, Ready, RunningHasValue, ReadsStillHold, LateIsNew, CounterMovesOn
<1>4. ZeroIsMember /\ ChainLeadsUp
  BY <1>1 DEF ZeroIsMember, ChainLeadsUp, Genesis
<1>5. IndexesAreUnique
  BY <1>1 DEF Init, Idle, IndexesAreUnique, Genesis
<1> QED BY <1>2, <1>3, <1>4, <1>5 DEF IInv

LEMMA StutterInvariant == IInv /\ UNCHANGED vars => IInv'
<1> SUFFICES ASSUME IInv, UNCHANGED vars PROVE IInv'
  OBVIOUS
<1>1. TypeOK' /\ RunningHasValue'
  BY DEF IInv, vars, locals, stale, TypeOK, RunningHasValue
<1>2. UNCHANGED Table /\ ins' = ins
  BY DEF vars, locals, stale, Table
<1> QED BY <1>1, <1>2, QuietStep DEF IInv, Rest

\* The inductive invariant holds in every reachable state.
THEOREM Invariance == Spec => []IInv
<1>1. IInv /\ [Next]_vars => IInv'
  <2>1. ASSUME IInv, Next PROVE IInv'
    BY <2>1, TypeStep, InvariantStep DEF IInv, Rest
  <2> QED BY <2>1, StutterInvariant
<1> QED BY InitInvariant, <1>1, PTL DEF Spec

\* The variables keep their types.
THEOREM TypeCorrect == Spec => []TypeOK
<1>1. IInv => TypeOK
  BY DEF IInv
<1> QED BY Invariance, <1>1, PTL

\* However insertions are abandoned and commits delayed, every pointer of
\* the list leads upwards to a row that exists, so that
\* validate_nullifier_chain never keeps the service from starting.
THEOREM ChainAlwaysLeadsUp == Spec => []ChainLeadsUp
<1>1. IInv => ChainLeadsUp
  BY DEF IInv
<1> QED BY Invariance, <1>1, PTL

\* find_low_nullifier always finds the predecessor of a value that is not in
\* the list, whatever pointers were lost.
THEOREM LowAlwaysPrecedes == Spec => []LowIsPredecessor
<1>1. IInv => LowIsPredecessor
  BY LowPrecedes DEF IInv, ZeroIsMember
<1> QED BY Invariance, <1>1, PTL

\* Two nullifiers never have one tree index, and the service is never given
\* a used one, over any restarts that nothing overtook.
THEOREM IndexesNeverShared == Spec => []IndexesAreUnique
<1>1. IInv => IndexesAreUnique
  BY DEF IInv
<1> QED BY Invariance, <1>1, PTL
-----------------------------------------------------------------------------
(***************************************************************************)
(* Indexes of nodes                                                        *)
(***************************************************************************)

LEMMA HeightIsPositive == Height \in Nat /\ Height > 0
BY TreeAssumption

LEMMA TwoToRecursion ==
  TwoTo[0] = 1 /\ \A n \in 1 .. Height : TwoTo[n] = 2 * TwoTo[n - 1]
<1> DEFINE double == [x \in Nat |-> 2 * x]
<1>1. double \in [Nat -> Nat]
  OBVIOUS
<1>2. PICK g \in [0 .. Height -> Nat] : Iterates(g, 1, double, Height)
  <2> HIDE DEF double
  <2> QED BY <1>1, IteratesExist, HeightIsPositive
<1>3. g = [n \in 0 .. Height |-> IF n = 0 THEN 1 ELSE 2 * g[n - 1]]
  <2>1. ASSUME NEW n \in 0 .. Height, n # 0 PROVE double[g[n - 1]] = 2 * g[n - 1]
    <3>1. n - 1 \in 0 .. Height
      BY <2>1, HeightIsPositive
    <3>2. g[n - 1] \in Nat
      BY <3>1
    <3> QED BY <3>2
  <2> HIDE DEF double
  <2>2. g = [n \in 0 .. Height |-> IF n = 0 THEN 1 ELSE double[g[n - 1]]]
    BY <1>2 DEF Iterates
  <2> QED BY <2>1, <2>2
<1>4. TwoTo = [n \in 0 .. Height |-> IF n = 0 THEN 1 ELSE 2 * TwoTo[n - 1]]
  BY <1>3 DEF TwoTo
<1>5. TwoTo[0] = 1
  BY <1>4, HeightIsPositive
<1>6. ASSUME NEW n \in 1 .. Height PROVE TwoTo[n] = 2 * TwoTo[n - 1]
  <2>1. n \in 0 .. Height /\ n # 0
    OBVIOUS
  <2> QED BY <1>4, <2>1
<1> QED BY <1>5, <1>6

LEMMA IndexRecursion ==
  ASSUME NEW i \in Nat
  PROVE  /\ IndexAt(i)[0] = i
         /\ \A l \in 1 .. Height : IndexAt(i)[l] = IndexAt(i)[l - 1] \div 2
<1> DEFINE half == [x \in Nat |-> x \div 2]
<1>1. half \in [Nat -> Nat]
  OBVIOUS
<1>2. PICK g \in [0 .. Height -> Nat] : Iterates(g, i, half, Height)
  <2> HIDE DEF half
  <2> QED BY <1>1, IteratesExist, HeightIsPositive
<1>3. g = [l \in 0 .. Height |-> IF l = 0 THEN i ELSE g[l - 1] \div 2]
  <2>1. ASSUME NEW l \in 0 .. Height, l # 0 PROVE half[g[l - 1]] = g[l - 1] \div 2
    <3>1. l - 1 \in 0 .. Height
      BY <2>1, HeightIsPositive
    <3>2. g[l - 1] \in Nat
      BY <3>1
    <3> QED BY <3>2
  <2> HIDE DEF half
  <2>2. g = [l \in 0 .. Height |-> IF l = 0 THEN i ELSE half[g[l - 1]]]
    BY <1>2 DEF Iterates
  <2> QED BY <2>1, <2>2
<1> DEFINE f == IndexAt(i)
<1>4. f = [l \in 0 .. Height |-> IF l = 0 THEN i ELSE f[l - 1] \div 2]
  BY <1>3 DEF IndexAt
<1> HIDE DEF f
<1>5. f[0] = i
  BY <1>4, HeightIsPositive
<1>6. ASSUME NEW l \in 1 .. Height PROVE f[l] = f[l - 1] \div 2
  <2>1. l \in 0 .. Height /\ l # 0
    OBVIOUS
  <2> QED BY <1>4, <2>1
<1> QED BY <1>5, <1>6 DEF f

LEMMA TwoToType == \A n \in 0 .. Height : TwoTo[n] \in Nat \ {0}
<1> DEFINE Bad == {n \in 0 .. Height : TwoTo[n] \notin Nat \ {0}}
<1>1. SUFFICES ASSUME Bad # {} PROVE FALSE
  OBVIOUS
<1>2. Bad \subseteq Nat
  BY HeightIsPositive
<1>3. PICK n \in Bad : \A m \in Bad : n <= m
  BY <1>1, <1>2, LeastNumber
<1>4. CASE n = 0
  BY <1>3, <1>4, TwoToRecursion
<1>5. CASE n # 0
  <2>1. n \in 1 .. Height /\ n - 1 \in 0 .. Height /\ n - 1 \notin Bad
    BY <1>3, <1>5, HeightIsPositive
  <2>2. TwoTo[n] = 2 * TwoTo[n - 1] /\ TwoTo[n - 1] \in Nat \ {0}
    BY <2>1, TwoToRecursion
  <2>3. TwoTo[n] \in Nat \ {0}
    BY <2>2
  <2> QED BY <1>3, <2>3
<1> QED BY <1>4, <1>5

\* The indexes of a level of the tree, and those of its leaves
Level(l) == 0 .. TwoTo[Height - l] - 1
Leaves == 0 .. TwoTo[Height] - 1

LEMMA LevelAbove ==
  ASSUME NEW l \in 1 .. Height
  PROVE  /\ \A k \in Level(l - 1) : k \div 2 \in Level(l)
         /\ \A k \in Level(l) : 2 * k \in Level(l - 1) /\ 2 * k + 1 \in Level(l - 1)
<1>1. Height - (l - 1) \in 1 .. Height /\ Height - (l - 1) - 1 = Height - l /\ Height - l \in 0 .. Height
  BY HeightIsPositive
<1>2. TwoTo[Height - (l - 1)] = 2 * TwoTo[Height - l] /\ TwoTo[Height - l] \in Nat \ {0}
  BY <1>1, TwoToRecursion, TwoToType
<1> DEFINE w == TwoTo[Height - l]
<1>3. Level(l - 1) = 0 .. 2 * w - 1 /\ Level(l) = 0 .. w - 1 /\ w \in Nat \ {0}
  BY <1>2 DEF Level
<1> HIDE DEF w
<1> QED BY <1>3

LEMMA TopLevel == Level(Height) = {0} /\ Level(0) = Leaves
<1>1. Height - Height = 0 /\ Height - 0 = Height
  BY HeightIsPositive
<1> QED BY <1>1, TwoToRecursion DEF Level, Leaves

LEMMA IndexInLevel ==
  ASSUME NEW i \in Leaves
  PROVE  /\ i \in Nat
         /\ \A l \in 0 .. Height : IndexAt(i)[l] \in Level(l) /\ IndexAt(i)[l] \in Nat
         /\ IndexAt(i)[Height] = 0
<1> DEFINE Bad == {l \in 0 .. Height : IndexAt(i)[l] \notin Level(l)}
<1>0. i \in Nat
  BY TwoToType, HeightIsPositive DEF Leaves
<1>1. Bad = {}
  <2>1. SUFFICES ASSUME Bad # {} PROVE FALSE
    OBVIOUS
  <2>2. Bad \subseteq Nat
    BY HeightIsPositive
  <2>3. PICK l \in Bad : \A m \in Bad : l <= m
    BY <2>1, <2>2, LeastNumber
  <2>4. CASE l = 0
    BY <1>0, <2>3, <2>4, IndexRecursion, TopLevel
  <2>5. CASE l # 0
    <3>1. l \in 1 .. Height /\ l - 1 \in 0 .. Height /\ l - 1 \notin Bad
      BY <2>3, <2>5, HeightIsPositive
    <3>2. IndexAt(i)[l - 1] \in Level(l - 1) /\ IndexAt(i)[l] = IndexAt(i)[l - 1] \div 2
      BY <1>0, <3>1, IndexRecursion
    <3>3. IndexAt(i)[l] \in Level(l)
      BY <3>1, <3>2, LevelAbove
    <3> QED BY <2>3, <3>3
  <2> QED BY <2>4, <2>5
<1>2. \A l \in 0 .. Height : Level(l) \subseteq Nat
  BY DEF Level
<1>3. Height \in 0 .. Height
  BY HeightIsPositive
<1> QED BY <1>0, <1>1, <1>2, <1>3, TopLevel

LEMMA PositionsAre ==
  \A l, k : <<l, k>> \in Positions <=> l \in 0 .. Height /\ k \in Level(l)
BY DEF Positions, Level

-----------------------------------------------------------------------------
(***************************************************************************)
(* A table N of nodes and the path of a leaf in it                         *)
(***************************************************************************)

Path(N, i, l) == N[<<l, IndexAt(i)[l]>>]

\* A node is the hash of its children, as they are now.
Consistent(N, l, k) == N[<<l, k>>] = <<N[<<l - 1, 2 * k>>], N[<<l - 1, 2 * k + 1>>]>>

\* The side on which the path of i comes up to level l
Side(i, l) == 1 + (IndexAt(i)[l - 1] % 2)

LEMMA PathStep ==
  ASSUME NEW N, NEW i \in Leaves, NEW l \in 1 .. Height,
         Consistent(N, l, IndexAt(i)[l])
  PROVE  LET j == IndexAt(i)[l - 1]
         IN  /\ Path(N, i, l) = Parent(Path(N, i, l - 1), j, N[<<l - 1, Sibling(j)>>])
             /\ Path(N, i, l) # Zero
             /\ Path(N, i, l)[Side(i, l)] = Path(N, i, l - 1)
<1> DEFINE j == IndexAt(i)[l - 1]
           k == IndexAt(i)[l]
<1>1. l - 1 \in 0 .. Height /\ l - 1 \in Nat
  BY HeightIsPositive
<1>2. j \in Nat /\ k = j \div 2
  BY <1>1, IndexInLevel, IndexRecursion
<1>3. Path(N, i, l) = <<N[<<l - 1, 2 * k>>], N[<<l - 1, 2 * k + 1>>]>> /\ Path(N, i, l - 1) = N[<<l - 1, j>>]
  BY DEF Path, Consistent
<1>4. Path(N, i, l) # Zero
  BY <1>3 DEF Zero
<1>5. Side(i, l) = 1 + (j % 2)
  BY DEF Side
<1> HIDE DEF j, k
<1>6. CASE j % 2 = 1
  <2>1. 2 * k = j - 1 /\ 2 * k + 1 = j /\ 1 + (j % 2) = 2
    BY <1>2, <1>6
  <2>2. Path(N, i, l) = <<N[<<l - 1, j - 1>>], Path(N, i, l - 1)>>
    BY <1>3, <2>1
  <2>3. Parent(Path(N, i, l - 1), j, N[<<l - 1, Sibling(j)>>]) = <<N[<<l - 1, j - 1>>], Path(N, i, l - 1)>>
    BY <1>6 DEF Parent, Sibling, HashInternalNode
  <2>4. Path(N, i, l)[Side(i, l)] = Path(N, i, l - 1)
    BY <1>5, <2>1, <2>2
  <2> QED BY <1>4, <2>2, <2>3, <2>4 DEF j
<1>7. CASE j % 2 = 0
  <2>1. 2 * k = j /\ 2 * k + 1 = j + 1 /\ 1 + (j % 2) = 1
    BY <1>2, <1>7
  <2>2. Path(N, i, l) = <<Path(N, i, l - 1), N[<<l - 1, j + 1>>]>>
    BY <1>3, <2>1
  <2>3. Parent(Path(N, i, l - 1), j, N[<<l - 1, Sibling(j)>>]) = <<Path(N, i, l - 1), N[<<l - 1, j + 1>>]>>
    BY <1>7 DEF Parent, Sibling, HashInternalNode
  <2>4. Path(N, i, l)[Side(i, l)] = Path(N, i, l - 1)
    BY <1>5, <2>1, <2>2
  <2> QED BY <1>4, <2>2, <2>3, <2>4 DEF j
<1> QED BY <1>2, <1>6, <1>7

\* The proof of a leaf whose path is consistent leads to the top node.
LEMMA HashOfPathIs ==
  ASSUME NEW i \in Leaves, \A l \in 1 .. Height : Consistent(nodes, l, IndexAt(i)[l])
  PROVE  HashOfPath(i) = nodes[<<Height, 0>>]
<1> DEFINE step(u, l) == Parent(u[l - 1], IndexAt(i)[l - 1], NodeHash(l - 1, Sibling(IndexAt(i)[l - 1])))
           IsUp(u) == u = [l \in 0 .. Height |-> IF l = 0 THEN NodeHash(0, i) ELSE step(u, l)]
           g == [l \in 0 .. Height |-> Path(nodes, i, l)]
<1>1. \A l \in 0 .. Height : g[l] = Path(nodes, i, l)
  OBVIOUS
<1>2. NodeHash(0, i) = Path(nodes, i, 0)
  BY IndexInLevel, IndexRecursion DEF NodeHash, Path
<1>3. ASSUME NEW l \in 1 .. Height
      PROVE  Path(nodes, i, l) = Parent(Path(nodes, i, l - 1), IndexAt(i)[l - 1],
                                        NodeHash(l - 1, Sibling(IndexAt(i)[l - 1])))
  BY PathStep DEF NodeHash
<1>4. IsUp(g)
  <2>1. ASSUME NEW l \in 0 .. Height
        PROVE  g[l] = IF l = 0 THEN NodeHash(0, i) ELSE step(g, l)
    <3>1. CASE l = 0
      BY <1>1, <1>2, <3>1
    <3>2. CASE l # 0
      <4>1. l \in 1 .. Height /\ l - 1 \in 0 .. Height
        BY <3>2, HeightIsPositive
      <4>2. g[l - 1] = Path(nodes, i, l - 1) /\ g[l] = Path(nodes, i, l)
        BY <1>1, <4>1
      <4> HIDE DEF g
      <4> QED BY <1>3, <3>2, <4>1, <4>2
    <3> QED BY <3>1, <3>2
  <2>2. g = [l \in 0 .. Height |-> g[l]]
    OBVIOUS
  <2> HIDE DEF g, step
  <2> QED BY <2>1, <2>2
<1>5. PICK u : IsUp(u) /\ HashOfPath(i) = u[Height]
  <2>1. \E u : IsUp(u)
    <3> HIDE DEF IsUp, g
    <3> QED BY <1>4
  <2> HIDE DEF g
  <2> QED BY <2>1 DEF HashOfPath
<1> DEFINE Bad == {l \in 0 .. Height : u[l] # Path(nodes, i, l)}
<1>6. Bad = {}
  <2>1. SUFFICES ASSUME Bad # {} PROVE FALSE
    OBVIOUS
  <2>2. Bad \subseteq Nat
    BY HeightIsPositive
  <2>3. PICK l \in Bad : \A m \in Bad : l <= m
    BY <2>1, <2>2, LeastNumber
  <2> HIDE DEF g
  <2>4. CASE l = 0
    BY <1>2, <1>5, <2>3, <2>4
  <2>5. CASE l # 0
    <3>1. l \in 1 .. Height /\ l - 1 \in 0 .. Height /\ l - 1 \notin Bad
      BY <2>3, <2>5, HeightIsPositive
    <3>2. u[l - 1] = Path(nodes, i, l - 1)
      BY <3>1
    <3>3. u[l] = step(u, l)
      <4> HIDE DEF step
      <4> QED BY <1>5, <2>5, <3>1
    <3>4. u[l] = Path(nodes, i, l)
      BY <1>3, <3>1, <3>2, <3>3
    <3> QED BY <2>3, <3>4
  <2> QED BY <2>4, <2>5
<1>7. u[Height] = Path(nodes, i, Height)
  <2>1. Height \in 0 .. Height
    BY HeightIsPositive
  <2> HIDE DEF IsUp
  <2> QED BY <1>6, <2>1
<1> QED BY <1>5, <1>7, IndexInLevel DEF Path

(***************************************************************************)
(* A hash of level l shows leaf i when the hashes on the way down to i are *)
(* not those of missing nodes.                                             *)
(***************************************************************************)
Shows(h, l, i) ==
  \E d : /\ d[l] = h
         /\ \A m \in 0 .. l : d[m] # Zero
         /\ \A m \in 1 .. l : d[m - 1] = d[m][Side(i, m)]

LEMMA ZeroShowsNothing ==
  ASSUME NEW l \in Nat, NEW i
  PROVE  ~Shows(Zero, l, i)
<1>1. l \in 0 .. l
  OBVIOUS
<1> QED BY <1>1 DEF Shows

LEMMA ShowsDown ==
  ASSUME NEW h, NEW l \in Nat \ {0}, NEW i, Shows(h, l, i)
  PROVE  Shows(h[Side(i, l)], l - 1, i)
<1>1. PICK d : /\ d[l] = h
               /\ \A m \in 0 .. l : d[m] # Zero
               /\ \A m \in 1 .. l : d[m - 1] = d[m][Side(i, m)]
  BY DEF Shows
<1>2. l \in 1 .. l /\ \A m \in 0 .. l - 1 : m \in 0 .. l
  OBVIOUS
<1>3. \A m \in 1 .. l - 1 : m \in 1 .. l
  OBVIOUS
<1>4. d[l - 1] = h[Side(i, l)]
  BY <1>1, <1>2
<1>5. \A m \in 0 .. l - 1 : d[m] # Zero
  BY <1>1, <1>2
<1>6. \A m \in 1 .. l - 1 : d[m - 1] = d[m][Side(i, m)]
  BY <1>1, <1>3
<1> QED BY <1>4, <1>5, <1>6 DEF Shows

\* The top of a consistent path shows its leaf.
LEMMA PathShows ==
  ASSUME NEW N, NEW i \in Leaves, N[<<0, i>>] # Zero,
         \A l \in 1 .. Height : Consistent(N, l, IndexAt(i)[l])
  PROVE  Shows(N[<<Height, 0>>], Height, i)
<1> DEFINE d == [l \in 0 .. Height |-> Path(N, i, l)]
<1>1. \A l \in 0 .. Height : d[l] = Path(N, i, l)
  OBVIOUS
<1>2. Height \in 0 .. Height /\ Path(N, i, Height) = N[<<Height, 0>>]
  BY HeightIsPositive, IndexInLevel DEF Path
<1>3. Path(N, i, 0) # Zero
  BY IndexInLevel, IndexRecursion DEF Path
<1> HIDE DEF d
<1>4. ASSUME NEW m \in 0 .. Height PROVE d[m] # Zero
  <2>1. CASE m = 0
    BY <1>1, <1>3, <2>1
  <2>2. CASE m # 0
    <3>1. m \in 1 .. Height
      BY <2>2, HeightIsPositive
    <3> QED BY <1>1, <3>1, PathStep
  <2> QED BY <2>1, <2>2
<1>5. ASSUME NEW m \in 1 .. Height PROVE d[m - 1] = d[m][Side(i, m)]
  <2>1. m - 1 \in 0 .. Height /\ m \in 0 .. Height
    BY HeightIsPositive
  <2>2. d[m - 1] = Path(N, i, m - 1) /\ d[m] = Path(N, i, m)
    BY <1>1, <2>1
  <2> QED BY <2>2, PathStep
<1>6. d[Height] = N[<<Height, 0>>]
  BY <1>1, <1>2
<1> QED BY <1>4, <1>5, <1>6 DEF Shows

-----------------------------------------------------------------------------
(***************************************************************************)
(* The hash tree while insertions climb it.  HasRoom bounds the indexes by *)
(* the leaves of the tree, 2^32 in the code, which counts no further.      *)
(***************************************************************************)

HasRoom == nextIndex <= TwoTo[Height]

\* The leaves that rows have got
Used == {r.index : r \in rows}

\* Every index that a row has got, or is about to get, is one of a leaf.
RoomInv ==
  /\ Used \subseteq Leaves
  /\ \A t \in late : t.index \in Leaves
  /\ ins.pc = "insert" => ins.index \in Leaves

Climbs == ins.pc = "climb"

\* The leaf from which the insertion climbs
Start == IF ins.leaf = "low" THEN ins.low.index ELSE ins.index

\* The node that is written next: one of its children has just changed.
Pending(l, k) == Climbs /\ ins.level = l /\ k = ins.at \div 2

OK(l, k) == Consistent(nodes, l, k) \/ Pending(l, k)

\* Leaf i is there, and its path is consistent but for the pending node.
Settled(i) ==
  /\ nodes[<<0, i>>] # Zero
  /\ \A l \in 1 .. Height : OK(l, IndexAt(i)[l])

\* A climb that no late write disturbs carries the hash of the node below,
\* and leaves a consistent path there; the second climb spoils the path of
\* the first only where it repairs it next.
Climbing ==
  /\ ins.level # 0 => nodes[<<0, Start>>] # Zero /\ hash = nodes[<<ins.level - 1, ins.at>>]
  /\ \A l \in 1 .. Height : l < ins.level => Consistent(nodes, l, IndexAt(Start)[l])
  /\ ins.leaf = "new" => Settled(ins.low.index)

\* Any climb is on the path of its leaf.
OnPath == ins.at = IndexAt(Start)[IF ins.level = 0 THEN 0 ELSE ins.level - 1]

PathInv ==
  /\ ins.pc \in {"index", "insert", "climb", "prove"} => ins.low.index \in Used
  /\ ins.pc \in {"climb", "prove"} => ins.index \in Used
  /\ Climbs => OnPath
  /\ Climbs /\ ~disturbed => Climbing
  /\ ins.pc = "prove" /\ ~disturbed =>
       /\ Settled(ins.low.index) /\ Settled(ins.index)
       /\ root = nodes[<<Height, 0>>]

\* One upsert of a climb: the node of the leaf's path on its level.
Upsert(here) ==
  /\ Climbs /\ ins.level \in 0 .. Height
  /\ here = <<ins.level, IndexAt(Start)[ins.level]>> /\ here \in Positions
  /\ \A p \in Positions : p # here => nodes'[p] = nodes[p]
  /\ nodes'[here] = hash' /\ hash' = NextWrite.hash /\ disturbed' = disturbed
  /\ ins.level = 0 => nodes'[here] = LeafToWrite /\ LeafToWrite # Zero
  /\ ins.level # 0 =>
       /\ ins.at \div 2 = IndexAt(Start)[ins.level]
       /\ ~disturbed => Consistent(nodes', ins.level, IndexAt(Start)[ins.level])
  /\ ins'.pc = "climb" /\ ins'.level = ins.level + 1 /\ ins'.at = IndexAt(Start)[ins.level]
  /\ ins'.leaf = ins.leaf /\ ins'.low = ins.low /\ ins'.index = ins.index /\ ins'.value = ins.value

LEMMA LeavesAreTuples == \A r : LeafHash(r) # Zero
BY DEF LeafHash, Zero

LEMMA ClimbStep ==
  ASSUME IInv, RoomInv, PathInv, UpsertLeaf \/ UpsertParent
  PROVE  Start \in Leaves /\ Start \in Used /\ \E here : Upsert(here)
<1>1. /\ ins \in Insertion /\ DOMAIN nodes = Positions /\ Used \subseteq Leaves
      /\ Climbs /\ OnPath
      /\ ~disturbed => Climbing
      /\ ins.low.index \in Used /\ ins.index \in Used
  BY DEF IInv, TypeOK, UpsertLeaf, UpsertParent, Climbs, PathInv, RoomInv
<1>2. Start \in Leaves /\ Start \in Used
  BY <1>1 DEF Start
<1>3. Height \in Nat /\ Height > 0
  BY HeightIsPositive
<1> DEFINE m == ins.level
           here == <<m, IndexAt(Start)[m]>>
<1>4. Upsert(here)
  <2>1. CASE UpsertLeaf
    <3>1. /\ m = 0 /\ nodes' = [nodes EXCEPT ![<<0, ins.at>>] = LeafToWrite]
          /\ ins' = [ins EXCEPT !.level = 1]
          /\ hash' = LeafToWrite /\ disturbed' = disturbed
      BY <2>1 DEF UpsertLeaf, UpsertNode
    <3>2. ins.at = IndexAt(Start)[0]
      BY <1>1, <3>1 DEF OnPath
    <3>3. here = <<0, ins.at>> /\ here \in Positions
      <4>1. 0 \in 0 .. Height
        BY <1>3
      <4> QED BY <1>2, <3>1, <3>2, <4>1, IndexInLevel, PositionsAre
    <3>4. LeafToWrite # Zero
      BY LeavesAreTuples DEF LeafToWrite
    <3>5. /\ ins'.pc = "climb" /\ ins'.level = m + 1 /\ ins'.at = ins.at
          /\ ins'.leaf = ins.leaf /\ ins'.low = ins.low /\ ins'.index = ins.index /\ ins'.value = ins.value
      BY <1>1, <3>1 DEF Insertion, Climbs
    <3>6. nodes'[here] = LeafToWrite /\ \A p \in Positions : p # here => nodes'[p] = nodes[p]
      <4> HIDE DEF here
      <4> QED BY <1>1, <3>1, <3>3
    <3>7. m \in 0 .. Height /\ NextWrite.hash = LeafToWrite
      BY <1>3, <3>1 DEF NextWrite
    <3> QED BY <1>1, <3>1, <3>2, <3>3, <3>4, <3>5, <3>6, <3>7 DEF Upsert
  <2>2. CASE UpsertParent
    <3>1. /\ m \in 1 .. Height
          /\ nodes' = [nodes EXCEPT ![<<m, ins.at \div 2>>] = ParentToWrite]
          /\ ins' = [ins EXCEPT !.level = @ + 1, !.at = @ \div 2]
          /\ hash' = ParentToWrite /\ disturbed' = disturbed
      BY <2>2 DEF UpsertParent, UpsertNode
    <3>2. ins.at = IndexAt(Start)[m - 1]
      BY <1>1, <3>1 DEF OnPath
    <3> DEFINE k == ins.at \div 2
    <3>3. /\ m \in 0 .. Height /\ m - 1 \in 0 .. Height /\ m # 0
          /\ IndexAt(Start)[m] = k /\ ins.at \in Nat
          /\ k \in Level(m) /\ k \in Nat
          /\ 2 * k \in Level(m - 1) /\ 2 * k + 1 \in Level(m - 1)
      <4>1. m \in 0 .. Height /\ m - 1 \in 0 .. Height /\ m # 0
        BY <1>3, <3>1
      <4>2. IndexAt(Start)[m] = k /\ ins.at \in Nat
        BY <1>2, <3>1, <3>2, <4>1, IndexInLevel, IndexRecursion
      <4>3. k \in Level(m) /\ k \in Nat
        BY <1>2, <4>1, <4>2, IndexInLevel
      <4> QED BY <3>1, <4>1, <4>2, <4>3, LevelAbove
    <3>4. here = <<m, k>> /\ here \in Positions
      BY <3>3, PositionsAre
    <3>5. nodes'[here] = ParentToWrite /\ \A p \in Positions : p # here => nodes'[p] = nodes[p]
      <4> HIDE DEF here
      <4> QED BY <1>1, <3>1, <3>4
    <3>6. /\ <<m - 1, 2 * k>> \in Positions /\ <<m - 1, 2 * k + 1>> \in Positions
          /\ <<m - 1, 2 * k>> # here /\ <<m - 1, 2 * k + 1>> # here
      <4>1. m - 1 # m
        BY <3>1
      <4> QED BY <3>3, <4>1, PositionsAre
    <3>7. ~disturbed => ParentToWrite = <<nodes[<<m - 1, 2 * k>>], nodes[<<m - 1, 2 * k + 1>>]>>
      <4> SUFFICES ASSUME ~disturbed
                   PROVE  ParentToWrite = <<nodes[<<m - 1, 2 * k>>], nodes[<<m - 1, 2 * k + 1>>]>>
        OBVIOUS
      <4>1. ParentToWrite = Parent(nodes[<<m - 1, ins.at>>], ins.at, nodes[<<m - 1, Sibling(ins.at)>>])
        BY <1>1, <3>3 DEF ParentToWrite, NodeHash, Climbing
      <4>2. CASE ins.at % 2 = 1
        <5>1. 2 * k = ins.at - 1 /\ 2 * k + 1 = ins.at
          BY <3>3, <4>2
        <5> HIDE DEF m, k
        <5> QED BY <4>1, <4>2, <5>1 DEF Parent, Sibling, HashInternalNode
      <4>3. CASE ins.at % 2 = 0
        <5>1. 2 * k = ins.at /\ 2 * k + 1 = ins.at + 1
          BY <3>3, <4>3
        <5> HIDE DEF m, k
        <5> QED BY <4>1, <4>3, <5>1 DEF Parent, Sibling, HashInternalNode
      <4> QED BY <3>3, <4>2, <4>3
    <3>8. ~disturbed => Consistent(nodes', m, IndexAt(Start)[m])
      <4> SUFFICES ASSUME ~disturbed PROVE Consistent(nodes', m, IndexAt(Start)[m])
        OBVIOUS
      <4>1. nodes'[here] = <<nodes'[<<m - 1, 2 * k>>], nodes'[<<m - 1, 2 * k + 1>>]>>
        <5> HIDE DEF here, m, k
        <5> QED BY <3>5, <3>6, <3>7
      <4> HIDE DEF m, k
      <4> QED BY <3>3, <3>4, <4>1 DEF Consistent
    <3>9. /\ ins'.pc = "climb" /\ ins'.level = m + 1 /\ ins'.at = k
          /\ ins'.leaf = ins.leaf /\ ins'.low = ins.low /\ ins'.index = ins.index /\ ins'.value = ins.value
      BY <1>1, <3>1 DEF Insertion, Climbs
    <3>10. ins.at \div 2 = IndexAt(Start)[m] /\ NextWrite.hash = ParentToWrite
      BY <1>3, <3>1, <3>3 DEF NextWrite
    <3> HIDE DEF k
    <3> QED BY <1>1, <3>1, <3>3, <3>4, <3>5, <3>8, <3>9, <3>10 DEF Upsert
  <2> QED BY <2>1, <2>2
<1> QED BY <1>2, <1>4

\* What an upsert leaves alone, and where it leaves a node to be repaired.
LEMMA UpsertKeeps ==
  ASSUME NEW here, Upsert(here), ~disturbed, Start \in Leaves
  PROVE  /\ \A l \in 1 .. Height : \A k : k \in Level(l) /\ OK(l, k) => OK(l, k)'
         /\ \A l \in 1 .. Height : \A k : k \in Level(l) /\ l < ins.level =>
              (Consistent(nodes, l, k) => Consistent(nodes', l, k))
         /\ \A p \in Positions : nodes[p] # Zero /\ p[1] = 0 => nodes'[p] # Zero
<1> DEFINE m == ins.level
           j == IndexAt(Start)[m]
<1>1. /\ m \in 0 .. Height /\ m \in Nat /\ here = <<m, j>> /\ j \in Level(m) /\ j \in Nat
      /\ \A p \in Positions : p # here => nodes'[p] = nodes[p]
      /\ ins.level # 0 => Consistent(nodes', m, j)
      /\ ins'.pc = "climb" /\ ins'.level = m + 1 /\ ins'.at = j
  BY IndexInLevel DEF Upsert
<1>2. ASSUME NEW l \in 1 .. Height, NEW k \in Level(l)
      PROVE  /\ l # m /\ ~(l = m + 1 /\ k = j \div 2) =>
                  (Consistent(nodes, l, k) => Consistent(nodes', l, k))
             /\ l = m /\ k # j => (Consistent(nodes, l, k) => Consistent(nodes', l, k))
  <2>1. /\ l \in 0 .. Height /\ l - 1 \in 0 .. Height /\ k \in Nat /\ l \in Nat /\ l - 1 # l
        /\ 2 * k \in Level(l - 1) /\ 2 * k + 1 \in Level(l - 1)
    BY HeightIsPositive, LevelAbove DEF Level
  <2>2. <<l, k>> \in Positions /\ <<l - 1, 2 * k>> \in Positions /\ <<l - 1, 2 * k + 1>> \in Positions
    BY <2>1, PositionsAre
  <2>3. CASE l # m /\ ~(l = m + 1 /\ k = j \div 2)
    <3>1. <<l, k>> # here
      BY <1>1, <2>3
    <3>2. <<l - 1, 2 * k>> # here /\ <<l - 1, 2 * k + 1>> # here
      <4>1. CASE l - 1 # m
        BY <1>1, <4>1
      <4>2. CASE l - 1 = m
        <5>1. k # j \div 2
          BY <1>1, <2>1, <2>3, <4>2
        <5>2. 2 * k # j /\ 2 * k + 1 # j
          <6> HIDE DEF j
          <6> QED BY <1>1, <2>1, <5>1
        <5> QED BY <1>1, <5>2
      <4> QED BY <4>1, <4>2
    <3> QED BY <1>1, <2>2, <3>1, <3>2, <2>3 DEF Consistent
  <2>4. CASE l = m /\ k # j
    <3>1. <<l, k>> # here
      BY <1>1, <2>4
    <3>2. <<l - 1, 2 * k>> # here /\ <<l - 1, 2 * k + 1>> # here
      <4>1. l - 1 # m
        BY <2>1, <2>4
      <4> QED BY <1>1, <4>1
    <3> QED BY <1>1, <2>2, <3>1, <3>2, <2>4 DEF Consistent
  <2> QED BY <2>3, <2>4
<1> HIDE DEF m, j
<1>3. ASSUME NEW l \in 1 .. Height, NEW k \in Level(l), OK(l, k) PROVE OK(l, k)'
  <2>1. CASE l = m /\ k = j
    <3>1. Consistent(nodes', l, k)
      BY <1>1, <2>1 DEF m
    <3> QED BY <3>1 DEF OK, Consistent
  <2>2. CASE l = m /\ k # j
    <3>1. ins.at \div 2 = j
      BY <2>2 DEF Upsert, m, j
    <3>2. ~Pending(l, k)
      BY <2>2, <3>1 DEF Pending
    <3>3. Consistent(nodes', l, k)
      BY <1>2, <1>3, <2>2, <3>2 DEF OK
    <3> QED BY <3>3 DEF OK, Consistent
  <2>3. CASE l = m + 1 /\ k = j \div 2
    BY <1>1, <2>3 DEF OK, Pending, Climbs
  <2>4. CASE l # m /\ ~(l = m + 1 /\ k = j \div 2)
    <3>1. ~Pending(l, k)
      BY <2>4 DEF Pending, m
    <3>2. Consistent(nodes', l, k)
      BY <1>2, <1>3, <2>4, <3>1 DEF OK
    <3> QED BY <3>2 DEF OK, Consistent
  <2> QED BY <2>1, <2>2, <2>3, <2>4
<1>4. ASSUME NEW l \in 1 .. Height, NEW k \in Level(l), l < ins.level, Consistent(nodes, l, k)
      PROVE  Consistent(nodes', l, k)
  <2>1. l # m /\ l # m + 1
    BY <1>1, <1>4 DEF m
  <2> QED BY <1>2, <1>4, <2>1
<1>5. ASSUME NEW p \in Positions, nodes[p] # Zero, p[1] = 0 PROVE nodes'[p] # Zero
  <2>1. CASE p = here
    <3>1. ins.level = 0
      BY <1>1, <1>5, <2>1 DEF m
    <3> QED BY <2>1, <3>1 DEF Upsert
  <2> QED BY <1>1, <1>5, <2>1
<1> QED BY <1>3, <1>4, <1>5

\* No row loses its leaf.
LEMMA UsedGrows ==
  ASSUME IInv, [Next]_vars
  PROVE  Used \subseteq Used'
<1>1. rows \subseteq Row /\ ins \in Insertion /\ rows # {}
  BY DEF IInv, TypeOK, ZeroIsMember, Members
<1>2. ASSUME NEW t, NEW index, NEW s \in rows
      PROVE  [s EXCEPT !.next = t.value, !.nextIndex = index].index = s.index
  BY <1>1 DEF Row
<1>3. ASSUME NEW t, rows' = RowsAfter(t) PROVE Used \subseteq Used'
  <2>1. ASSUME NEW s \in rows PROVE \E r \in rows' : r.index = s.index
    <3> DEFINE u == IF s.value = t.low.value
                      THEN [s EXCEPT !.next = t.value, !.nextIndex = t.index] ELSE s
    <3>1. u.index = s.index
      BY <1>2
    <3>2. CASE IsEmptyTree(t.low)
      BY <1>3, <3>2 DEF RowsAfter, UpdateLow
    <3>3. CASE ~IsEmptyTree(t.low)
      <4>1. u \in rows'
        BY <1>3, <3>3 DEF RowsAfter, UpdateLow
      <4> HIDE DEF u
      <4> QED BY <3>1, <4>1
    <3> QED BY <3>2, <3>3
  <2> QED BY <2>1 DEF Used
<1>4. ASSUME NEW t, rows' = Spliced(t, nextIndex) PROVE Used \subseteq Used'
  <2>1. ASSUME NEW s \in rows PROVE \E r \in rows' : r.index = s.index
    <3> DEFINE u == IF s.value = t.low.value
                      THEN [s EXCEPT !.next = t.value, !.nextIndex = nextIndex] ELSE s
    <3>1. u.index = s.index
      BY <1>2
    <3>2. u \in rows'
      BY <1>4 DEF Spliced
    <3> HIDE DEF u
    <3> QED BY <3>1, <3>2
  <2> QED BY <2>1 DEF Used
<1>5. CASE rows' = rows
  BY <1>5 DEF Used
<1>6. CASE InsertRow
  BY <1>3, <1>6 DEF InsertRow, RowsAfter
<1>7. ASSUME NEW c \in Callers, AtomicInsert(c) PROVE Used \subseteq Used'
  BY <1>4, <1>5, <1>7 DEF AtomicInsert
<1>8. CASE LateCommit
  BY <1>3, <1>8 DEF LateCommit, RowsAfter
<1>9. ASSUME NEW c \in Callers, NEW v \in Values, AtomicBegin(c, v) PROVE rows' = rows
  BY <1>9 DEF AtomicBegin
<1>10. ASSUME NEW v \in Values, Begin(v) PROVE rows' = rows
  BY <1>10 DEF Begin
<1>11. CASE UNCHANGED vars
  BY <1>5, <1>11 DEF vars
<1> QED BY <1>5, <1>6, <1>7, <1>8, <1>9, <1>10, <1>11
        DEF Next, Insert, InsertComplete, FindLowNullifier, OutOfRange, GetNextIndex,
            InsertConflicts, UpsertLeaf, UpsertParent, UpdateRoot, Return, Abandon, LateTake,
            LateWrite, Restart, FixTreeState

\* Every index of a row is one of a leaf, as long as there is room.
LEMMA RoomStep ==
  ASSUME IInv, HasRoom', RoomInv, [Next]_vars
  PROVE  RoomInv'
<1>1. /\ TypeOK /\ rows \subseteq Row /\ ins \in Insertion /\ nextIndex \in Nat /\ RoomInv
      /\ \A t \in late : t.value \in Values /\ t.low \in Row /\ t.index \in Nat
      /\ \A c \in Callers : calls[c].low \in Row
      /\ RunningHasValue
  BY DEF IInv, TypeOK, Call
<1>2. nextIndex + 1 <= TwoTo[Height] => nextIndex \in Leaves
  <2>1. TwoTo[Height] \in Nat
    BY TwoToType, HeightIsPositive
  <2> QED BY <1>1, <2>1 DEF Leaves
<1>3. ASSUME NEW t, rows' = RowsAfter(t), t.index \in Leaves,
             t.value \in Values, t.low \in Row, t.index \in Nat
      PROVE  Used' \subseteq Leaves
  <2>1. NewRow(t).index = t.index
    BY DEF NewRow
  <2>3. \A r \in RowsAfter(t) : r # NewRow(t) => \E s \in rows : r.index = s.index
    <3>1. TypeOK
      BY <1>1
    <3>2. t.value \in Values /\ t.low \in Row /\ t.index \in Nat
      BY <1>3
    <3>3. \A r \in RowsAfter(t) : r # NewRow(t) => \E s \in rows :
            /\ r.value = s.value /\ r.index = s.index
            /\ \/ r = s
               \/ s.value = t.low.value /\ r = [s EXCEPT !.next = t.value, !.nextIndex = t.index]
      BY <3>1, <3>2, RowsAfterShape, Zenon
    <3> QED BY <3>3, Zenon
  <2>4. \A s \in rows : s.index \in Leaves
    BY <1>1 DEF RoomInv, Used
  <2>5. rows' = RowsAfter(t) /\ t.index \in Leaves
    BY <1>3
  <2>2. ASSUME NEW r \in rows' PROVE r.index \in Leaves
    <3>1. CASE r = NewRow(t)
      BY <2>1, <2>5, <3>1
    <3>2. CASE r # NewRow(t)
      <4>1. PICK s \in rows : r.index = s.index
        BY <2>3, <2>5, <3>2
      <4> QED BY <2>4, <4>1
    <3> QED BY <3>1, <3>2
  <2> QED BY <2>2 DEF Used
<1> USE DEF locals, stale
<1>4. ASSUME UNCHANGED <<rows, late>>, ins'.pc = "insert" => ins' = ins PROVE RoomInv'
  BY <1>4 DEF RoomInv, Used
<1>5. CASE GetNextIndex
  <2>1. /\ rows' = rows /\ late' = late /\ ins'.index = nextIndex /\ nextIndex' = nextIndex + 1
    BY <1>1, <1>5 DEF GetNextIndex, TakeIndex, Insertion
  <2>2. nextIndex \in Leaves
    BY <1>2, <2>1 DEF HasRoom
  <2> QED BY <2>1, <2>2 DEF RoomInv, Used
<1>6. CASE InsertRow
  <2>1. /\ rows' = RowsAfter(ins) /\ late' = late /\ ins'.pc = "climb" /\ ins.index \in Leaves
        /\ ins.value \in Values /\ ins.low \in Row /\ ins.index \in Nat
    BY <1>1, <1>6 DEF InsertRow, RowsAfter, Insertion, RoomInv, RunningHasValue
  <2>2. Used' \subseteq Leaves
    BY <1>3, <2>1
  <2> QED BY <2>1, <2>2 DEF RoomInv
<1>7. CASE LateCommit
  <2>1. PICK t \in late : rows' = RowsAfter(t)
    BY <1>7 DEF LateCommit, RowsAfter
  <2>2. late' = {} /\ ins' = ins
    BY <1>7 DEF LateCommit
  <2>3. Used' \subseteq Leaves
    BY <1>1, <1>3, <2>1 DEF RoomInv
  <2> QED BY <2>2, <2>3 DEF RoomInv
<1>8. CASE Abandon
  <2>1. rows' = rows /\ late' \subseteq late \cup InFlight /\ ins'.pc = "idle"
    BY <1>8 DEF Abandon, End, Idle
  <2>2. \A t \in InFlight : t.index \in Leaves
    BY DEF InFlight, RoomInv
  <2> QED BY <2>1, <2>2 DEF RoomInv, Used
<1>9. ASSUME NEW c \in Callers, AtomicInsert(c) PROVE RoomInv'
  <2>1. /\ late' = late /\ ins' = ins /\ nextIndex' = nextIndex + 1
        /\ rows' = rows \/ rows' = Spliced(calls[c], nextIndex)
    BY <1>9 DEF AtomicInsert, TakeIndex
  <2>2. nextIndex \in Leaves
    BY <1>2, <2>1 DEF HasRoom
  <2>3. ASSUME NEW r \in Spliced(calls[c], nextIndex) PROVE r.index \in Leaves
    <3> DEFINE upd(s) == IF s.value = calls[c].low.value
                           THEN [s EXCEPT !.next = calls[c].value, !.nextIndex = nextIndex] ELSE s
    <3>1. ASSUME NEW s \in rows PROVE upd(s).index \in Leaves
      <4>1. upd(s).index = s.index
        BY <1>1 DEF Row
      <4> HIDE DEF upd
      <4> QED BY <4>1 DEF RoomInv, Used
    <3> DEFINE added == [value |-> calls[c].value, next |-> calls[c].low.next,
                         nextIndex |-> calls[c].low.nextIndex, index |-> nextIndex]
    <3>2. added.index = nextIndex
      OBVIOUS
    <3>3. r \in {upd(s) : s \in rows} \cup {added}
      BY DEF Spliced
    <3> HIDE DEF upd, added
    <3> QED BY <2>2, <3>1, <3>2, <3>3
  <2>4. Used' \subseteq Leaves
    BY <2>1, <2>3 DEF RoomInv, Used
  <2> QED BY <2>1, <2>4 DEF RoomInv
<1>10. CASE FindLowNullifier \/ UpsertLeaf \/ UpsertParent \/ UpdateRoot
  <2>1. UNCHANGED <<rows, late>> /\ ins'.pc # "insert"
    BY <1>1, <1>10 DEF FindLowNullifier, UpsertLeaf, UpsertParent, UpdateRoot, Insertion
  <2> QED BY <1>4, <2>1
<1>11. CASE OutOfRange \/ InsertConflicts \/ Return
  BY <1>4, <1>11 DEF OutOfRange, InsertConflicts, Return, End, Idle
<1>12. ASSUME NEW v \in Values, Begin(v) PROVE RoomInv'
  BY <1>4, <1>12 DEF Begin, Idle
<1>13. ASSUME NEW c \in Callers, NEW v \in Values, AtomicBegin(c, v) PROVE RoomInv'
  BY <1>4, <1>13 DEF AtomicBegin
<1>14. CASE UNCHANGED vars \/ Restart \/ FixTreeState \/ LateTake \/ LateWrite
  BY <1>4, <1>14 DEF vars, Restart, FixTreeState, LateTake, LateWrite
<1> QED BY <1>5, <1>6, <1>7, <1>8, <1>9, <1>10, <1>11, <1>12, <1>13, <1>14
        DEF Next, Insert, InsertComplete

-----------------------------------------------------------------------------

LEMMA SettledStays ==
  ASSUME NEW here, Upsert(here), ~disturbed, Start \in Leaves, NEW i \in Leaves, Settled(i)
  PROVE  Settled(i)'
<1>1. \A l \in 1 .. Height : l \in 0 .. Height
  OBVIOUS
<1>2. ASSUME NEW l \in 1 .. Height PROVE OK(l, IndexAt(i)[l])'
  <2>1. IndexAt(i)[l] \in Level(l)
    BY <1>1, IndexInLevel
  <2>2. OK(l, IndexAt(i)[l])
    BY DEF Settled
  <2> QED BY <2>1, <2>2, UpsertKeeps
<1>3. <<0, i>> \in Positions
  <2>1. 0 \in 0 .. Height /\ i \in Level(0)
    BY HeightIsPositive, TopLevel
  <2> QED BY <2>1, PositionsAre
<1>4. nodes'[<<0, i>>] # Zero
  BY <1>3, UpsertKeeps DEF Settled
<1> QED BY <1>2, <1>4 DEF Settled

\* Without a climb, or at its end, no node is pending.
LEMMA SettledPath ==
  ASSUME NEW i, ins.pc # "climb" \/ ins.level = Height + 1
  PROVE  Settled(i) <=> /\ nodes[<<0, i>>] # Zero
                        /\ \A l \in 1 .. Height : Consistent(nodes, l, IndexAt(i)[l])
<1>1. ASSUME NEW l \in 1 .. Height, NEW k PROVE ~Pending(l, k)
  BY HeightIsPositive DEF Pending, Climbs
<1> QED BY <1>1 DEF Settled, OK

LEMMA PathFrame ==
  ASSUME PathInv, UNCHANGED locals, nodes' = nodes, root' = root, Used \subseteq Used'
  PROVE  PathInv'
<1>0. ins' = ins /\ hash' = hash /\ disturbed' = disturbed
  BY DEF locals
<1>1. /\ Climbs' = Climbs /\ Start' = Start /\ \A i : Settled(i)' = Settled(i)
      /\ OnPath' = OnPath
  BY <1>0 DEF Climbs, Start, Settled, OK, Pending, Consistent, OnPath
<1>2. Climbing' = Climbing
  BY <1>0, <1>1 DEF Climbing, Consistent
<1> QED BY <1>0, <1>1, <1>2 DEF PathInv

LEMMA PathUpsert ==
  ASSUME IInv, RoomInv, PathInv, UpsertLeaf \/ UpsertParent
  PROVE  PathInv'
<1>1. PICK here : Upsert(here)
  BY ClimbStep
<1>2. Start \in Leaves /\ Used \subseteq Leaves
  BY ClimbStep DEF RoomInv
<1> DEFINE m == ins.level
<1>3. /\ Climbs /\ m \in 0 .. Height /\ here = <<m, IndexAt(Start)[m]>> /\ here \in Positions
      /\ nodes'[here] = hash' /\ disturbed' = disturbed
      /\ m = 0 => nodes'[here] = LeafToWrite /\ LeafToWrite # Zero
      /\ m # 0 /\ ~disturbed => Consistent(nodes', m, IndexAt(Start)[m])
      /\ ins'.pc = "climb" /\ ins'.level = m + 1 /\ ins'.at = IndexAt(Start)[m]
      /\ ins'.leaf = ins.leaf /\ ins'.low = ins.low /\ ins'.index = ins.index
  BY <1>1 DEF Upsert
<1>4. /\ ~disturbed => Climbing
      /\ ins.low.index \in Used /\ ins.index \in Used /\ Used' = Used
      /\ Start' = Start /\ Climbs'
  BY <1>3 DEF PathInv, Climbs, Used, Start, UpsertLeaf, UpsertParent
<1>5. ins'.level # 0 /\ ins'.level - 1 = m
  BY <1>3, HeightIsPositive
<1>6. OnPath'
  BY <1>3, <1>4, <1>5 DEF OnPath
<1>7. ASSUME ~disturbed PROVE nodes'[<<0, Start>>] # Zero
  <2>1. IndexAt(Start)[0] = Start
    BY <1>2, IndexInLevel, IndexRecursion
  <2>2. CASE m = 0
    BY <1>3, <2>1, <2>2
  <2>3. CASE m # 0
    <3>1. <<0, Start>> \in Positions
      <4>1. 0 \in 0 .. Height /\ Start \in Level(0)
        BY <1>2, HeightIsPositive, TopLevel
      <4> QED BY <4>1, PositionsAre
    <3>2. nodes[<<0, Start>>] # Zero
      BY <1>4, <1>7, <2>3 DEF Climbing
    <3> QED BY <1>1, <1>2, <1>7, <3>1, <3>2, UpsertKeeps
  <2> QED BY <2>2, <2>3
<1>8. ASSUME ~disturbed, NEW l \in 1 .. Height, l < ins'.level
      PROVE  Consistent(nodes', l, IndexAt(Start)[l])
  <2>1. l \in 0 .. Height /\ l \in Nat /\ m \in Nat /\ (l = m \/ l < m)
    BY <1>3, <1>8, HeightIsPositive
  <2>2. CASE l = m
    <3>1. m # 0
      BY <2>2
    <3> QED BY <1>3, <1>8, <2>2, <3>1
  <2>3. CASE l < m
    <3>1. Consistent(nodes, l, IndexAt(Start)[l])
      BY <1>4, <1>8, <2>3 DEF Climbing
    <3>2. IndexAt(Start)[l] \in Level(l)
      BY <1>2, <2>1, IndexInLevel
    <3> QED BY <1>1, <1>2, <1>8, <2>3, <3>1, <3>2, UpsertKeeps
  <2> QED BY <2>1, <2>2, <2>3
<1>9. ASSUME ~disturbed, ins.leaf = "new" PROVE Settled(ins.low.index)'
  <2>1. Settled(ins.low.index) /\ ins.low.index \in Leaves
    BY <1>2, <1>4, <1>9 DEF Climbing
  <2>2. ASSUME NEW i \in Leaves, Settled(i) PROVE Settled(i)'
    BY <1>1, <1>2, <1>9, <2>2, SettledStays
  <2>3. ASSUME NEW i, i = ins.low.index, Settled(i)' PROVE Settled(ins.low.index)'
    <3>1. ins'.low.index = i
      BY <1>3, <2>3
    <3> QED BY <2>3, <3>1
  <2> QED BY <2>1, <2>2, <2>3
<1> HIDE DEF m
<1>10. ASSUME ~disturbed PROVE Climbing'
  <2>1. ins'.leaf = "new" => Settled(ins.low.index)'
    BY <1>3, <1>9, <1>10
  <2>2. nodes'[<<0, Start>>] # Zero /\ hash' = nodes'[<<ins'.level - 1, ins'.at>>]
    BY <1>3, <1>5, <1>7, <1>10
  <2>3. \A l \in 1 .. Height : l < ins'.level => Consistent(nodes', l, IndexAt(Start)[l])
    BY <1>8, <1>10
  <2> QED BY <1>4, <2>1, <2>2, <2>3 DEF Climbing
<1> QED BY <1>3, <1>4, <1>6, <1>10 DEF PathInv

LEMMA PathUpdateRoot ==
  ASSUME IInv, RoomInv, PathInv, UpdateRoot
  PROVE  PathInv' /\ (~disturbed => root' = nodes[<<Height, 0>>])
<1>1. /\ ins.pc = "climb" /\ ins.level = Height + 1 /\ Climbs /\ OnPath
      /\ ~disturbed => Climbing
      /\ ins.low.index \in Used /\ ins.index \in Used /\ ins \in Insertion /\ Used \subseteq Leaves
      /\ root' = hash /\ nodes' = nodes /\ Used' = Used /\ disturbed' = disturbed
  BY DEF UpdateRoot, SetRoot, Climbs, PathInv, RoomInv, IInv, TypeOK, Used
<1>2. Start \in Leaves /\ ins.index \in Leaves
  BY <1>1 DEF Start
<1>3. ins.level # 0 /\ ins.level - 1 = Height /\ \A l \in 1 .. Height : l < ins.level
  BY <1>1, HeightIsPositive
<1>4. ins.at = 0
  <2>1. ins.at = IndexAt(Start)[Height]
    BY <1>1, <1>3 DEF OnPath
  <2> QED BY <1>2, <2>1, IndexInLevel
<1>5. ~disturbed =>
        /\ root' = nodes[<<Height, 0>>] /\ nodes[<<0, Start>>] # Zero
        /\ \A l \in 1 .. Height : Consistent(nodes, l, IndexAt(Start)[l])
  BY <1>1, <1>3, <1>4 DEF Climbing
<1>6. CASE ins.leaf = "low"
  <2>1. /\ ins'.pc = "climb" /\ ins'.leaf = "new" /\ ins'.level = 0 /\ ins'.at = ins.index
        /\ ins'.low = ins.low /\ ins'.index = ins.index
    BY <1>1, <1>6 DEF UpdateRoot, Insertion
  <2>2. Start = ins.low.index /\ Start' = ins.index /\ Climbs'
    BY <1>6, <2>1 DEF Start, Climbs
  <2>3. IndexAt(ins.index)[0] = ins.index
    BY <1>2, IndexInLevel, IndexRecursion
  <2>4. OnPath'
    BY <2>1, <2>2, <2>3 DEF OnPath
  <2>5. ~disturbed => Settled(ins.low.index)'
    <3>1. ~disturbed => \A l \in 1 .. Height : Consistent(nodes, l, IndexAt(ins.low.index)[l])
      BY <1>5, <2>2
    <3> QED BY <1>1, <1>5, <2>1, <2>2, <3>1 DEF Settled, OK, Consistent
  <2>6. \A l \in 1 .. Height : ~(l < 0)
    BY HeightIsPositive
  <2>7. ~disturbed => Climbing'
    BY <2>1, <2>2, <2>5, <2>6 DEF Climbing
  <2> QED BY <1>1, <1>5, <2>1, <2>2, <2>4, <2>7 DEF PathInv
<1>7. CASE ins.leaf = "new"
  <2>1. ins'.pc = "prove" /\ ins'.low = ins.low /\ ins'.index = ins.index
    BY <1>1, <1>7 DEF UpdateRoot, Insertion
  <2>2. Start = ins.index /\ ~Climbs'
    BY <1>7, <2>1 DEF Start, Climbs
  <2>3. ~disturbed => Settled(ins.index)'
    <3>1. ~disturbed => \A l \in 1 .. Height : Consistent(nodes, l, IndexAt(ins.index)[l])
      BY <1>5, <2>2
    <3> QED BY <1>1, <1>5, <2>1, <2>2, <3>1 DEF Settled, OK, Consistent
  <2>4. ~disturbed => Settled(ins.low.index)'
    <3>1. ~disturbed => Settled(ins.low.index)
      BY <1>1, <1>7 DEF Climbing
    <3>2. ~disturbed =>
            /\ nodes[<<0, ins.low.index>>] # Zero
            /\ \A l \in 1 .. Height : Consistent(nodes, l, IndexAt(ins.low.index)[l])
      BY <1>1, <3>1, SettledPath
    <3> QED BY <1>1, <2>1, <3>2 DEF Settled, OK, Consistent
  <2> QED BY <1>1, <1>5, <2>1, <2>2, <2>3, <2>4 DEF PathInv
<1> QED BY <1>1, <1>5, <1>6, <1>7 DEF Insertion

LEMMA PathInvStep ==
  ASSUME IInv, RoomInv, PathInv, [Next]_vars
  PROVE  PathInv'
<1>1. /\ Used \subseteq Leaves /\ Used \subseteq Used' /\ ins \in Insertion
      /\ rows # {} /\ TypeOK
  BY UsedGrows DEF RoomInv, IInv, TypeOK, ZeroIsMember, Members
<1> USE DEF stale
<1>2. ASSUME ins'.pc \in {"idle", "find"} PROVE PathInv'
  BY <1>2 DEF PathInv, Climbs
<1>3. CASE FindLowNullifier
  <2>1. ins'.pc = "index" /\ ins'.low = FindLow(ins.value) /\ Used' = Used
    BY <1>1, <1>3 DEF FindLowNullifier, Insertion, Used
  <2>2. ins'.low.index \in Used'
    BY <1>1, <2>1, LowIsRow DEF Used
  <2> QED BY <2>1, <2>2 DEF PathInv, Climbs
<1>4. CASE GetNextIndex
  <2>1. ins.pc = "index" /\ ins'.pc = "insert" /\ ins'.low = ins.low /\ Used' = Used
    BY <1>1, <1>4 DEF GetNextIndex, Insertion, Used
  <2> QED BY <2>1 DEF PathInv, Climbs
<1>5. CASE InsertRow
  <2>1. /\ ins.pc = "insert" /\ rows' = RowsAfter(ins)
        /\ ins'.pc = "climb" /\ ins'.leaf = "low" /\ ins'.level = 0 /\ ins'.at = ins.low.index
        /\ ins'.low = ins.low /\ ins'.index = ins.index
    BY <1>1, <1>5 DEF InsertRow, RowsAfter, Insertion
  <2>2. ins.low.index \in Used /\ ins.low.index \in Leaves /\ ins.low.index \in Used'
    BY <1>1, <2>1 DEF PathInv
  <2>3. ins.index \in Used'
    <3>1. NewRow(ins) \in rows' /\ NewRow(ins).index = ins.index
      BY <2>1 DEF RowsAfter, NewRow
    <3> QED BY <3>1 DEF Used
  <2>4. IndexAt(ins.low.index)[0] = ins.low.index
    BY <2>2, IndexInLevel, IndexRecursion
  <2>5. Start' = ins.low.index /\ Climbs' /\ \A l \in 1 .. Height : ~(l < 0)
    BY <2>1, HeightIsPositive DEF Start, Climbs
  <2>6. Climbing' /\ OnPath'
    BY <2>1, <2>4, <2>5 DEF Climbing, OnPath
  <2> QED BY <2>1, <2>2, <2>3, <2>5, <2>6 DEF PathInv
<1>6. CASE UpsertLeaf \/ UpsertParent
  BY <1>6, PathUpsert
<1>7. CASE UpdateRoot
  BY <1>7, PathUpdateRoot
<1>8. ASSUME NEW c \in Callers, AtomicInsert(c) PROVE PathInv'
  BY <1>1, <1>8, PathFrame DEF AtomicInsert
<1>9. CASE LateCommit
  BY <1>1, <1>9, PathFrame DEF LateCommit
<1>10. ASSUME NEW c \in Callers, NEW v \in Values, AtomicBegin(c, v) PROVE PathInv'
  BY <1>1, <1>10, PathFrame DEF AtomicBegin
<1>11. ASSUME NEW v \in Values, Begin(v) PROVE PathInv'
  BY <1>2, <1>11 DEF Begin, Idle
<1>12. CASE UNCHANGED vars \/ Restart \/ FixTreeState \/ LateTake
  BY <1>1, <1>12, PathFrame DEF vars, Restart, FixTreeState, LateTake
<1>13. CASE OutOfRange \/ InsertConflicts \/ Return \/ Abandon
  BY <1>2, <1>13 DEF OutOfRange, InsertConflicts, Return, Abandon, End, Idle
<1>14. CASE LateWrite
  <2>1. ins' = ins /\ Used' = Used /\ (ins.pc \in {"climb", "prove"} => disturbed')
    BY <1>14 DEF LateWrite, Used
  <2>2. Climbs' = Climbs /\ OnPath' = OnPath
    BY <2>1 DEF Climbs, OnPath, Start
  <2>3. ~(Climbs' /\ ~disturbed') /\ ~(ins'.pc = "prove" /\ ~disturbed')
    BY <2>1, <2>2 DEF Climbs
  <2> QED BY <2>1, <2>2, <2>3 DEF PathInv
<1> QED BY <1>3, <1>4, <1>5, <1>6, <1>7, <1>8, <1>9, <1>10, <1>11, <1>12, <1>13, <1>14
        DEF Next, Insert, InsertComplete

-----------------------------------------------------------------------------
(***************************************************************************)
(* No hash, stored, carried up or on its way, shows a leaf that no row has *)
(* got: this is why the root after an insertion, which shows the new leaf, *)
(* is not the root before it.  Late writes may spoil the paths of the tree *)
(* but cannot show a leaf before its time either.                          *)
(***************************************************************************)

UnseenWrite(w, i) ==
  /\ w.level \in 0 .. Height /\ w.at = IndexAt(i)[w.level] => ~Shows(w.hash, w.level, i)
  /\ w.level = Height + 1 => ~Shows(w.hash, Height, i)

\* The hash that a climb carries from the level below
UnseenHash(i) ==
  Climbs /\ ins.level # 0 /\ ins.at = IndexAt(i)[ins.level - 1] => ~Shows(hash, ins.level - 1, i)

Unseen(i) ==
  /\ \A l \in 0 .. Height : ~Shows(Path(nodes, i, l), l, i)
  /\ ~Shows(root, Height, i)
  /\ ~Shows(oldRoot, Height, i)
  /\ \A w \in lateWrites : UnseenWrite(w, i)
  /\ UnseenHash(i)

UnseenInv ==
  /\ \A i \in Leaves \ Used : Unseen(i)
  /\ ins.pc \in {"climb", "prove"} => ~Shows(oldRoot, Height, ins.index)

LEMMA UnseenInit ==
  ASSUME Init
  PROVE  UnseenInv
<1>1. \A l \in 0 .. Height : l \in Nat
  OBVIOUS
<1>2. Height \in 0 .. Height
  BY HeightIsPositive
<1>3. ASSUME NEW i \in Leaves, NEW l \in 0 .. Height PROVE ~Shows(Path(nodes, i, l), l, i)
  <2>1. <<l, IndexAt(i)[l]>> \in Positions
    BY IndexInLevel, PositionsAre
  <2>2. Path(nodes, i, l) = Zero
    BY <2>1 DEF Init, Path
  <2> QED BY <1>1, <2>2, ZeroShowsNothing
<1>4. \A i : ~Shows(root, Height, i) /\ ~Shows(oldRoot, Height, i)
  BY <1>1, <1>2, ZeroShowsNothing DEF Init
<1>5. ins.pc = "idle" /\ lateWrites = {}
  BY DEF Init, Idle
<1> QED BY <1>3, <1>4, <1>5 DEF UnseenInv, Unseen, UnseenHash, Climbs

\* The next write of a climb, disturbed or not, shows no such leaf: what it
\* hashes is what it carries, and a node that is stored.
LEMMA NextWriteIsUnseen ==
  ASSUME IInv, RoomInv, PathInv, UnseenInv, Climbs, NEW i \in Leaves \ Used
  PROVE  UnseenWrite(NextWrite, i)
<1>1. /\ ins \in Insertion /\ OnPath /\ Unseen(i) /\ ins.level \in 0 .. Height + 1
      /\ Start \in Used /\ Start \in Leaves
  BY DEF IInv, TypeOK, Insertion, PathInv, UnseenInv, RoomInv, Climbs, Start
<1>2. Height \in Nat /\ Height > 0 /\ Height \in 0 .. Height
  BY HeightIsPositive
<1>3. CASE ins.level = 0
  <2>1. NextWrite.level = 0 /\ NextWrite.at = ins.at
    BY <1>3 DEF NextWrite
  <2>2. ins.at = Start /\ IndexAt(i)[0] = i
    BY <1>1, <1>3, IndexInLevel, IndexRecursion DEF OnPath
  <2>3. i # Start
    BY <1>1
  <2> QED BY <1>2, <2>1, <2>2, <2>3 DEF UnseenWrite
<1>4. CASE ins.level \in 1 .. Height
  <2> DEFINE l == ins.level
             j == ins.at
             k == IndexAt(i)[l - 1]
  <2>1. NextWrite = [level |-> l, at |-> j \div 2, hash |-> ParentToWrite]
    BY <1>2, <1>4 DEF NextWrite
  <2>2. /\ l \in Nat \ {0} /\ l - 1 \in 0 .. Height /\ l # 0 /\ l # Height + 1
    BY <1>2, <1>4
  <2>3. j = IndexAt(Start)[l - 1] /\ j \in Nat /\ k \in Nat /\ IndexAt(i)[l] = k \div 2
    <3>1. j = IndexAt(Start)[l - 1]
      BY <1>1, <2>2 DEF OnPath
    <3> QED BY <1>1, <1>4, <2>2, <3>1, IndexInLevel, IndexRecursion
  <2> SUFFICES ASSUME j \div 2 = k \div 2, Shows(ParentToWrite, l, i) PROVE FALSE
    BY <2>1, <2>2, <2>3 DEF UnseenWrite
  <2>4. Shows(ParentToWrite[Side(i, l)], l - 1, i)
    BY <2>2, ShowsDown
  <2>5. ParentToWrite = Parent(hash, j, nodes[<<l - 1, Sibling(j)>>]) /\ Side(i, l) = 1 + (k % 2)
    BY DEF ParentToWrite, NodeHash, Side
  <2>6. CASE k = j
    <3>1. ~Shows(hash, l - 1, i)
      BY <1>1, <2>2, <2>6 DEF Unseen, UnseenHash
    <3>2. ParentToWrite[Side(i, l)] = hash
      <4> HIDE DEF l, j, k
      <4>1. CASE j % 2 = 1
        <5>1. ParentToWrite = <<nodes[<<l - 1, Sibling(j)>>], hash>> /\ Side(i, l) = 2
          BY <2>5, <2>6, <4>1 DEF Parent, HashInternalNode
        <5> QED BY <5>1
      <4>2. CASE j % 2 = 0
        <5>1. ParentToWrite = <<hash, nodes[<<l - 1, Sibling(j)>>]>> /\ Side(i, l) = 1
          BY <2>5, <2>6, <4>2 DEF Parent, HashInternalNode
        <5> QED BY <5>1
      <4> QED BY <2>3, <4>1, <4>2
    <3> QED BY <2>4, <3>1, <3>2
  <2>7. CASE k # j
    <3>1. ~Shows(nodes[<<l - 1, k>>], l - 1, i)
      BY <1>1, <2>2 DEF Unseen, Path
    <3>2. k = Sibling(j) /\ ParentToWrite[Side(i, l)] = nodes[<<l - 1, Sibling(j)>>]
      <4> HIDE DEF l, j, k
      <4>1. CASE j % 2 = 1
        <5>1. k = j - 1 /\ k % 2 = 0
          BY <2>3, <2>7, <4>1
        <5>2. /\ ParentToWrite = <<nodes[<<l - 1, Sibling(j)>>], hash>> /\ Side(i, l) = 1
              /\ k = Sibling(j)
          BY <2>5, <4>1, <5>1 DEF Parent, HashInternalNode, Sibling
        <5> QED BY <5>2
      <4>2. CASE j % 2 = 0
        <5>1. k = j + 1 /\ k % 2 = 1
          BY <2>3, <2>7, <4>2
        <5>2. /\ ParentToWrite = <<hash, nodes[<<l - 1, Sibling(j)>>]>> /\ Side(i, l) = 2
              /\ k = Sibling(j)
          BY <2>5, <4>2, <5>1 DEF Parent, HashInternalNode, Sibling
        <5> QED BY <5>2
      <4> QED BY <2>3, <4>1, <4>2
    <3> QED BY <2>4, <3>1, <3>2
  <2> QED BY <2>6, <2>7
<1>5. CASE ins.level = Height + 1
  <2>1. NextWrite.level = Height + 1 /\ NextWrite.hash = hash
    BY <1>2, <1>5 DEF NextWrite
  <2>2. ins.level # 0 /\ ins.level - 1 = Height /\ Height + 1 \notin 0 .. Height
    BY <1>2, <1>5
  <2>3. ins.at = 0 /\ IndexAt(i)[Height] = 0
    BY <1>1, <2>2, IndexInLevel DEF OnPath
  <2>4. ~Shows(hash, Height, i)
    BY <1>1, <2>2, <2>3 DEF Unseen, UnseenHash
  <2> QED BY <2>1, <2>2, <2>4 DEF UnseenWrite
<1> QED BY <1>1, <1>2, <1>3, <1>4, <1>5

\* Steps that leave the nodes alone
LEMMA UnseenFrame ==
  ASSUME UnseenInv, nodes' = nodes, Used \subseteq Used',
         root' = root \/ \A i \in Leaves \ Used : ~Shows(root', Height, i),
         oldRoot' \in {oldRoot, root, Zero},
         \A w \in lateWrites' : w \in lateWrites \/ \A i \in Leaves \ Used : UnseenWrite(w, i),
         ins'.pc = "climb" => ins'.level = 0 \/ (ins' = ins /\ hash' = hash),
         ins'.pc \in {"climb", "prove"} =>
           /\ oldRoot' = oldRoot /\ ins'.index = ins.index
           /\ ins.pc \in {"climb", "prove"} \/ ins.index \in Leaves \ Used
  PROVE  UnseenInv'
<1>1. Height \in 0 .. Height /\ Height \in Nat
  BY HeightIsPositive
<1>2. ASSUME NEW i \in Leaves \ Used PROVE Unseen(i)'
  <2>1. Unseen(i)
    BY DEF UnseenInv
  <2>2. ~Shows(root', Height, i)
    BY <2>1 DEF Unseen
  <2>3. ~Shows(oldRoot', Height, i)
    BY <1>1, <2>1, ZeroShowsNothing DEF Unseen
  <2>4. \A w \in lateWrites' : UnseenWrite(w, i)
    BY <2>1 DEF Unseen
  <2>5. UnseenHash(i)'
    BY <2>1 DEF Unseen, UnseenHash, Climbs
  <2> QED BY <2>1, <2>2, <2>3, <2>4, <2>5 DEF Unseen, UnseenWrite
<1>3. ins'.pc \in {"climb", "prove"} => ~Shows(oldRoot', Height, ins'.index)
  BY DEF UnseenInv, Unseen
<1> QED BY <1>2, <1>3 DEF UnseenInv

LEMMA UnseenUpsert ==
  ASSUME IInv, RoomInv, PathInv, UnseenInv, UpsertLeaf \/ UpsertParent
  PROVE  UnseenInv'
<1>1. PICK here : Upsert(here)
  BY ClimbStep
<1> DEFINE m == ins.level
<1>2. /\ m \in 0 .. Height /\ here = <<m, IndexAt(Start)[m]>> /\ Climbs
      /\ \A p \in Positions : p # here => nodes'[p] = nodes[p]
      /\ nodes'[here] = hash' /\ hash' = NextWrite.hash
      /\ ins'.level = m + 1 /\ ins'.at = IndexAt(Start)[m]
      /\ ins'.pc = "climb" /\ ins.pc = "climb" /\ ins'.index = ins.index
  BY <1>1 DEF Upsert, Climbs
<1>3. root' = root /\ oldRoot' = oldRoot /\ lateWrites' = lateWrites /\ Used' = Used
  BY DEF UpsertLeaf, UpsertParent, Used, stale
<1>4. NextWrite.level = m /\ NextWrite.at = IndexAt(Start)[m]
  <2>1. CASE m = 0
    <3>1. ins.at = IndexAt(Start)[0]
      BY <1>2, <2>1 DEF PathInv, OnPath
    <3> QED BY <2>1, <3>1 DEF NextWrite
  <2>2. CASE m # 0
    <3>1. ins.at \div 2 = IndexAt(Start)[m] /\ m <= Height
      BY <1>1, <1>2, <2>2 DEF Upsert
    <3> QED BY <2>2, <3>1 DEF NextWrite
  <2> QED BY <2>1, <2>2
<1>5. ASSUME NEW i \in Leaves \ Used, IndexAt(i)[m] = IndexAt(Start)[m]
      PROVE  ~Shows(hash', m, i)
  <2>1. UnseenWrite(NextWrite, i)
    BY <1>2, NextWriteIsUnseen
  <2> QED BY <1>2, <1>4, <1>5, <2>1 DEF UnseenWrite
<1>6. ASSUME NEW i \in Leaves \ Used PROVE Unseen(i)'
  <2>1. Unseen(i)
    BY DEF UnseenInv
  <2>2. ASSUME NEW l \in 0 .. Height PROVE ~Shows(Path(nodes', i, l), l, i)
    <3>1. <<l, IndexAt(i)[l]>> \in Positions
      BY IndexInLevel, PositionsAre
    <3>2. CASE <<l, IndexAt(i)[l]>> # here
      <4>1. Path(nodes', i, l) = Path(nodes, i, l)
        BY <1>2, <3>1, <3>2 DEF Path
      <4> QED BY <2>1, <4>1 DEF Unseen
    <3>3. CASE <<l, IndexAt(i)[l]>> = here
      <4>1. l = m /\ IndexAt(i)[m] = IndexAt(Start)[m] /\ Path(nodes', i, l) = hash'
        BY <1>2, <3>3 DEF Path
      <4> QED BY <1>5, <4>1
    <3> QED BY <3>2, <3>3
  <2>3. UnseenHash(i)'
    <3>1. ins'.level - 1 = m
      BY <1>2, HeightIsPositive
    <3> QED BY <1>2, <1>5, <3>1 DEF UnseenHash
  <2> QED BY <1>3, <2>1, <2>2, <2>3 DEF Unseen, UnseenWrite
<1> QED BY <1>2, <1>3, <1>6 DEF UnseenInv

LEMMA UnseenLateWrite ==
  ASSUME IInv, UnseenInv, LateWrite
  PROVE  UnseenInv'
<1>1. PICK w \in lateWrites :
        \/ w.level <= Height /\ nodes' = [nodes EXCEPT ![<<w.level, w.at>>] = w.hash] /\ root' = root
        \/ w.level = Height + 1 /\ root' = w.hash /\ nodes' = nodes
  BY DEF LateWrite, UpsertNode, SetRoot
<1>2. /\ ins' = ins /\ hash' = hash /\ oldRoot' = oldRoot /\ lateWrites' \subseteq lateWrites
      /\ Used' = Used /\ w.level \in 0 .. Height + 1 /\ DOMAIN nodes = Positions
  BY DEF LateWrite, Used, IInv, TypeOK
<1>3. ASSUME NEW i \in Leaves \ Used PROVE Unseen(i)'
  <2>1. Unseen(i) /\ UnseenWrite(w, i)
    BY DEF UnseenInv, Unseen
  <2>2. ASSUME NEW l \in 0 .. Height PROVE ~Shows(Path(nodes', i, l), l, i)
    <3>1. <<l, IndexAt(i)[l]>> \in Positions /\ ~Shows(Path(nodes, i, l), l, i)
      BY <2>1, IndexInLevel, PositionsAre DEF Unseen
    <3>2. CASE nodes' = nodes
      BY <3>1, <3>2
    <3>3. CASE w.level <= Height /\ nodes' = [nodes EXCEPT ![<<w.level, w.at>>] = w.hash]
      <4>1. CASE <<l, IndexAt(i)[l]>> = <<w.level, w.at>>
        <5>1. w.level = l /\ w.at = IndexAt(i)[w.level] /\ Path(nodes', i, l) = w.hash
          BY <1>2, <3>1, <3>3, <4>1 DEF Path
        <5> QED BY <2>1, <5>1 DEF UnseenWrite
      <4>2. CASE <<l, IndexAt(i)[l]>> # <<w.level, w.at>>
        <5>1. Path(nodes', i, l) = Path(nodes, i, l)
          BY <1>2, <3>1, <3>3, <4>2 DEF Path
        <5> QED BY <3>1, <5>1
      <4> QED BY <4>1, <4>2
    <3> QED BY <1>1, <3>2, <3>3
  <2>3. ~Shows(root', Height, i)
    BY <1>1, <2>1 DEF Unseen, UnseenWrite
  <2>4. UnseenHash(i)'
    BY <1>2, <2>1 DEF Unseen, UnseenHash, Climbs
  <2> QED BY <1>2, <2>1, <2>2, <2>3, <2>4 DEF Unseen, UnseenWrite
<1> QED BY <1>2, <1>3 DEF UnseenInv

LEMMA UnseenStep ==
  ASSUME IInv, RoomInv, PathInv, UnseenInv, [Next]_vars
  PROVE  UnseenInv'
<1>1. Used \subseteq Used' /\ ins \in Insertion
  BY UsedGrows DEF IInv, TypeOK
<1> USE DEF stale, locals
<1>2. CASE InsertRow
  <2>1. /\ ins.pc = "insert" /\ ins'.index = ins.index /\ ins'.level = 0
        /\ nodes' = nodes /\ root' = root /\ oldRoot' = oldRoot /\ lateWrites' = lateWrites
    BY <1>1, <1>2 DEF InsertRow, Insertion
  <2>2. ins.index \in Leaves \ Used
    BY <1>2, <2>1 DEF InsertRow, Fits, RoomInv, Used
  <2> QED BY <1>1, <2>1, <2>2, UnseenFrame
<1>3. CASE UpsertLeaf \/ UpsertParent
  BY <1>3, UnseenUpsert
<1>4. CASE UpdateRoot
  <2>1. /\ ins.pc = "climb" /\ ins'.index = ins.index /\ nodes' = nodes /\ oldRoot' = oldRoot
        /\ ins.level = Height + 1 /\ root' = hash /\ lateWrites' = lateWrites
        /\ ins'.pc = "climb" => ins'.level = 0
    BY <1>1, <1>4 DEF UpdateRoot, SetRoot, Insertion
  <2>2. NextWrite.level = Height + 1 /\ NextWrite.hash = hash
    BY <2>1, HeightIsPositive DEF NextWrite
  <2>3. ASSUME NEW i \in Leaves \ Used PROVE ~Shows(root', Height, i)
    <3>1. UnseenWrite(NextWrite, i)
      BY <2>1, NextWriteIsUnseen DEF Climbs
    <3> QED BY <2>1, <2>2, <3>1 DEF UnseenWrite
  <2> QED BY <1>1, <2>1, <2>3, UnseenFrame
<1>5. ASSUME NEW v \in Values, Begin(v) PROVE UnseenInv'
  <2>1. /\ ins'.pc = "find" /\ nodes' = nodes /\ root' = root /\ oldRoot' = root
        /\ lateWrites' = lateWrites
    BY <1>5 DEF Begin, Idle
  <2> QED BY <1>1, <2>1, UnseenFrame
<1>6. CASE FindLowNullifier \/ GetNextIndex
  <2>1. /\ ins'.pc \in {"index", "insert"} /\ nodes' = nodes /\ root' = root /\ oldRoot' = oldRoot
        /\ lateWrites' = lateWrites
    BY <1>1, <1>6 DEF FindLowNullifier, GetNextIndex, Insertion
  <2> QED BY <1>1, <2>1, UnseenFrame
<1>7. CASE OutOfRange \/ InsertConflicts \/ Return
  <2>1. /\ ins'.pc = "idle" /\ nodes' = nodes /\ root' = root /\ oldRoot' = Zero
        /\ lateWrites' = lateWrites
    BY <1>7 DEF OutOfRange, InsertConflicts, Return, End, Idle
  <2> QED BY <1>1, <2>1, UnseenFrame
<1>8. CASE Abandon
  <2>1. /\ ins'.pc = "idle" /\ nodes' = nodes /\ root' = root /\ oldRoot' = Zero
        /\ lateWrites' \subseteq lateWrites \cup WriteInFlight
    BY <1>8 DEF Abandon, End, Idle
  <2>2. ASSUME NEW w \in lateWrites', w \notin lateWrites, NEW i \in Leaves \ Used
        PROVE  UnseenWrite(w, i)
    <3>1. w = NextWrite /\ Climbs
      BY <2>1, <2>2 DEF WriteInFlight, Climbs
    <3> QED BY <3>1, NextWriteIsUnseen
  <2> QED BY <1>1, <2>1, <2>2, UnseenFrame
<1>9. ASSUME UNCHANGED locals, nodes' = nodes, root' = root, lateWrites' = lateWrites
      PROVE  UnseenInv'
  BY <1>1, <1>9, UnseenFrame
<1>10. ASSUME NEW c \in Callers, AtomicInsert(c) PROVE UnseenInv'
  BY <1>9, <1>10 DEF AtomicInsert
<1>11. ASSUME NEW c \in Callers, NEW v \in Values, AtomicBegin(c, v) PROVE UnseenInv'
  BY <1>9, <1>11 DEF AtomicBegin
<1>12. CASE UNCHANGED vars \/ Restart \/ FixTreeState \/ LateTake \/ LateCommit
  BY <1>9, <1>12 DEF vars, Restart, FixTreeState, LateTake, LateCommit
<1>13. CASE LateWrite
  BY <1>13, UnseenLateWrite
<1> QED BY <1>2, <1>3, <1>4, <1>5, <1>6, <1>7, <1>8, <1>10, <1>11, <1>12, <1>13
        DEF Next, Insert, InsertComplete

-----------------------------------------------------------------------------

LEMMA TransitionIsRight ==
  ASSUME IInv, RoomInv, PathInv, UnseenInv
  PROVE  TransitionVerifies
<1> SUFFICES ASSUME ins.pc = "prove", ~disturbed PROVE VerifyStateTransition(ins)
  BY DEF TransitionVerifies
<1>1. /\ ins.low.index \in Leaves /\ ins.index \in Leaves
      /\ Settled(ins.low.index) /\ Settled(ins.index) /\ root = nodes[<<Height, 0>>]
      /\ ~Shows(oldRoot, Height, ins.index)
  BY DEF RoomInv, PathInv, UnseenInv
<1>2. ASSUME NEW i \in Leaves, Settled(i) PROVE Verifies(i)
  <2>1. /\ nodes[<<0, i>>] # Zero
        /\ \A l \in 1 .. Height : Consistent(nodes, l, IndexAt(i)[l])
    BY <1>2, SettledPath
  <2>2. HashOfPath(i) = root
    BY <1>1, <2>1, HashOfPathIs
  <2> QED BY <2>1, <2>2 DEF Verifies, HasLeaf, NodeHash
<1>3. oldRoot # root
  <2>1. /\ nodes[<<0, ins.index>>] # Zero
        /\ \A l \in 1 .. Height : Consistent(nodes, l, IndexAt(ins.index)[l])
    BY <1>1, SettledPath
  <2>2. Shows(root, Height, ins.index)
    BY <1>1, <2>1, PathShows
  <2> QED BY <1>1, <2>2
<1>4. ins.value \in Values /\ ins.value # 0
  BY TreeAssumption DEF IInv, RunningHasValue
<1>5. LowAfter(ins).nextIndex = ins.index
  <2>1. ins.low \in Row
    BY DEF IInv, TypeOK, Insertion
  <2> QED BY <2>1 DEF LowAfter, Row
<1>6. \A i \in ProvenLeaves(ins) : Verifies(i)
  BY <1>1, <1>2 DEF ProvenLeaves
<1> QED BY <1>3, <1>4, <1>5, <1>6 DEF VerifyStateTransition, VerifyInsertionProof

-----------------------------------------------------------------------------
(***************************************************************************)
(* Members and their leaves, as long as no insertion is abandoned and none *)
(* bypasses the hash tree.                                                 *)
(***************************************************************************)

Clean == faults = 0 /\ \A c \in Callers : calls[c].pc # "done"

\* The leaf of a row is still to be written: it is new, or the low nullifier.
NewLeafToCome(i) == Climbs /\ i = ins.index /\ (ins.leaf = "low" \/ ins.level = 0)
LowLeafToCome(i) == Climbs /\ i = ins.low.index /\ ins.leaf = "low" /\ ins.level = 0

\* The climb from a new leaf has not reached level l.
LevelToCome(i, l) == Climbs /\ i = ins.index /\ (ins.leaf = "low" \/ l >= ins.level)

LeafIsRight(r) ==
  nodes[<<0, r.index>>] = LeafHash(r) \/ NewLeafToCome(r.index) \/ LowLeafToCome(r.index)

PathIsRight(i) == \A l \in 1 .. Height : OK(l, IndexAt(i)[l]) \/ LevelToCome(i, l)

NoneLate == late = {} /\ lateWrites = {} /\ ~disturbed

ListIsClean ==
  /\ NoneLate
  /\ Genesis \in rows
  /\ \A r, s \in rows : r.value = s.value => r = s
  /\ ins.pc \in {"index", "insert"} => ins.low \in rows
  /\ Climbs => NewRow(ins) \in rows /\ (ins.low = Genesis \/ LowAfter(ins) \in rows)

TreeIsClean ==
  /\ \A r \in rows \ {Genesis} : LeafIsRight(r) /\ PathIsRight(r.index)
  /\ Climbs \/ root = nodes[<<Height, 0>>]

CleanInv == Clean => ListIsClean /\ TreeIsClean

\* Without a climb every leaf and every path is as it should be.
LEMMA CleanAtRest ==
  ASSUME TreeIsClean, ~Climbs
  PROVE  /\ \A r \in rows \ {Genesis} :
              /\ nodes[<<0, r.index>>] = LeafHash(r)
              /\ \A l \in 1 .. Height : Consistent(nodes, l, IndexAt(r.index)[l])
         /\ root = nodes[<<Height, 0>>]
BY DEF TreeIsClean, LeafIsRight, PathIsRight, NewLeafToCome, LowLeafToCome, LevelToCome, OK, Pending

LEMMA CleanAtRestAfter ==
  ASSUME \A r \in rows' \ {Genesis} :
           /\ nodes'[<<0, r.index>>] = LeafHash(r)
           /\ \A l \in 1 .. Height : Consistent(nodes', l, IndexAt(r.index)[l]),
         root' = nodes'[<<Height, 0>>]
  PROVE  TreeIsClean'
BY DEF TreeIsClean, LeafIsRight, PathIsRight, OK, Consistent

\* Steps outside a climb that leave rows and tree alone
LEMMA CleanFrame ==
  ASSUME Clean, ListIsClean, TreeIsClean, rows' = rows, nodes' = nodes, root' = root, NoneLate',
         ~Climbs \/ ins' = ins, Climbs' = Climbs,
         ins'.pc \in {"index", "insert"} => ins'.low \in rows
  PROVE  ListIsClean' /\ TreeIsClean'
<1>1. CASE ins' = ins
  <2>1. ListIsClean'
    BY <1>1 DEF ListIsClean, Climbs, NewRow, LowAfter, IsEmptyTree
  <2>2. TreeIsClean'
    BY <1>1 DEF TreeIsClean, LeafIsRight, PathIsRight, NewLeafToCome, LowLeafToCome, LevelToCome,
                OK, Pending, Consistent, Climbs
  <2> QED BY <2>1, <2>2
<1>2. CASE ~Climbs
  <2>1. ListIsClean'
    BY <1>2 DEF ListIsClean
  <2>2. /\ \A r \in rows \ {Genesis} :
             /\ nodes[<<0, r.index>>] = LeafHash(r)
             /\ \A l \in 1 .. Height : Consistent(nodes, l, IndexAt(r.index)[l])
        /\ root = nodes[<<Height, 0>>]
    BY <1>2, CleanAtRest
  <2> QED BY <2>1, <2>2, CleanAtRestAfter
<1> QED BY <1>1, <1>2

\* The rows after the transaction of a clean list
LEMMA CleanRows ==
  ASSUME IInv, ListIsClean, ins.pc = "insert", rows' = RowsAfter(ins), ins.value \notin Members
  PROVE  /\ ins.low \in rows /\ ins.low \in Row
         /\ NewRow(ins) \in rows' /\ NewRow(ins).index = ins.index /\ NewRow(ins).value = ins.value
         /\ ins.low = Genesis => rows' = rows \cup {NewRow(ins)}
         /\ ins.low # Genesis =>
              /\ rows' = (rows \ {ins.low}) \cup {LowAfter(ins), NewRow(ins)}
              /\ LowAfter(ins).value = ins.low.value /\ LowAfter(ins).index = ins.low.index
              /\ ins.low.value # 0
<1>1. /\ ins.low \in rows /\ ins.low \in Row /\ Genesis \in rows
      /\ \A r, s \in rows : r.value = s.value => r = s
  BY DEF ListIsClean, IInv, TypeOK
<1>2. NewRow(ins) \in rows' /\ NewRow(ins).index = ins.index /\ NewRow(ins).value = ins.value
  BY DEF RowsAfter, NewRow
<1>3. CASE ins.low = Genesis
  BY <1>1, <1>2, <1>3 DEF RowsAfter, UpdateLow, IsEmptyTree, Genesis
<1>4. CASE ins.low # Genesis
  <2>1. ins.low.value # 0
    BY <1>1, <1>4 DEF Genesis
  <2>2. LowAfter(ins) = [ins.low EXCEPT !.next = ins.value, !.nextIndex = ins.index]
    BY DEF LowAfter
  <2>3. LowAfter(ins).value = ins.low.value /\ LowAfter(ins).index = ins.low.index
    BY <1>1, <2>2 DEF Row
  <2> DEFINE upd(r) == IF r.value = ins.low.value
                         THEN [r EXCEPT !.next = ins.value, !.nextIndex = ins.index] ELSE r
  <2>4. \A r \in rows : upd(r) = IF r = ins.low THEN LowAfter(ins) ELSE r
    BY <1>1, <2>2
  <2>5. rows' = {upd(r) : r \in rows} \cup {NewRow(ins)}
    BY <2>1 DEF RowsAfter, UpdateLow, IsEmptyTree
  <2> HIDE DEF upd
  <2>6. {upd(r) : r \in rows} = (rows \ {ins.low}) \cup {LowAfter(ins)}
    <3>1. ASSUME NEW r \in rows PROVE upd(r) \in (rows \ {ins.low}) \cup {LowAfter(ins)}
      BY <2>4
    <3>2. ASSUME NEW r \in rows \ {ins.low} PROVE r \in {upd(s) : s \in rows}
      <4>1. upd(r) = r
        BY <2>4
      <4> QED BY <4>1
    <3>3. LowAfter(ins) \in {upd(s) : s \in rows}
      <4>1. upd(ins.low) = LowAfter(ins)
        BY <1>1, <2>4
      <4> QED BY <1>1, <4>1
    <3> QED BY <3>1, <3>2, <3>3
  <2> QED BY <1>1, <1>2, <1>4, <2>1, <2>3, <2>5, <2>6
<1> QED BY <1>1, <1>2, <1>3, <1>4

LEMMA CleanInsertRow ==
  ASSUME IInv, Clean, ListIsClean, TreeIsClean, InsertRow
  PROVE  ListIsClean' /\ TreeIsClean'
<1>1. /\ ins.pc = "insert" /\ ~Climbs /\ rows' = RowsAfter(ins) /\ ins.value \notin Members
      /\ ins'.pc = "climb" /\ ins'.leaf = "low" /\ ins'.level = 0 /\ ins'.value = ins.value
      /\ ins'.low = ins.low /\ ins'.index = ins.index
      /\ nodes' = nodes /\ root' = root /\ NoneLate'
  BY DEF InsertRow, RowsAfter, IInv, TypeOK, Insertion, Climbs, Fits, ListIsClean, NoneLate, stale
<1>2. /\ ins.low \in rows /\ ins.low \in Row
      /\ NewRow(ins) \in rows' /\ NewRow(ins).index = ins.index /\ NewRow(ins).value = ins.value
      /\ ins.low = Genesis => rows' = rows \cup {NewRow(ins)}
      /\ ins.low # Genesis =>
           /\ rows' = (rows \ {ins.low}) \cup {LowAfter(ins), NewRow(ins)}
           /\ LowAfter(ins).value = ins.low.value /\ LowAfter(ins).index = ins.low.index
           /\ ins.low.value # 0
  BY <1>1, CleanRows
<1>3. NewRow(ins)' = NewRow(ins) /\ LowAfter(ins)' = LowAfter(ins) /\ Climbs'
  BY <1>1 DEF NewRow, LowAfter, IsEmptyTree, Climbs
<1>4. \A r \in rows : r.value # ins.value
  BY <1>1 DEF Members
<1>5. /\ Genesis \in rows /\ \A r, s \in rows : r.value = s.value => r = s
  BY DEF ListIsClean
<1>6. \A r \in rows' : r \in rows \/ r = NewRow(ins) \/ (r = LowAfter(ins) /\ ins.low # Genesis)
  BY <1>2
<1>7. ListIsClean'
  <2>1. Genesis \in rows'
    BY <1>2, <1>5
  <2>2. ASSUME NEW r \in rows', NEW s \in rows', r.value = s.value PROVE r = s
    <3>1. CASE ins.low = Genesis
      BY <1>2, <1>4, <1>5, <2>2, <3>1
    <3>2. CASE ins.low # Genesis
      <4>1. \A q \in rows' : q \in rows \ {ins.low} \/ q = NewRow(ins) \/ q = LowAfter(ins)
        BY <1>2, <3>2
      <4>2. \A q \in rows \ {ins.low} : q.value # ins.low.value /\ q.value # ins.value
        BY <1>2, <1>4, <1>5
      <4>3. ins.low.value # ins.value
        BY <1>2, <1>4
      <4> QED BY <1>2, <1>5, <2>2, <3>2, <4>1, <4>2, <4>3
    <3> QED BY <3>1, <3>2
  <2>3. ins.low = Genesis \/ LowAfter(ins) \in rows'
    BY <1>2
  <2> QED BY <1>1, <1>2, <1>3, <1>5, <2>1, <2>2, <2>3 DEF ListIsClean
<1>8. /\ \A r \in rows \ {Genesis} :
           /\ nodes[<<0, r.index>>] = LeafHash(r)
           /\ \A l \in 1 .. Height : Consistent(nodes, l, IndexAt(r.index)[l])
      /\ root = nodes[<<Height, 0>>]
  BY <1>1, CleanAtRest
<1>9. ASSUME NEW r \in rows' \ {Genesis} PROVE LeafIsRight(r)' /\ PathIsRight(r.index)'
  <2>1. CASE r = NewRow(ins)
    <3>1. r.index = ins'.index
      BY <1>1, <1>2, <2>1
    <3> QED BY <1>1, <1>3, <3>1 DEF LeafIsRight, PathIsRight, NewLeafToCome, LevelToCome
  <2>2. CASE r \in rows
    BY <1>1, <1>8, <2>2 DEF LeafIsRight, PathIsRight, OK, Consistent
  <2>3. CASE r = LowAfter(ins) /\ ins.low # Genesis
    <3>1. r.index = ins.low.index /\ ins.low \in rows \ {Genesis} /\ ins'.low.index = ins.low.index
      BY <1>1, <1>2, <2>3
    <3>2. LeafIsRight(r)'
      BY <1>1, <1>3, <3>1 DEF LeafIsRight, LowLeafToCome
    <3>3. \A l \in 1 .. Height : Consistent(nodes, l, IndexAt(r.index)[l])
      BY <1>8, <3>1
    <3>4. PathIsRight(r.index)'
      BY <1>1, <3>3 DEF PathIsRight, OK, Consistent
    <3> QED BY <3>2, <3>4
  <2> QED BY <1>6, <2>1, <2>2, <2>3
<1> QED BY <1>3, <1>7, <1>9 DEF TreeIsClean

LEMMA CleanUpsert ==
  ASSUME IInv, RoomInv, PathInv, Clean, ListIsClean, TreeIsClean, UpsertLeaf \/ UpsertParent
  PROVE  ListIsClean' /\ TreeIsClean'
<1>1. Used \subseteq Leaves /\ ~disturbed
  BY DEF RoomInv, ListIsClean, NoneLate
<1>2. PICK here : Upsert(here)
  BY <1>1, ClimbStep
<1>3. Start \in Leaves
  BY <1>1, ClimbStep
<1> DEFINE m == ins.level
<1>4. /\ Climbs /\ Climbs' /\ m \in 0 .. Height /\ here = <<m, IndexAt(Start)[m]>>
      /\ \A p \in Positions : p # here => nodes'[p] = nodes[p]
      /\ m = 0 => nodes'[here] = LeafToWrite
      /\ m # 0 => Consistent(nodes', m, IndexAt(Start)[m])
      /\ ins'.level = m + 1 /\ ins'.leaf = ins.leaf /\ ins'.low = ins.low
      /\ ins'.index = ins.index /\ ins'.value = ins.value
  BY <1>1, <1>2 DEF Upsert, Climbs
<1>5. rows' = rows /\ NoneLate' /\ root' = root
  BY DEF UpsertLeaf, UpsertParent, ListIsClean, NoneLate, stale
<1>6. NewRow(ins)' = NewRow(ins) /\ LowAfter(ins)' = LowAfter(ins)
  BY <1>4 DEF NewRow, LowAfter, IsEmptyTree
<1>7. ListIsClean'
  BY <1>4, <1>5, <1>6 DEF ListIsClean, Climbs
<1> HIDE DEF m
<1>8. /\ m + 1 # 0 /\ \A l \in 1 .. Height : l >= m + 1 \/ l = m \/ ~(l >= m)
  BY <1>4, HeightIsPositive
<1>9. ASSUME NEW r \in rows \ {Genesis} PROVE LeafIsRight(r)'
  <2>1. LeafIsRight(r) /\ r.index \in Leaves
    BY <1>1 DEF TreeIsClean, Used
  <2>2. <<0, r.index>> \in Positions /\ IndexAt(Start)[0] = Start
    <3>1. 0 \in 0 .. Height /\ r.index \in Level(0)
      BY <2>1, HeightIsPositive, TopLevel
    <3> QED BY <1>3, <3>1, PositionsAre, IndexInLevel, IndexRecursion
  <2>3. CASE m = 0 /\ r.index = Start
    <3>1. nodes'[<<0, r.index>>] = LeafToWrite
      BY <1>4, <2>2, <2>3
    <3>2. LeafToWrite = LeafHash(r)
      <4>1. /\ \A q, s \in rows : q.index = s.index => q = s
            /\ NewRow(ins) \in rows /\ (ins.low = Genesis \/ LowAfter(ins) \in rows)
            /\ Genesis \in rows
        BY <1>4 DEF IInv, IndexesAreUnique, ListIsClean
      <4>2. CASE ins.leaf = "low"
        <5>1. r.index = ins.low.index
          BY <2>3, <4>2 DEF Start
        <5>2. ins.low # Genesis
          BY <4>1, <5>1
        <5>3. LowAfter(ins).index = ins.low.index
          <6>1. ins.low \in Row
            BY DEF IInv, TypeOK, Insertion
          <6> QED BY <6>1 DEF LowAfter, Row
        <5>4. r = LowAfter(ins)
          BY <4>1, <5>1, <5>2, <5>3
        <5> QED BY <4>2, <5>4 DEF LeafToWrite
      <4>3. CASE ins.leaf # "low"
        <5>1. r.index = ins.index /\ NewRow(ins).index = ins.index
          BY <2>3, <4>3 DEF Start, NewRow
        <5>2. r = NewRow(ins)
          BY <4>1, <5>1
        <5> QED BY <4>3, <5>2 DEF LeafToWrite
      <4> QED BY <4>2, <4>3
    <3> QED BY <1>5, <3>1, <3>2 DEF LeafIsRight
  <2>4. CASE ~(m = 0 /\ r.index = Start)
    <3>1. <<0, r.index>> # here
      BY <1>4, <2>2, <2>4
    <3>2. nodes'[<<0, r.index>>] = nodes[<<0, r.index>>]
      BY <1>4, <2>2, <3>1
    <3>3. ~LowLeafToCome(r.index)
      BY <2>4 DEF LowLeafToCome, Start, m
    <3>4. NewLeafToCome(r.index) => NewLeafToCome(r.index)'
      BY <1>4, <2>4 DEF NewLeafToCome, Start, m
    <3> QED BY <2>1, <3>2, <3>3, <3>4 DEF LeafIsRight
  <2> QED BY <2>3, <2>4
<1>10. ASSUME NEW r \in rows \ {Genesis} PROVE PathIsRight(r.index)'
  <2>1. PathIsRight(r.index) /\ r.index \in Leaves
    BY <1>1 DEF TreeIsClean, Used
  <2> SUFFICES ASSUME NEW l \in 1 .. Height
               PROVE  OK(l, IndexAt(r.index)[l])' \/ LevelToCome(r.index, l)'
    BY DEF PathIsRight
  <2>2. l \in 0 .. Height /\ IndexAt(r.index)[l] \in Level(l)
    <3>1. l \in 0 .. Height
      OBVIOUS
    <3> QED BY <2>1, <3>1, IndexInLevel
  <2>3. CASE OK(l, IndexAt(r.index)[l])
    BY <1>1, <1>2, <1>3, <2>2, <2>3, UpsertKeeps
  <2>4. CASE LevelToCome(r.index, l)
    <3>1. CASE ins.leaf = "low" \/ l >= m + 1
      BY <1>4, <2>4, <3>1 DEF LevelToCome
    <3>2. CASE ins.leaf # "low" /\ l = m
      <4>1. Start = r.index /\ m # 0
        BY <2>4, <3>2 DEF LevelToCome, Start
      <4>2. Consistent(nodes', l, IndexAt(r.index)[l])
        BY <1>4, <3>2, <4>1
      <4> QED BY <4>2 DEF OK, Consistent
    <3> QED BY <1>8, <2>4, <3>1, <3>2 DEF LevelToCome, m
  <2> QED BY <2>1, <2>3, <2>4 DEF PathIsRight
<1> QED BY <1>4, <1>5, <1>7, <1>9, <1>10 DEF TreeIsClean

LEMMA CleanUpdateRoot ==
  ASSUME IInv, RoomInv, PathInv, Clean, ListIsClean, TreeIsClean, UpdateRoot
  PROVE  ListIsClean' /\ TreeIsClean'
<1>1. /\ Climbs /\ ins.level = Height + 1 /\ ins \in Insertion /\ Height \in Nat /\ Height > 0
      /\ nodes' = nodes /\ rows' = rows /\ NoneLate' /\ ~disturbed
  BY HeightIsPositive DEF UpdateRoot, Climbs, IInv, TypeOK, ListIsClean, NoneLate, stale
<1>2. root' = nodes'[<<Height, 0>>]
  BY <1>1, PathUpdateRoot
<1>3. ASSUME NEW r \in rows \ {Genesis}
      PROVE  /\ nodes[<<0, r.index>>] = LeafHash(r) \/ (r.index = ins.index /\ ins.leaf = "low")
             /\ \A l \in 1 .. Height :
                  \/ Consistent(nodes, l, IndexAt(r.index)[l])
                  \/ r.index = ins.index /\ ins.leaf = "low"
  <2>1. LeafIsRight(r) /\ PathIsRight(r.index) /\ ins.level # 0
    BY <1>1 DEF TreeIsClean
  <2>2. \A l \in 1 .. Height : ins.level # l /\ ~(l >= ins.level)
    BY <1>1
  <2> QED BY <2>1, <2>2
          DEF LeafIsRight, PathIsRight, NewLeafToCome, LowLeafToCome, LevelToCome, OK, Pending
<1>4. CASE ins.leaf = "low"
  <2>1. /\ ins'.pc = "climb" /\ ins'.leaf = "new" /\ ins'.level = 0 /\ ins'.value = ins.value
        /\ ins'.low = ins.low /\ ins'.index = ins.index /\ Climbs'
    BY <1>1, <1>4 DEF UpdateRoot, Insertion, Climbs
  <2>2. NewRow(ins)' = NewRow(ins) /\ LowAfter(ins)' = LowAfter(ins)
    BY <2>1 DEF NewRow, LowAfter, IsEmptyTree
  <2>3. ListIsClean'
    BY <1>1, <2>1, <2>2 DEF ListIsClean
  <2>4. \A l \in 1 .. Height : l >= 0
    BY <1>1
  <2>5. ASSUME NEW r \in rows \ {Genesis} PROVE LeafIsRight(r)' /\ PathIsRight(r.index)'
    <3>1. CASE r.index = ins.index
      BY <1>1, <2>1, <2>4, <3>1 DEF LeafIsRight, PathIsRight, NewLeafToCome, LevelToCome
    <3>2. CASE r.index # ins.index
      BY <1>1, <1>3, <3>2 DEF LeafIsRight, PathIsRight, OK, Consistent
    <3> QED BY <3>1, <3>2
  <2> QED BY <1>1, <2>1, <2>3, <2>5 DEF TreeIsClean
<1>5. CASE ins.leaf # "low"
  <2>1. ins'.pc = "prove" /\ ~Climbs'
    BY <1>1, <1>5 DEF UpdateRoot, Insertion, Climbs
  <2>2. ListIsClean'
    BY <1>1, <2>1 DEF ListIsClean
  <2>3. \A r \in rows' \ {Genesis} :
          /\ nodes'[<<0, r.index>>] = LeafHash(r)
          /\ \A l \in 1 .. Height : Consistent(nodes', l, IndexAt(r.index)[l])
    BY <1>1, <1>3, <1>5
  <2> QED BY <1>2, <2>2, <2>3, CleanAtRestAfter
<1> QED BY <1>4, <1>5

LEMMA CleanInit ==
  ASSUME Init
  PROVE  CleanInv
<1>1. ListIsClean
  BY DEF Init, ListIsClean, NoneLate, Idle, Climbs
<1>2. root = nodes[<<Height, 0>>] /\ ~Climbs
  <2>1. Height \in 0 .. Height /\ 0 \in Level(Height)
    BY HeightIsPositive, TopLevel
  <2>2. <<Height, 0>> \in Positions
    BY <2>1, PositionsAre
  <2> QED BY <2>2 DEF Init, Idle, Climbs
<1>3. rows \ {Genesis} = {}
  BY DEF Init
<1> QED BY <1>1, <1>2, <1>3 DEF CleanInv, TreeIsClean

LEMMA CleanStep ==
  ASSUME IInv, RoomInv, PathInv, CleanInv, [Next]_vars
  PROVE  CleanInv'
<1> SUFFICES ASSUME Clean' PROVE ListIsClean' /\ TreeIsClean'
  BY DEF CleanInv
<1>1. /\ ins \in Insertion /\ calls \in [Callers -> Call] /\ faults \in Nat /\ TypeOK /\ rows # {}
  BY TreeAssumption DEF IInv, TypeOK, ZeroIsMember, Members
<1> USE DEF stale, locals
<1>2. /\ ~Abandon /\ \A c \in Callers : ~AtomicInsert(c)
  <2>1. ASSUME Abandon PROVE FALSE
    <3>1. faults' = faults + 1 /\ faults' = 0
      BY <2>1 DEF Abandon, Clean
    <3> QED BY <1>1, <3>1
  <2>2. ASSUME NEW c \in Callers, AtomicInsert(c) PROVE FALSE
    <3>1. calls'[c].pc = "done"
      BY <1>1, <2>2 DEF AtomicInsert, Call
    <3> QED BY <3>1 DEF Clean
  <2> QED BY <2>1, <2>2
<1>3. Clean
  <2>1. faults' = faults
    BY <1>2 DEF Next, Insert, InsertComplete, Begin, FindLowNullifier, OutOfRange, GetNextIndex,
                InsertRow, InsertConflicts, UpsertLeaf, UpsertParent, UpdateRoot, Return,
                AtomicBegin, LateCommit, LateTake, LateWrite, Restart, FixTreeState, vars
  <2>2. ASSUME NEW c \in Callers, NEW v \in Values, AtomicBegin(c, v)
        PROVE  \A d \in Callers : calls[d].pc = "done" => calls'[d].pc = "done"
    <3>1. calls[c].pc = "ready" /\ \A d \in Callers \ {c} : calls'[d] = calls[d]
      BY <1>1, <2>2 DEF AtomicBegin
    <3> QED BY <3>1
  <2>3. calls' = calls \/ \E c \in Callers, v \in Values : AtomicBegin(c, v)
    BY <1>2 DEF Next, Insert, InsertComplete, Begin, FindLowNullifier, OutOfRange, GetNextIndex,
                InsertRow, InsertConflicts, UpsertLeaf, UpsertParent, UpdateRoot, Return,
                LateCommit, LateTake, LateWrite, Restart, FixTreeState, vars
  <2> QED BY <2>1, <2>2, <2>3 DEF Clean
<1>4. ListIsClean /\ TreeIsClean
  BY <1>3 DEF CleanInv
<1>5. NoneLate
  BY <1>4 DEF ListIsClean
<1>6. ASSUME rows' = rows, nodes' = nodes, root' = root, NoneLate',
             ~Climbs \/ ins' = ins, Climbs' = Climbs,
             ins'.pc \in {"index", "insert"} => ins'.low \in rows
      PROVE  ListIsClean' /\ TreeIsClean'
  BY <1>3, <1>4, <1>6, CleanFrame
<1>7. ASSUME NEW v \in Values, Begin(v) PROVE ListIsClean' /\ TreeIsClean'
  <2>1. ins.pc = "idle" /\ ins'.pc = "find"
    BY <1>7 DEF Begin, Idle
  <2> QED BY <1>5, <1>6, <1>7, <2>1 DEF Begin, Climbs, NoneLate
<1>8. CASE FindLowNullifier
  <2>1. ins.pc = "find" /\ ins'.pc = "index" /\ ins'.low \in rows
    BY <1>1, <1>8, LowIsRow DEF FindLowNullifier, Insertion
  <2> QED BY <1>5, <1>6, <1>8, <2>1 DEF FindLowNullifier, Climbs, NoneLate
<1>9. CASE GetNextIndex
  <2>1. ins.pc = "index" /\ ins'.pc = "insert" /\ ins'.low = ins.low /\ ins.low \in rows
    BY <1>1, <1>4, <1>9 DEF GetNextIndex, Insertion, ListIsClean
  <2> QED BY <1>5, <1>6, <1>9, <2>1 DEF GetNextIndex, Climbs, NoneLate
<1>10. CASE InsertRow
  BY <1>3, <1>4, <1>10, CleanInsertRow
<1>11. CASE UpsertLeaf \/ UpsertParent
  BY <1>3, <1>4, <1>11, CleanUpsert
<1>12. CASE UpdateRoot
  BY <1>3, <1>4, <1>12, CleanUpdateRoot
<1>13. CASE OutOfRange \/ InsertConflicts \/ Return
  <2>1. ins.pc # "climb" /\ ins'.pc = "idle" /\ rows' = rows /\ nodes' = nodes /\ root' = root /\ NoneLate'
    BY <1>5, <1>13 DEF OutOfRange, InsertConflicts, Return, End, Idle, NoneLate
  <2> QED BY <1>6, <2>1 DEF Climbs
<1>14. ASSUME ins' = ins, rows' = rows, nodes' = nodes, root' = root, NoneLate'
       PROVE  ListIsClean' /\ TreeIsClean'
  <2>1. ins.pc \in {"index", "insert"} => ins.low \in rows
    BY <1>4 DEF ListIsClean
  <2> QED BY <1>6, <1>14, <2>1 DEF Climbs
<1>15. CASE LateCommit \/ LateWrite
  BY <1>5, <1>15 DEF LateCommit, LateWrite, NoneLate
<1>16. CASE UNCHANGED vars \/ Restart \/ FixTreeState \/ LateTake
  BY <1>5, <1>14, <1>16 DEF vars, Restart, FixTreeState, LateTake, NoneLate
<1>17. ASSUME NEW c \in Callers, NEW v \in Values, AtomicBegin(c, v) PROVE ListIsClean' /\ TreeIsClean'
  BY <1>5, <1>14, <1>17 DEF AtomicBegin, NoneLate
<1> QED BY <1>2, <1>7, <1>8, <1>9, <1>10, <1>11, <1>12, <1>13, <1>15, <1>16, <1>17
        DEF Next, Insert, InsertComplete

LEMMA MembersAreProved ==
  ASSUME IInv, RoomInv, CleanInv
  PROVE  MembersHaveProofs
<1> SUFFICES ASSUME Clean, ins.pc = "idle", NEW r \in rows \ {Genesis}
             PROVE  Verifies(r.index) /\ nodes[<<0, r.index>>] = LeafHash(r)
  BY DEF MembersHaveProofs, Clean
<1>1. /\ nodes[<<0, r.index>>] = LeafHash(r)
      /\ \A l \in 1 .. Height : Consistent(nodes, l, IndexAt(r.index)[l])
      /\ root = nodes[<<Height, 0>>]
  BY CleanAtRest DEF CleanInv, Climbs
<1>2. r.index \in Leaves
  BY DEF RoomInv, Used
<1>3. HashOfPath(r.index) = root
  BY <1>1, <1>2, HashOfPathIs
<1>4. nodes[<<0, r.index>>] # Zero
  BY <1>1, LeavesAreTuples
<1> QED BY <1>1, <1>3, <1>4 DEF Verifies, HasLeaf, NodeHash

-----------------------------------------------------------------------------
(***************************************************************************)
(* The theorems about the hash tree, as long as it has room.               *)
(***************************************************************************)

HashTreeInv == RoomInv /\ PathInv /\ UnseenInv /\ CleanInv

\* As long as the tree has room: no index is beyond its leaves, an insertion
\* that no late write disturbs leaves consistent paths, and no hash, in the
\* tables or on its way to them, shows a leaf before a row has got it.
THEOREM TreeInvariance == Spec /\ []HasRoom => []HashTreeInv
<1>1. Init => HashTreeInv
  <2>1. Init => PathInv
    BY DEF Init, Idle, PathInv, Climbs
  <2>2. Init => RoomInv
    <3>1. 0 \in Leaves
      BY TwoToType, HeightIsPositive DEF Leaves
    <3> QED BY <3>1 DEF Init, Idle, RoomInv, Used, Genesis
  <2> QED BY <2>1, <2>2, UnseenInit, CleanInit DEF HashTreeInv
<1>2. IInv /\ HasRoom' /\ HashTreeInv /\ [Next]_vars => HashTreeInv'
  BY RoomStep, PathInvStep, UnseenStep, CleanStep DEF HashTreeInv
<1> QED BY Invariance, <1>1, <1>2, PTL DEF Spec

\* In a tree with room, the transition that an insertion returns passes
\* verify_state_transition, whatever earlier insertions left half-done and
\* whichever of their writes ran late before it began to climb: both proofs
\* lead to the root that it has stored, and that root is a new one.
THEOREM TransitionsVerify == Spec /\ []HasRoom => []TransitionVerifies
<1>1. IInv /\ HashTreeInv => TransitionVerifies
  BY TransitionIsRight DEF HashTreeInv
<1> QED BY Invariance, TreeInvariance, <1>1, PTL

\* In a tree with room, prove_membership has a proof for every member that
\* leads to the root, as long as no insertion stopped half-way and none
\* bypassed the hash tree.
THEOREM MembersAreProvable == Spec /\ []HasRoom => []MembersHaveProofs
<1>1. IInv /\ HashTreeInv => MembersHaveProofs
  BY MembersAreProved DEF HashTreeInv
<1> QED BY Invariance, TreeInvariance, <1>1, PTL

=============================================================================
