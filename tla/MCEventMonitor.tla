--------------------------- MODULE MCEventMonitor ---------------------------
(***************************************************************************)
(* The monitor for TLC.  A block is either an update, which leaves three   *)
(* logs and one without an address, or a change of authorisations, which   *)
(* the monitor does not know, and a batch whose updates are all rejected,  *)
(* which leaves one log without a state.                                   *)
(***************************************************************************)
EXTENDS EventMonitor

CONSTANTS s1, s2, a1, a2

Update == [op |-> "update", states |-> <<s1>>, who |-> a1]
Batch  == [op |-> "batch",  states |-> <<>>,   who |-> a2]
Admin  == [op |-> "admin",  states |-> <<>>,   who |-> a2]

MCBlocks == {<<Update>>, <<Admin, Batch>>}

MCWanted == {[kind |-> "state", of |-> {s1}], [kind |-> "address", of |-> {a2}]}

=============================================================================
