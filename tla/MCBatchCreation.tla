-------------------------- MODULE MCBatchCreation --------------------------
(***************************************************************************)
(* Finite instances of BatchCreation.  Amounts are distinct powers of two, *)
(* so that two different sets of transactions never have the same sum.     *)
(***************************************************************************)
EXTENDS BatchCreation

MCAmount == [t \in TxIds |-> 2 ^ (t - 1)]

=============================================================================
