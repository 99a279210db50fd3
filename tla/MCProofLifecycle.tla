-------------------------- MODULE MCProofLifecycle --------------------------
(***************************************************************************)
(* Finite instances of ProofLifecycle.  Slots are interchangeable: no      *)
(* definition but Init, which gives all of them the same value, names one. *)
(* Words have two bits, so that a second batch takes the counter past the  *)
(* largest one, 1; if it does not continue the first, both end with 1.     *)
(***************************************************************************)
EXTENDS ProofLifecycle, TLC

MCAmounts == [b \in Batches |-> 1]

\* Bound: after a failed call, a crash, or a proof set by hand, one task at a time.
OneTaskAfterDisturbance ==
  faults + puts > 0 => \E s \in Slots : task[s] = NoTask

SlotSymmetry == Permutations(Slots)

=============================================================================
