------------------------ MODULE MCIndexedMerkleTree ------------------------
(***************************************************************************)
(* The indexed Merkle tree for TLC: nullifiers are hashes and come in any  *)
(* order, so three values give every order of insertion below, between and *)
(* above the others, and two callers beside the service two writers that   *)
(* read the same low nullifier before a third changes it.                  *)
(***************************************************************************)
EXTENDS IndexedMerkleTree, TLC

\* The indices that insertions can use stay within the tree: one for each
\* value, and two for each fault or call, which can waste their own and make
\* an insertion of the service waste one.
ASSUME Capacity == Cardinality(Values) + 2 * MaxFaults + 2 * Cardinality(Callers) < 2^Height

\* The callers differ in nothing.
CallersAlike == Permutations(Callers)

=============================================================================
