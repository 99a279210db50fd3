--------------------------- MODULE MCMerkleTree32 ---------------------------
(***************************************************************************)
(* Four leaves for TLC: two pairs of siblings, so updates can share a      *)
(* parent or only the top.                                                 *)
(***************************************************************************)
EXTENDS MerkleTree32

=============================================================================
