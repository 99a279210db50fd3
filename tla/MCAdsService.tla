---------------------------- MODULE MCAdsService ----------------------------
(***************************************************************************)
(* The ADS service for TLC: one nullifier that is inserted by itself, one   *)
(* that only a batch inserts, and one that both do.                        *)
(***************************************************************************)
EXTENDS AdsService

MCLists == {<<2, 1>>}

=============================================================================
