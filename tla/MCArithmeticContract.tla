------------------------ MODULE MCArithmeticContract ------------------------
(***************************************************************************)
(* The contract for TLC: two accounts, a state beside the one of           *)
(* bytes32(0), two roots, and three proofs that each verify with one of    *)
(* two public values, so a batch can mix accepted and rejected proofs and  *)
(* name one proof twice.                                                   *)
(***************************************************************************)
EXTENDS ArithmeticContract

CONSTANTS deployer, poster, s1, r1, r2, p1, p2, p3, k1, k2, k3, v, w

MCKeccak == p1 :> k1 @@ p2 :> k2 @@ p3 :> k3
MCAccepted == {<<v, p1>>, <<v, p2>>, <<w, p3>>}

Symmetric == Permutations(Roots)

=============================================================================
