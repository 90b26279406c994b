----------------------------- MODULE MCMasterData -----------------------------
(***************************************************************************)
(* A small instance of MasterData for TLC.                                 *)
(***************************************************************************)
EXTENDS MasterData, TLC

CONSTANTS c1, c2, A, B, u

Rooms == [skus |-> 2, stores |-> 2, users |-> 1]

StockedPairs == {<<1, 2>>}

Symmetry == Permutations({c1, c2} \cap Sessions) \cup Permutations({A, B})
=============================================================================
