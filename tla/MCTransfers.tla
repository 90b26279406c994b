----------------------------- MODULE MCTransfers -----------------------------
(***************************************************************************)
(* Small instances of Transfers for TLC.                                   *)
(***************************************************************************)
EXTENDS TransferRefinement, TLC

CONSTANTS c1, c2, c3, o1, o2

\* A store to ship from, a store to ship to, with and without a row.
BothStocked  == [s \in Stores |-> IF s = 1 THEN 3 ELSE 0]
NoRowAtTwo   == [s \in Stores |-> IF s = 1 THEN 3 ELSE Nil]

Symmetry == Permutations({c1, c2, c3} \cap Sessions) \cup Permutations({o1, o2} \cap Orders)
=============================================================================
