----------------------------- MODULE MCStockLink -----------------------------
(***************************************************************************)
(* Small instances of StockLink for TLC.                                   *)
(***************************************************************************)
EXTENDS StockLink, TLC

CONSTANTS c1, c2, c3, o1

\* The second store has no row yet.
Stocked == [s \in Stores |-> IF s = 1 THEN 1 ELSE Nil]

Symmetry == Permutations({c1, c2, c3} \cap Sessions)
=============================================================================
