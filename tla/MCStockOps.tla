----------------------------- MODULE MCStockOps -----------------------------
(***************************************************************************)
(* Small instances of StockOps for TLC.                                    *)
(***************************************************************************)
EXTENDS StockOpsProperties, TLC

CONSTANTS c1, c2, c3

Stocked == [s \in Stores |-> 2]

Symmetry == Permutations({c1, c2, c3} \cap Sessions)
=============================================================================
