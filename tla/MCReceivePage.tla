---------------------------- MODULE MCReceivePage ----------------------------
(***************************************************************************)
(* A small instance of ReceivePage for TLC.                                *)
(***************************************************************************)
EXTENDS ReceivePage

CONSTANTS o1

\* Every order shipped, with room for two receipts.
Shipped == [o \in Orders |-> [qty |-> 2, received |-> 0, status |-> "shipped",
                              charged |-> 2, returned |-> 0]]
=============================================================================
