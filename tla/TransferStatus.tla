--------------------------- MODULE TransferStatus ---------------------------
(***************************************************************************)
(* The transfer order's status machine and the direction of a stock        *)
(* movement: the enumerations of backend/internal/constants, which every   *)
(* other module of the project uses.                                       *)
(***************************************************************************)
EXTENDS Integers

TransferStatuses == {"pending", "confirmed", "shipped", "received", "cancelled"}

\* The legal changes of status, as a set of pairs.
TransferStatusFlow ==
    { <<"pending", "confirmed">>,  <<"pending", "cancelled">>,
      <<"confirmed", "shipped">>,  <<"confirmed", "cancelled">>,
      <<"shipped", "received">>,   <<"shipped", "cancelled">> }

CanTransfer(from, to) == <<from, to>> \in TransferStatusFlow

\* A status the flow has no way out of.
Terminal(status) == \A to \in TransferStatuses : ~CanTransfer(status, to)

StockRecordTypes == {"purchase", "transfer_in", "sale", "loss"}

\* What a record of each type does to the quantity: in adds, out subtracts.
StockDirection(type) == IF type \in {"purchase", "transfer_in"} THEN 1 ELSE -1
=============================================================================
