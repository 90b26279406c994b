-------------------------- MODULE TransferRefinement --------------------------
(***************************************************************************)
(* Transfers, with its sessions, row locks, drafts and failures, implements *)
(* TransferBook: the entry of an order is read off the committed tables.   *)
(***************************************************************************)
EXTENDS TransferInvariant

Entries ==
    [qty : Nat, received : Nat, status : TransferStatuses, charged : Nat, returned : Nat]

ASSUME NilEntryAssumption == Nil \notin Entries

Entry(o) ==
    IF order[o] = Nil THEN Nil
    ELSE [qty |-> order[o].qty, received |-> order[o].received,
          status |-> order[o].status,
          charged |-> ledger[o].out, returned |-> ledger[o].back]

Book == INSTANCE TransferBook WITH book <- [o \in Orders |-> Entry(o)]

\* Every request takes effect in one step or not at all: however the statements
\* of concurrent requests interleave, and wherever one of them fails, the
\* committed orders and the rows about them move as if requests ran one by one.
ImplementsTransferBook == Book!Spec
=============================================================================
