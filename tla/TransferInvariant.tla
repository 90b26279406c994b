-------------------------- MODULE TransferInvariant --------------------------
(***************************************************************************)
(* The inductive invariant behind the safety properties of Transfers: what *)
(* each session knows about its order at each statement of its handler.    *)
(***************************************************************************)
EXTENDS TransferProperties

CreatedLabels == Labels \ {"idle", "create.insert"}

\* The labels at which the session's transaction has written its order.
DraftLabels ==
    {"receive.ensure", "receive.insert", "receive.read", "receive.adjust",
     "receive.receipt", "cancel.read", "cancel.adjust"} \cup CommitLabels

ReceiveDraftLabels ==
    {"receive.ensure", "receive.insert", "receive.read", "receive.adjust",
     "receive.receipt", "receive.commit"}

CancelDraftLabels == {"cancel.read", "cancel.adjust", "cancel.commit"}

\* A session that creates an order holds a fresh row under an unused id.
CreateKnows(c) ==
    pc[c] = "create.insert" =>
        /\ target[c] \in Orders
        /\ order[target[c]] = Nil
        /\ seen[c] \in OrderRow
        /\ seen[c].status = "pending"
        /\ seen[c].received = 0
        /\ seen[c].qty \in Quantities

\* Any other session names an existing order; what it read is not ahead of it.
SeenIsPast(c) ==
    pc[c] \in CreatedLabels =>
        /\ target[c] \in Orders
        /\ order[target[c]] \in OrderRow
        /\ seen[c] \in OrderRow
        /\ seen[c].from = order[target[c]].from
        /\ seen[c].to = order[target[c]].to
        /\ seen[c].qty = order[target[c]].qty
        /\ seen[c].received <= order[target[c]].received
        /\ seen[c].received <= seen[c].qty

\* Outside DraftLabels the transaction has written nothing about its order but
\* the charge of Ship.
NoDraft(c) ==
    pc[c] \notin DraftLabels =>
        /\ draft[c] = Nil
        /\ pc[c] # "ship.transition" => work[c] = NoSums

ConfirmKnows(c) ==
    /\ pc[c] = "confirm.transition" => seen[c].status = "pending"
    /\ pc[c] = "confirm.commit" =>
        /\ order[target[c]].status = "pending"
        /\ draft[c] = [order[target[c]] EXCEPT !.status = "confirmed"]
        /\ work[c] = NoSums

ShipKnows(c) ==
    /\ pc[c] \in {"ship.check", "ship.read", "ship.deduct", "ship.transition"}
        => seen[c].status = "confirmed"
    /\ pc[c] \in {"ship.transition", "ship.commit"}
        => work[c] = [NoSums EXCEPT !.out = seen[c].qty]
    /\ pc[c] = "ship.commit" =>
        /\ order[target[c]].status = "confirmed"
        /\ draft[c] = [order[target[c]] EXCEPT !.status = "shipped"]

\* From the update of the order to the commit, the row still takes the amount.
ReceiveKnows(c) ==
    /\ pc[c] \in ReceiveDraftLabels =>
        /\ Receivable(c)
        /\ draft[c] = AddReceived(order[target[c]], amount[c])
        /\ work[c] = [out |-> 0, back |-> 0,
                      in |-> IF pc[c] \in {"receive.receipt", "receive.commit"}
                             THEN amount[c] ELSE 0,
                      receipts |-> IF pc[c] = "receive.commit" THEN amount[c] ELSE 0]
    /\ pc[c] = "receive.reload" =>
        /\ order[target[c]].received >= amount[c]
        /\ order[target[c]].status \notin {"pending", "confirmed"}

CancelKnows(c) ==
    /\ pc[c] = "cancel.transition" \/ pc[c] \in CancelDraftLabels
        => CanTransfer(seen[c].status, "cancelled")
    /\ pc[c] \in CancelDraftLabels =>
        /\ StatusUnchanged(c)
        /\ draft[c] = [order[target[c]] EXCEPT !.status = "cancelled"]
        /\ work[c] = [NoSums EXCEPT !.back = IF pc[c] = "cancel.commit"
                                             THEN ReturnQty(c) ELSE 0]
    /\ pc[c] = "cancel.reload" => order[target[c]].status = "cancelled"

SessionInv(c) ==
    /\ CreateKnows(c)
    /\ SeenIsPast(c)
    /\ NoDraft(c)
    /\ ConfirmKnows(c)
    /\ ShipKnows(c)
    /\ ReceiveKnows(c)
    /\ CancelKnows(c)

\* Only one session at a time creates under an id, only one has written an order.
Apart(c, d) ==
    /\ pc[c] = "create.insert" /\ pc[d] = "create.insert" => target[c] # target[d]
    /\ pc[c] \in DraftLabels /\ pc[d] \in DraftLabels => target[c] # target[d]

\* What the committed tables hold about order o.
RowInv(o) ==
    IF order[o] = Nil THEN ledger[o] = NoSums
    ELSE /\ order[o].qty > 0
         /\ order[o].received <= order[o].qty
         /\ order[o].status = "received" <=> order[o].received = order[o].qty
         /\ ledger[o].receipts = order[o].received
         /\ ledger[o].in = order[o].received
         /\ order[o].status \in {"pending", "confirmed"} =>
                order[o].received = 0 /\ ledger[o].out = 0
         /\ order[o].status \in {"shipped", "received"} => ledger[o].out = order[o].qty
         /\ order[o].status # "cancelled" => ledger[o].back = 0
         /\ order[o].status = "cancelled" =>
                /\ ledger[o].out \in {0, order[o].qty}
                /\ ledger[o].out <= order[o].received + ledger[o].back
                /\ ledger[o].back <= ledger[o].out

IInv ==
    /\ TypeOK
    /\ \A c \in Sessions : SessionInv(c)
    /\ \A c, d \in Sessions : c # d => Apart(c, d)
    /\ \A o \in Orders : RowInv(o)
=============================================================================
