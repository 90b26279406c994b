-------------------------- MODULE TransferProperties --------------------------
(***************************************************************************)
(* What Transfers promises about the committed tables, whatever requests   *)
(* interleave and whatever statements fail.                                *)
(***************************************************************************)
EXTENDS Transfers

Exists(o) == order[o] # Nil

\* Every received unit has its receipt and its transfer_in record, and no
\* receipt or record is without its unit: the three tables that Receive writes
\* (the order, transfer_receipts, stock_records) agree, although a request can
\* fail between any two of the writes and two requests can race.
ReceiptsAccountForReceived ==
    \A o \in Orders : Exists(o) =>
        /\ ledger[o].receipts = order[o].received
        /\ ledger[o].in = order[o].received

\* An order is never received beyond its quantity, and it is 'received' exactly
\* when nothing is left to receive: racing partial receipts neither overshoot
\* nor leave a full order in status 'shipped'.
FullIffReceived ==
    \A o \in Orders : Exists(o) =>
        /\ order[o].received <= order[o].qty
        /\ order[o].status = "received" <=> order[o].received = order[o].qty

\* The from-store is charged the order's quantity exactly once, and exactly if
\* the order was shipped: racing or repeated ship requests charge no second
\* time, and a request that fails after the charge takes it back.
ChargedOncePerShipment ==
    \A o \in Orders : Exists(o) =>
        /\ order[o].status \in {"pending", "confirmed"} => ledger[o].out = 0
        /\ order[o].status \in {"shipped", "received"} => ledger[o].out = order[o].qty
        /\ order[o].status = "cancelled" => ledger[o].out \in {0, order[o].qty}

\* Shipped goods do not vanish: whatever left the from-store for an order that
\* was then cancelled is in the to-store or back in the from-store, and only a
\* cancelled order gives anything back, never more than was charged.
NothingLost ==
    \A o \in Orders : Exists(o) =>
        /\ order[o].status = "cancelled" => ledger[o].out <= order[o].received + ledger[o].back
        /\ order[o].status # "cancelled" => ledger[o].back = 0
        /\ ledger[o].back <= ledger[o].out

\* The comments of Cancel: 未收部分退回调出门店 (the part not received goes back).
\* A cancelled order has not both delivered and returned a unit.
OnlyUnreceivedReturned ==
    \A o \in Orders : Exists(o) =>
        order[o].received + ledger[o].back <= order[o].qty

\* The quantities of the inventory rows are what the movements of all orders
\* make of the initial stock: no update is lost, applied twice or left over
\* from a rolled-back transaction.
Charged(s)   == MapThenSumSet(LAMBDA o : IF Exists(o) /\ order[o].from = s THEN ledger[o].out ELSE 0, Orders)
Delivered(s) == MapThenSumSet(LAMBDA o : IF Exists(o) /\ order[o].to = s THEN ledger[o].in ELSE 0, Orders)
Returned(s)  == MapThenSumSet(LAMBDA o : IF Exists(o) /\ order[o].from = s THEN ledger[o].back ELSE 0, Orders)

StockMatchesLedger ==
    \A s \in Stores : Held(s) = Initially(s) - Charged(s) + Delivered(s) + Returned(s)

\* Every answer shows what its request did. Confirm and Ship answer with the row
\* they read before their transaction and set its status: it is the row that they
\* commit, although other requests commit between that read and their update.
\* Receive and Cancel read the order again after their commit: that row shows
\* their effect, whatever others committed in between.
ResponseShowsEffect ==
    \A c \in Sessions :
        /\ pc[c] = "confirm.commit" => draft[c] = [seen[c] EXCEPT !.status = "confirmed"]
        /\ pc[c] = "ship.commit" => draft[c] = [seen[c] EXCEPT !.status = "shipped"]
        /\ pc[c] = "receive.reload" => /\ order[target[c]].received >= amount[c]
                                       /\ order[target[c]].status \notin {"pending", "confirmed"}
        /\ pc[c] = "cancel.reload" => order[target[c]].status = "cancelled"

-----------------------------------------------------------------------------
\* The inventory rows that session c's next statement must lock.
WantedRows(c) ==
    CASE pc[c] = "ship.deduct"    -> Adjusted(c, seen[c].from, -seen[c].qty)
      [] pc[c] = "receive.adjust" -> Adjusted(c, seen[c].to, amount[c])
      [] pc[c] = "cancel.adjust"  -> Adjusted(c, seen[c].from, ReturnQty(c))
      [] OTHER                    -> {}

\* Its next statement must lock its order: the row satisfies the WHERE clause.
WantsOrder(c) ==
    \/ /\ pc[c] \in {"confirm.transition", "ship.transition", "cancel.transition"}
       /\ StatusUnchanged(c)
    \/ pc[c] = "receive.add" /\ Receivable(c)

WaitsFor(c, d) ==
    /\ c # d
    /\ \/ \E k \in WantedRows(c) : wrote[d][k] # Nil
       \/ WantsOrder(c) /\ target[d] = target[c] /\ draft[d] # Nil

\* Requests never deadlock on row locks, although Ship locks stock and then the
\* order while Receive and Cancel lock the order and then stock: in every set
\* of sessions one waits for no other of the set.
NoDeadlock ==
    \A D \in SUBSET Sessions : D # {} => \E c \in D : \A d \in D : ~WaitsFor(c, d)

-----------------------------------------------------------------------------
\* A committed order changes its status only along TransferStatusFlow, though
\* each handler checks the flow on a row it read earlier, and AddReceived sets
\* the status without consulting the flow at all.
StatusFollowsFlow ==
    [][\A o \in Orders :
            Exists(o) /\ order'[o].status # order[o].status
                => CanTransfer(order[o].status, order'[o].status)]_vars

\* Once received or cancelled, an order and the rows about it stay as they
\* are: a slow request that read the order before takes no effect after.
FinishedOrdersFrozen ==
    [][\A o \in Orders :
            Exists(o) /\ Terminal(order[o].status)
                => order'[o] = order[o] /\ ledger'[o] = ledger[o]]_vars

-----------------------------------------------------------------------------
\* Every request ends, though sessions wait for each other's row locks and the
\* handlers lock the order and the stock rows in opposite orders.
RequestsEnd == \A c \in Sessions : pc[c] # "idle" ~> pc[c] = "idle"
=============================================================================
