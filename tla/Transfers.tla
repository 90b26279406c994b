------------------------------ MODULE Transfers ------------------------------
(***************************************************************************)
(* The transfer order service (transfer_order_service.go) with the two     *)
(* repositories it drives, one action per SQL statement, so that the       *)
(* statements of concurrent requests interleave as they do when PostgreSQL *)
(* runs them at READ COMMITTED.                                            *)
(*                                                                         *)
(* A session is one HTTP request on its way through a handler. The request *)
(* and the first read of its handler are one action: nothing is shared     *)
(* before that read, and a request refused there leaves no trace.          *)
(***************************************************************************)
EXTENDS Inventory

CONSTANTS
    Orders,       \* transfer order ids
    Quantities    \* the quantities a request may carry

ASSUME QuantitiesAssumption == Quantities \subseteq Nat \ {0}
ASSUME OrdersAssumption == IsFiniteSet(Orders)

VARIABLES
    order,    \* order[o]: the committed transfer_orders row, or Nil
    ledger,   \* ledger[o]: the committed rows that refer to order o, as sums
    pc,       \* pc[c]: the statement session c executes next
    target,   \* target[c]: the order its request names, or Nil
    amount,   \* amount[c]: the quantity a receive request carries, or 0
    seen,     \* seen[c]: the order as the session last read or built it
    draft,    \* draft[c]: the version of its order that its open transaction
              \* wrote (it then holds the row's lock), or Nil
    work      \* work[c]: the rows its open transaction inserted, as sums

vars == <<inv, wrote, order, ledger, pc, target, amount, seen, draft, work>>

OrderRow ==
    [from : Stores, to : Stores, qty : Nat, received : Nat, status : TransferStatuses]

(***************************************************************************)
(* The rows about one order: out is what the from-store's rows were        *)
(* charged (the program writes no record of it: a history variable), in    *)
(* and back are the transfer_in stock records at the to-store and at the   *)
(* from-store, receipts the transfer_receipts.                             *)
(***************************************************************************)
Sums == [out : Nat, in : Nat, back : Nat, receipts : Nat]
NoSums == [out |-> 0, in |-> 0, back |-> 0, receipts |-> 0]

ASSUME NilOrderAssumption == Nil \notin Orders /\ Nil \notin OrderRow

CommitLabels == {"confirm.commit", "ship.commit", "receive.commit", "cancel.commit"}
ReloadLabels == {"receive.reload", "cancel.reload"}
Labels ==
    {"idle", "create.insert", "confirm.transition",
     "ship.check", "ship.read", "ship.deduct", "ship.transition",
     "receive.reread", "receive.add", "receive.ensure", "receive.insert",
     "receive.read", "receive.adjust", "receive.receipt",
     "cancel.reread", "cancel.transition", "cancel.read", "cancel.adjust"}
    \cup CommitLabels \cup ReloadLabels

TypeOK ==
    /\ InvTypeOK
    /\ order \in [Orders -> OrderRow \cup {Nil}]
    /\ ledger \in [Orders -> Sums]
    /\ pc \in [Sessions -> Labels]
    /\ target \in [Sessions -> Orders \cup {Nil}]
    /\ amount \in [Sessions -> Nat]
    /\ seen \in [Sessions -> OrderRow \cup {Nil}]
    /\ draft \in [Sessions -> OrderRow \cup {Nil}]
    /\ work \in [Sessions -> Sums]

Init ==
    /\ InvInit
    /\ order = [o \in Orders |-> Nil]
    /\ ledger = [o \in Orders |-> NoSums]
    /\ pc = [c \in Sessions |-> "idle"]
    /\ target = [c \in Sessions |-> Nil]
    /\ amount = [c \in Sessions |-> 0]
    /\ seen = [c \in Sessions |-> Nil]
    /\ draft = [c \in Sessions |-> Nil]
    /\ work = [c \in Sessions |-> NoSums]

-----------------------------------------------------------------------------
\* Sessions

Goto(c, label) == pc' = [pc EXCEPT ![c] = label]

\* The handler returns; what its transaction left uncommitted is gone.
EndRequest(c) ==
    /\ Goto(c, "idle")
    /\ target' = [target EXCEPT ![c] = Nil]
    /\ amount' = [amount EXCEPT ![c] = 0]
    /\ seen' = [seen EXCEPT ![c] = Nil]
    /\ draft' = [draft EXCEPT ![c] = Nil]
    /\ work' = [work EXCEPT ![c] = NoSums]

\* The handler returns its error and leaves the transaction open.
BugRollback(c) ==
    /\ EndRequest(c)
    /\ UNCHANGED <<inv, wrote, order, ledger>>

\* The callback of db.Transaction returns an error: ROLLBACK, error response.
Rollback(c) ==
    /\ EndRequest(c)
    /\ RollbackRows(c)
    /\ UNCHANGED <<order, ledger>>

\* Any statement, COMMIT included, may fail for a reason of its own: a lost
\* connection, an error of the server, the end of the process.
Fail(c) == pc[c] # "idle" /\ Rollback(c)

\* A step that moves the session's program on and reads at most.
Proceed(c, label) ==
    /\ Goto(c, label)
    /\ UNCHANGED <<inv, wrote, order, ledger, target, amount, seen, draft, work>>

\* A check: go on to label if it holds, fail the request if it does not.
Check(c, condition, label) ==
    \/ condition /\ Proceed(c, label)
    \/ ~condition /\ Rollback(c)

\* A request that names order o arrives and its handler reads the order. The
\* condition on what it read is the handler's; a refusal changes nothing.
FindByID(c, o, q, condition, label) ==
    /\ pc[c] = "idle"
    /\ order[o] # Nil
    /\ condition
    /\ Goto(c, label)
    /\ target' = [target EXCEPT ![c] = o]
    /\ amount' = [amount EXCEPT ![c] = q]
    /\ seen' = [seen EXCEPT ![c] = order[o]]
    /\ UNCHANGED <<inv, wrote, order, ledger, draft, work>>

\* FindByIDTx: the transaction reads its order afresh and checks it.
Reread(c, condition, label) ==
    \/ /\ condition
       /\ seen' = [seen EXCEPT ![c] = order[target[c]]]
       /\ Goto(c, label)
       /\ UNCHANGED <<inv, wrote, order, ledger, target, amount, draft, work>>
    \/ ~condition /\ Rollback(c)

-----------------------------------------------------------------------------
\* transfer_order_repository.go

\* No other open transaction has written order o.
OrderFree(c, o) == \A d \in Sessions \ {c} : target[d] = o => draft[d] = Nil

\* UPDATE ... SET the row's new version WHERE id = o AND condition. A row the
\* condition excludes is not waited for; no row affected is ErrConflict.
UpdateOrder(c, condition, row, label) ==
    \/ /\ condition
       /\ OrderFree(c, target[c])
       /\ draft' = [draft EXCEPT ![c] = row]
       /\ Goto(c, label)
       /\ UNCHANGED <<inv, wrote, order, ledger, target, amount, seen, work>>
    \/ ~condition /\ Rollback(c)

\* The UPDATE selects by id alone.
BugStatusUnchanged(c) == TRUE

\* The row still has the status the session read, the from of the call.
StatusUnchanged(c) == order[target[c]].status = seen[c].status

\* Every column is saved as the session read it.
BugTransitionSaves(c, to, label) ==
    UpdateOrder(c, StatusUnchanged(c), [seen[c] EXCEPT !.status = to], label)

TransitionStatusTx(c, to, label) ==
    UpdateOrder(c, StatusUnchanged(c), [order[target[c]] EXCEPT !.status = to], label)

\* The status alone is checked; the remaining quantity alone is checked.
BugReceivableOver(c) == order[target[c]].status = "shipped"

BugReceivableLate(c) == order[target[c]].received + amount[c] <= order[target[c]].qty

\* The row can take the quantity of the session's receive request.
Receivable(c) ==
    /\ order[target[c]].status = "shipped"
    /\ order[target[c]].received + amount[c] <= order[target[c]].qty

\* The row's new version: full is received.
AddReceived(row, q) ==
    [row EXCEPT !.received = @ + q,
                !.status = IF row.received + q >= row.qty THEN "received" ELSE "shipped"]

AddReceivedQuantityTx(c, label) ==
    UpdateOrder(c, Receivable(c), AddReceived(order[target[c]], amount[c]), label)

\* The UPDATE of store_inventory_repository.AdjustQuantityTx and, in the same
\* step, the record that goes with it; no row affected is ErrNotFound.
MoveStock(c, s, delta, sums, label) ==
    \/ /\ Adjusted(c, s, delta) # {}
       /\ AdjustRows(c, s, delta)
       /\ work' = [work EXCEPT ![c] = sums]
       /\ Goto(c, label)
       /\ UNCHANGED <<order, ledger, target, amount, seen, draft>>
    \/ Adjusted(c, s, delta) = {} /\ Rollback(c)

-----------------------------------------------------------------------------
\* Create

\* Validation, CheckSufficient outside any transaction, the order struct. The
\* id is the one the INSERT's sequence will hand out.
Create(c, o, from, to, q) ==
    /\ pc[c] = "idle"
    /\ order[o] = Nil
    /\ \A d \in Sessions : pc[d] = "create.insert" => target[d] # o
    /\ from # to
    /\ CheckSufficient(c, from, q)
    /\ Goto(c, "create.insert")
    /\ target' = [target EXCEPT ![c] = o]
    /\ seen' = [seen EXCEPT ![c] = [from |-> from, to |-> to, qty |-> q,
                                    received |-> 0, status |-> "pending"]]
    /\ UNCHANGED <<inv, wrote, order, ledger, amount, draft, work>>

\* INSERT INTO transfer_orders, committed by itself.
CreateInsert(c) ==
    /\ pc[c] = "create.insert"
    /\ order' = [order EXCEPT ![target[c]] = seen[c]]
    /\ EndRequest(c)
    /\ UNCHANGED <<inv, wrote, ledger>>

\* Confirm

Confirm(c, o) ==
    FindByID(c, o, 0, CanTransfer(order[o].status, "confirmed"), "confirm.transition")

ConfirmTransition(c) ==
    /\ pc[c] = "confirm.transition"
    /\ TransitionStatusTx(c, "confirmed", "confirm.commit")

\* Ship

Ship(c, o) ==
    FindByID(c, o, 0, CanTransfer(order[o].status, "shipped"), "ship.check")

ShipCheck(c) ==
    /\ pc[c] = "ship.check"
    /\ Check(c, CheckSufficient(c, seen[c].from, seen[c].qty), "ship.read")

ShipRead(c) ==
    /\ pc[c] = "ship.read"
    /\ Check(c, AdjustAllowed(c, seen[c].from, -seen[c].qty), "ship.deduct")

\* The stock goes before the order's status is claimed.
ShipDeduct(c) ==
    /\ pc[c] = "ship.deduct"
    /\ MoveStock(c, seen[c].from, -seen[c].qty,
                 [work[c] EXCEPT !.out = @ + seen[c].qty], "ship.transition")

ShipTransition(c) ==
    /\ pc[c] = "ship.transition"
    /\ TransitionStatusTx(c, "shipped", "ship.commit")

-----------------------------------------------------------------------------
\* Receive

Receive(c, o, q) ==
    FindByID(c, o, q,
             order[o].status = "shipped" /\ q <= order[o].qty - order[o].received,
             "receive.reread")

ReceiveReread(c) ==
    /\ pc[c] = "receive.reread"
    /\ Reread(c, Receivable(c), "receive.add")

ReceiveAdd(c) ==
    /\ pc[c] = "receive.add"
    /\ AddReceivedQuantityTx(c, "receive.ensure")

\* EnsureTx: find the to-store's row, and only then insert one.
ReceiveEnsure(c) ==
    /\ pc[c] = "receive.ensure"
    /\ Proceed(c, IF RowsOf(c, seen[c].to) = {} THEN "receive.insert" ELSE "receive.read")

ReceiveInsert(c) ==
    /\ pc[c] = "receive.insert"
    /\ InsertRow(c, seen[c].to, 0)
    /\ Goto(c, "receive.read")
    /\ UNCHANGED <<order, ledger, target, amount, seen, draft, work>>

ReceiveRead(c) ==
    /\ pc[c] = "receive.read"
    /\ Check(c, AdjustAllowed(c, seen[c].to, StockDirection("transfer_in") * amount[c]),
             "receive.adjust")

ReceiveAdjust(c) ==
    /\ pc[c] = "receive.adjust"
    /\ MoveStock(c, seen[c].to, StockDirection("transfer_in") * amount[c],
                 [work[c] EXCEPT !.in = @ + amount[c]], "receive.receipt")

ReceiveReceipt(c) ==
    /\ pc[c] = "receive.receipt"
    /\ work' = [work EXCEPT ![c] = [work[c] EXCEPT !.receipts = @ + amount[c]]]
    /\ Goto(c, "receive.commit")
    /\ UNCHANGED <<inv, wrote, order, ledger, target, amount, seen, draft>>

-----------------------------------------------------------------------------
\* Cancel

Cancel(c, o) ==
    FindByID(c, o, 0, CanTransfer(order[o].status, "cancelled"), "cancel.reread")

CancelReread(c) ==
    /\ pc[c] = "cancel.reread"
    /\ Reread(c, CanTransfer(order[target[c]].status, "cancelled"), "cancel.transition")

\* The part that was received goes back.
BugReturnQty(c) == IF seen[c].status = "shipped" THEN seen[c].received ELSE 0

\* What goes back to the from-store, from the row read before the claim.
ReturnQty(c) == IF seen[c].status = "shipped" THEN seen[c].qty - seen[c].received ELSE 0

CancelTransition(c) ==
    /\ pc[c] = "cancel.transition"
    /\ TransitionStatusTx(c, "cancelled",
                          IF ReturnQty(c) > 0 THEN "cancel.read" ELSE "cancel.commit")

CancelRead(c) ==
    /\ pc[c] = "cancel.read"
    /\ Check(c, AdjustAllowed(c, seen[c].from, StockDirection("transfer_in") * ReturnQty(c)),
             "cancel.adjust")

CancelAdjust(c) ==
    /\ pc[c] = "cancel.adjust"
    /\ MoveStock(c, seen[c].from, StockDirection("transfer_in") * ReturnQty(c),
                 [work[c] EXCEPT !.back = @ + ReturnQty(c)], "cancel.commit")

-----------------------------------------------------------------------------
\* COMMIT: the transaction's writes become visible and its locks are free.
\* Receive and Cancel read the order once more for their response.
AddSums(a, b) == [out |-> a.out + b.out, in |-> a.in + b.in,
                  back |-> a.back + b.back, receipts |-> a.receipts + b.receipts]

Publish(c) ==
    /\ order' = [order EXCEPT ![target[c]] = draft[c]]
    /\ ledger' = [ledger EXCEPT ![target[c]] = AddSums(@, work[c])]
    /\ CommitRows(c)

Commit(c) ==
    /\ pc[c] \in {"confirm.commit", "ship.commit"}
    /\ Publish(c)
    /\ EndRequest(c)

CommitThenReload(c) ==
    /\ pc[c] \in {"receive.commit", "cancel.commit"}
    /\ Publish(c)
    /\ Goto(c, IF pc[c] = "receive.commit" THEN "receive.reload" ELSE "cancel.reload")
    /\ draft' = [draft EXCEPT ![c] = Nil]
    /\ work' = [work EXCEPT ![c] = NoSums]
    /\ UNCHANGED <<target, amount, seen>>

\* The response carries order[target[c]].
Reload(c) ==
    /\ pc[c] \in ReloadLabels
    /\ EndRequest(c)
    /\ UNCHANGED <<inv, wrote, order, ledger>>

-----------------------------------------------------------------------------
Request(c) ==
    \E o \in Orders :
        \/ \E from, to \in Stores, q \in Quantities : Create(c, o, from, to, q)
        \/ Confirm(c, o)
        \/ Ship(c, o)
        \/ \E q \in Quantities : Receive(c, o, q)
        \/ Cancel(c, o)

\* The session's next statement.
Step(c) ==
    \/ CreateInsert(c)
    \/ ConfirmTransition(c)
    \/ ShipCheck(c) \/ ShipRead(c) \/ ShipDeduct(c) \/ ShipTransition(c)
    \/ ReceiveReread(c) \/ ReceiveAdd(c) \/ ReceiveEnsure(c) \/ ReceiveInsert(c)
    \/ ReceiveRead(c) \/ ReceiveAdjust(c) \/ ReceiveReceipt(c)
    \/ CancelReread(c) \/ CancelTransition(c) \/ CancelRead(c) \/ CancelAdjust(c)
    \/ Commit(c) \/ CommitThenReload(c) \/ Reload(c)

Next == \E c \in Sessions : Request(c) \/ Step(c) \/ Fail(c)

Spec == Init /\ [][Next]_vars

(***************************************************************************)
(* A goroutine runs on, and PostgreSQL hands a row lock to the waiting     *)
(* transactions in turn: strong fairness of each session's own steps.      *)
(* Nothing makes clients send requests, and nothing makes statements fail. *)
(***************************************************************************)
FairSpec == Spec /\ \A c \in Sessions : SF_vars(Step(c))
=============================================================================
