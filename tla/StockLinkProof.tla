---------------------------- MODULE StockLinkProof ----------------------------
(***************************************************************************)
(* What the services do to the rows of store_inventories and to each       *)
(* other's requests, for every number of sessions, stores, orders and rows:*)
(* who holds which row, that nobody waits in a circle, and that the stock  *)
(* is what the documents say.                                              *)
(*                                                                         *)
(* A session knows of its rows what its statement implies (TransferRows,   *)
(* OpRows), and a step of another session never takes that away (RowStep). *)
(* So one lemma per statement serves the transfer service alone, the stock *)
(* services alone, and both over one table.                                *)
(***************************************************************************)
EXTENDS StockLink, TransfersProof

USE OpsAssumption, NilInvAssumption

-----------------------------------------------------------------------------
\* The rows of a transfer request.

\* The labels at which the session's transaction may hold inventory rows.
Holding ==
    {"ship.transition", "ship.commit", "receive.read", "receive.adjust",
     "receive.receipt", "receive.commit", "cancel.commit"}

\* What session c holds, and that a row Receive inserted is its own until then.
LocksKnown(c) ==
    /\ pc[c] \notin Holding => \A k \in InvKeys : wrote[c][k] = Nil
    /\ pc[c] \in {"receive.read", "receive.adjust"} =>
          \A k \in InvKeys : wrote[c][k] # Nil => inv[k] = Nil
    /\ pc[c] \in {"cancel.read", "cancel.adjust"} => seen[c].status = "shipped"

\* What the transaction is about to add to store s, by its own records.
Recorded(c, s) ==
    (IF seen[c].from = s THEN work[c].back - work[c].out ELSE 0)
    + (IF seen[c].to = s THEN work[c].in ELSE 0)

\* It is what its uncommitted rows add, as long as no store shows two rows.
CarriesKnown(c) ==
    Single(c) => \A s \in Stores :
        Carried(c, s) = IF pc[c] \in Holding THEN Recorded(c, s) ELSE 0

TransferRows(c) == LocksKnown(c) /\ CarriesKnown(c)

\* Other sessions take nothing of it away.
LEMMA TransferRowsFrame ==
    ASSUME InventoryInv, NEW c \in Sessions, NEW d \in Sessions \ {c}, RowStep(c),
           pc'[d] = pc[d], seen'[d] = seen[d], work'[d] = work[d], TransferRows(d)
    PROVE  TransferRows(d)'
<1>1. wrote'[d] = wrote[d] /\ \A k \in InvKeys : wrote[d][k] # Nil => inv'[k] = inv[k]
  BY DEF RowStep
<1>2. LocksKnown(d)'
  BY <1>1 DEF TransferRows, LocksKnown
<1>3. CarriesKnown(d)'
  <2> SUFFICES ASSUME Single(d)', NEW s \in Stores
               PROVE  Carried(d, s)' = IF pc'[d] \in Holding THEN Recorded(d, s)' ELSE 0
    BY DEF CarriesKnown
  <2>1. Single(d)
    BY SingleBefore
  <2>2. Carried(d, s)' = Carried(d, s) /\ Recorded(d, s)' = Recorded(d, s)
    BY <1>1, CarriedSame DEF Recorded
  <2> QED BY <2>1, <2>2 DEF TransferRows, CarriesKnown
<1> QED BY <1>2, <1>3 DEF TransferRows

\* Without rows there is nothing to carry.
LEMMA NothingCarried ==
    ASSUME NEW c \in Sessions, \A k \in InvKeys : wrote'[c][k] = Nil,
           pc'[c] \in Holding => work'[c].out = 0 /\ work'[c].in = 0 /\ work'[c].back = 0
    PROVE  CarriesKnown(c)'
<1>1. pc'[c] \in Holding => \A s \in Stores : Recorded(c, s)' = 0
  BY DEF Recorded
<1> QED BY <1>1, CarriedNone DEF CarriesKnown

\* A step to a label at which no rows are held.
LEMMA Dropped ==
    ASSUME NEW c \in Sessions, LocksKnown(c)', pc'[c] \notin Holding
    PROVE  TransferRows(c)'
BY NothingCarried DEF LocksKnown, TransferRows

\* A step that writes no rows and records no movement.
LEMMA QuietStep ==
    ASSUME InventoryInv, NEW c \in Sessions, TransferRows(c), UNCHANGED <<inv, wrote>>,
           LocksKnown(c)', pc[c] \in Holding, seen'[c] = seen[c],
           work'[c].out = work[c].out, work'[c].in = work[c].in, work'[c].back = work[c].back
    PROVE  RowStep(c) /\ TransferRows(c)'
<1>1. RowStep(c)
  BY QuietRows
<1>2. CASE pc'[c] \notin Holding
  BY <1>1, <1>2, Dropped
<1>3. CASE pc'[c] \in Holding
  <2>1. \A s \in Stores : Carried(c, s)' = Carried(c, s) /\ Recorded(c, s)' = Recorded(c, s)
    BY CarriedSame DEF Recorded
  <2>2. Single(c)' => Single(c)
    BY DEF Single, View
  <2>3. CarriesKnown(c)'
    BY <1>3, <2>1, <2>2 DEF TransferRows, CarriesKnown
  <2> QED BY <1>1, <2>3 DEF TransferRows
<1> QED BY <1>2, <1>3

\* A transaction ends, and with it the request or all but its last read.
LEMMA TransactionEnds ==
    ASSUME InventoryInv, NEW c \in Sessions, CommitRows(c) \/ RollbackRows(c),
           pc'[c] \in {"idle", "receive.reload", "cancel.reload"}
    PROVE  RowStep(c) /\ TransferRows(c)'
<1>1. RowStep(c) /\ \A k \in InvKeys : wrote'[c][k] = Nil
  BY EndResult DEF NoWrites
<1>2. LocksKnown(c)' /\ pc'[c] \notin Holding
  BY <1>1 DEF LocksKnown, Holding
<1> QED BY <1>1, <1>2, Dropped

LEMMA RollbackRowsKnown ==
    ASSUME TypeOK, InventoryInv, NEW c \in Sessions, Rollback(c)
    PROVE  RowStep(c) /\ TransferRows(c)'
<1>1. pc'[c] = "idle"
  BY DEF Rollback, EndRequest, Goto, TypeOK
<1> QED BY <1>1, TransactionEnds DEF Rollback

\* Stock moves: one row changes by the amount that the session records.
LEMMA MoveRowsKnown ==
    ASSUME TypeOK, InventoryInv, NEW c \in Sessions, TransferRows(c),
           NEW s \in Stores, NEW n \in Int, NEW sums,
           NEW label \in {"ship.transition", "receive.receipt", "cancel.commit"},
           MoveStock(c, s, n, sums, label),
           pc[c] \notin Holding => work[c].out = 0 /\ work[c].in = 0 /\ work[c].back = 0,
           ~Rollback(c) => \A t \in Stores :
                              Recorded(c, t)' = Recorded(c, t) + IF t = s THEN n ELSE 0
    PROVE  RowStep(c) /\ TransferRows(c)'
<1>1. CASE Rollback(c)
  BY <1>1, RollbackRowsKnown
<1>2. CASE ~Rollback(c)
  <2>1. /\ Adjusted(c, s, n) # {} /\ AdjustRows(c, s, n) /\ pc'[c] = label
    BY <1>2 DEF MoveStock, Goto, TypeOK
  <2>2. /\ RowStep(c) /\ inv' = inv
        /\ \A k \in InvKeys :
              wrote'[c][k] = wrote[c][k] \/ (View(c, k) # Nil /\ wrote'[c][k] \in InvRow)
    BY <2>1, AdjustResult
  <2>3. LocksKnown(c)'
    BY <2>1 DEF LocksKnown, Holding
  <2>4. CarriesKnown(c)'
    <3> SUFFICES ASSUME Single(c)', NEW t \in Stores
                 PROVE  Carried(c, t)' = Recorded(c, t)'
      BY <2>1 DEF CarriesKnown, Holding
    <3>1. Single(c)
      BY <2>2, SingleBefore, NilInvAssumption
    <3>2. Carried(c, t)' = Carried(c, t) + IF t = s THEN n ELSE 0
      BY <2>1, <3>1, AdjustCarries
    <3>3. Carried(c, t) = Recorded(c, t)
      <4>1. pc[c] \notin Holding => Recorded(c, t) = 0
        BY DEF Recorded
      <4> QED BY <3>1, <4>1 DEF TransferRows, CarriesKnown
    <3>4. Recorded(c, t)' = Recorded(c, t) + IF t = s THEN n ELSE 0
      BY <1>2
    <3> QED BY <3>2, <3>3, <3>4
  <2> QED BY <2>2, <2>3, <2>4 DEF TransferRows
<1> QED BY <1>1, <1>2

\* What the session read, and what it has recorded, as numbers.
LEMMA SeenFacts ==
    ASSUME IInv, NEW c \in Sessions, pc[c] \in CreatedLabels
    PROVE  /\ target[c] \in Orders /\ order[target[c]] \in OrderRow /\ order[target[c]] # Nil
           /\ seen[c] \in OrderRow /\ seen[c].from \in Stores /\ seen[c].to \in Stores
           /\ seen[c].from = order[target[c]].from /\ seen[c].to = order[target[c]].to
           /\ seen[c].qty \in Nat /\ amount[c] \in Nat /\ ReturnQty(c) \in Nat
<1>1. /\ target[c] \in Orders /\ order[target[c]] \in OrderRow /\ seen[c] \in OrderRow
      /\ seen[c].from = order[target[c]].from /\ seen[c].to = order[target[c]].to
      /\ seen[c].received <= seen[c].qty /\ amount[c] \in Nat
  BY DEF IInv, TypeOK, SessionInv, SeenIsPast
<1>2. /\ seen[c].from \in Stores /\ seen[c].to \in Stores
      /\ seen[c].qty \in Nat /\ seen[c].received \in Nat
  BY <1>1 DEF OrderRow
<1>3. ReturnQty(c) \in Nat
  BY <1>1, <1>2 DEF ReturnQty
<1> QED BY <1>1, <1>2, <1>3, NilFacts

LEMMA ReceiveWork ==
    ASSUME IInv, NEW c \in Sessions, pc[c] \in ReceiveDraftLabels
    PROVE  /\ work[c].out = 0 /\ work[c].back = 0
           /\ work[c].in = IF pc[c] \in {"receive.receipt", "receive.commit"}
                           THEN amount[c] ELSE 0
<1>1. ReceiveKnows(c)
  BY DEF IInv, SessionInv
<1>2. work[c] = [out |-> 0, back |-> 0,
                 in |-> IF pc[c] \in {"receive.receipt", "receive.commit"}
                        THEN amount[c] ELSE 0,
                 receipts |-> IF pc[c] = "receive.commit" THEN amount[c] ELSE 0]
  BY <1>1 DEF ReceiveKnows
<1> QED BY <1>2

\* A session that has written no rows yet goes on, and writes none.
LEMMA NoRowsYet ==
    ASSUME InventoryInv, NEW c \in Sessions, TransferRows(c), UNCHANGED <<inv, wrote>>,
           pc[c] \notin Holding,
           pc'[c] \in {"cancel.read", "cancel.adjust"} => seen'[c].status = "shipped",
           pc'[c] \in Holding => work'[c].out = 0 /\ work'[c].in = 0 /\ work'[c].back = 0
    PROVE  RowStep(c) /\ TransferRows(c)'
<1>1. \A k \in InvKeys : wrote[c][k] = Nil
  BY DEF TransferRows, LocksKnown
<1>2. LocksKnown(c)'
  BY <1>1 DEF LocksKnown
<1> QED BY <1>1, <1>2, QuietRows, NothingCarried DEF TransferRows

LEMMA RequestRows ==
    ASSUME TypeOK, InventoryInv, NEW c \in Sessions, TransferRows(c), Request(c)
    PROVE  RowStep(c) /\ TransferRows(c)'
<1>1. /\ pc[c] = "idle" /\ UNCHANGED <<inv, wrote>>
      /\ pc'[c] \in {"create.insert", "confirm.transition", "ship.check",
                     "receive.reread", "cancel.reread"}
  BY DEF Request, Create, Confirm, Ship, Receive, Cancel, FindByID, Goto, TypeOK
<1> QED BY <1>1, NoRowsYet DEF Holding

\* The statements before a request's first movement of stock.
LEMMA EarlyRows ==
    ASSUME IInv, InventoryInv, NEW c \in Sessions, TransferRows(c),
           \/ ShipCheck(c) \/ ShipRead(c) \/ ReceiveReread(c) \/ ReceiveAdd(c)
           \/ ReceiveEnsure(c) \/ CancelReread(c) \/ CancelTransition(c) \/ CancelRead(c)
           \/ ConfirmTransition(c) \/ CreateInsert(c) \/ Reload(c)
    PROVE  RowStep(c) /\ TransferRows(c)'
<1>0. TypeOK
  BY DEF IInv
<1>1. CASE Rollback(c)
  BY <1>0, <1>1, RollbackRowsKnown
<1>2. CASE ~Rollback(c)
  <2>1. CASE ShipCheck(c) \/ ShipRead(c) \/ ReceiveReread(c) \/ ReceiveAdd(c)
             \/ CancelReread(c) \/ ConfirmTransition(c)
    <3>1. /\ pc[c] \in {"ship.check", "ship.read", "receive.reread", "receive.add",
                        "cancel.reread", "confirm.transition"}
          /\ pc'[c] \in {"ship.read", "ship.deduct", "receive.add", "receive.ensure",
                         "cancel.transition", "confirm.commit"}
          /\ UNCHANGED <<inv, wrote>>
      BY <1>0, <1>2, <2>1 DEF ShipCheck, ShipRead, ReceiveReread, ReceiveAdd, CancelReread,
         ConfirmTransition, TransitionStatusTx, AddReceivedQuantityTx, UpdateOrder,
         Check, Proceed, Reread, Goto, TypeOK
    <3> QED BY <3>1, NoRowsYet DEF Holding
  <2>2. CASE CreateInsert(c) \/ Reload(c)
    <3>1. /\ pc[c] \in {"create.insert"} \cup ReloadLabels /\ pc'[c] = "idle"
          /\ UNCHANGED <<inv, wrote>>
      BY <1>0, <2>2 DEF CreateInsert, Reload, EndRequest, Goto, TypeOK
    <3> QED BY <3>1, NoRowsYet DEF Holding, ReloadLabels
  <2>3. CASE ReceiveEnsure(c)
    <3>1. /\ pc[c] = "receive.ensure" /\ pc'[c] \in {"receive.insert", "receive.read"}
          /\ UNCHANGED <<inv, wrote, work>>
      BY <1>0, <2>3 DEF ReceiveEnsure, Proceed, Goto, TypeOK
    <3>2. work[c].out = 0 /\ work[c].in = 0 /\ work[c].back = 0
      BY <3>1, ReceiveWork DEF ReceiveDraftLabels
    <3> QED BY <3>1, <3>2, NoRowsYet DEF Holding
  <2>4. CASE CancelTransition(c)
    <3>1. /\ pc[c] = "cancel.transition" /\ UNCHANGED <<inv, wrote, work, seen>>
          /\ pc'[c] = IF ReturnQty(c) > 0 THEN "cancel.read" ELSE "cancel.commit"
      BY <1>0, <1>2, <2>4 DEF CancelTransition, TransitionStatusTx, UpdateOrder, Goto, TypeOK
    <3>2. pc'[c] = "cancel.read" => seen[c].status = "shipped"
      BY <3>1 DEF ReturnQty
    <3>3. work[c] = NoSums
      BY <3>1 DEF IInv, SessionInv, NoDraft, DraftLabels, CommitLabels
    <3> QED BY <3>1, <3>2, <3>3, NoRowsYet DEF Holding, NoSums
  <2>5. CASE CancelRead(c)
    <3>1. /\ pc[c] = "cancel.read" /\ pc'[c] = "cancel.adjust"
          /\ UNCHANGED <<inv, wrote, seen>>
      BY <1>0, <1>2, <2>5 DEF CancelRead, Check, Proceed, Goto, TypeOK
    <3> QED BY <3>1, NoRowsYet DEF Holding, TransferRows, LocksKnown
  <2> QED BY <2>1, <2>2, <2>3, <2>4, <2>5
<1> QED BY <1>1, <1>2

\* EnsureTx inserts an empty row: nothing is carried yet.
LEMMA InsertRows ==
    ASSUME IInv, InventoryInv, NEW c \in Sessions, TransferRows(c), ReceiveInsert(c)
    PROVE  RowStep(c) /\ TransferRows(c)'
<1>1. /\ pc[c] = "receive.insert" /\ pc'[c] = "receive.read"
      /\ InsertRow(c, seen[c].to, 0) /\ UNCHANGED <<seen, work>>
  BY DEF ReceiveInsert, Goto, IInv, TypeOK
<1>2. seen[c].to \in Stores /\ work[c].out = 0 /\ work[c].in = 0 /\ work[c].back = 0
  BY <1>1, SeenFacts, ReceiveWork DEF ReceiveDraftLabels, CreatedLabels, Labels
<1>3. \A k \in InvKeys : wrote[c][k] = Nil
  BY <1>1 DEF TransferRows, LocksKnown, Holding
<1>4. /\ RowStep(c) /\ inv' = inv
      /\ \E new \in InvKeys :
            inv[new] = Nil /\ \A k \in InvKeys : k # new => wrote'[c][k] = wrote[c][k]
  BY <1>1, <1>2, InsertResult
<1>5. LocksKnown(c)'
  BY <1>1, <1>3, <1>4 DEF LocksKnown, Holding
<1>6. ASSUME NEW s \in Stores PROVE Carried(c, s)' = 0 /\ Recorded(c, s)' = 0
  <2>1. Carried(c, s)' = Carried(c, s) /\ Carried(c, s) = 0
    BY <1>1, <1>2, <1>3, InsertCarries, CarriedNone
  <2> QED BY <1>1, <1>2, <2>1 DEF Recorded
<1> QED BY <1>4, <1>5, <1>6 DEF TransferRows, CarriesKnown

\* The three movements of stock.
LEMMA MoveRows ==
    ASSUME IInv, InventoryInv, NEW c \in Sessions, TransferRows(c),
           ShipDeduct(c) \/ ReceiveAdjust(c) \/ CancelAdjust(c)
    PROVE  RowStep(c) /\ TransferRows(c)'
<1>1. /\ TypeOK /\ StockDirection("transfer_in") = 1
      /\ pc[c] \in {"ship.deduct", "receive.adjust", "cancel.adjust"}
  BY DEF IInv, StockDirection, ShipDeduct, ReceiveAdjust, CancelAdjust
<1>2. /\ seen[c].from \in Stores /\ seen[c].to \in Stores
      /\ seen[c].qty \in Nat /\ amount[c] \in Nat /\ ReturnQty(c) \in Nat
  BY <1>1, SeenFacts DEF CreatedLabels, Labels
<1>3. work[c] \in Sums /\ work[c].out = 0 /\ work[c].in = 0 /\ work[c].back = 0
  <2>1. pc[c] = "ship.deduct" => work[c] = NoSums
    BY DEF IInv, SessionInv, NoDraft, DraftLabels, CommitLabels
  <2>2. pc[c] = "cancel.adjust" => work[c] = NoSums
    <3>1. CancelKnows(c)
      BY DEF IInv, SessionInv
    <3> QED BY <3>1 DEF CancelKnows, CancelDraftLabels, NoSums
  <2>3. pc[c] = "receive.adjust" => work[c].out = 0 /\ work[c].in = 0 /\ work[c].back = 0
    BY ReceiveWork DEF ReceiveDraftLabels
  <2> QED BY <1>1, <2>1, <2>2, <2>3 DEF NoSums, TypeOK
<1>4. CASE ShipDeduct(c)
  <2>1. -seen[c].qty \in Int
    BY <1>2
  <2>2. MoveStock(c, seen[c].from, -seen[c].qty,
                  [work[c] EXCEPT !.out = @ + seen[c].qty], "ship.transition")
    BY <1>4 DEF ShipDeduct
  <2>3. ASSUME ~Rollback(c), NEW t \in Stores
        PROVE  Recorded(c, t)' = Recorded(c, t) + IF t = seen[c].from THEN -seen[c].qty ELSE 0
    <3>1. /\ seen' = seen /\ work'[c].out = seen[c].qty /\ work'[c].in = 0 /\ work'[c].back = 0
      BY <1>1, <1>2, <1>3, <2>2, <2>3 DEF MoveStock, TypeOK, Sums
    <3> QED BY <1>2, <1>3, <3>1 DEF Recorded
  <2> QED BY <1>1, <1>2, <1>3, <2>1, <2>2, <2>3, MoveRowsKnown
<1>5. CASE ReceiveAdjust(c)
  <2>1. amount[c] \in Int /\ 1 * amount[c] = amount[c]
    BY <1>2
  <2>2. MoveStock(c, seen[c].to, amount[c],
                  [work[c] EXCEPT !.in = @ + amount[c]], "receive.receipt")
    BY <1>1, <1>5, <2>1 DEF ReceiveAdjust
  <2>3. ASSUME ~Rollback(c), NEW t \in Stores
        PROVE  Recorded(c, t)' = Recorded(c, t) + IF t = seen[c].to THEN amount[c] ELSE 0
    <3>1. /\ seen' = seen /\ work'[c].out = 0 /\ work'[c].in = amount[c] /\ work'[c].back = 0
      BY <1>1, <1>2, <1>3, <2>2, <2>3 DEF MoveStock, TypeOK, Sums
    <3> QED BY <1>2, <1>3, <3>1 DEF Recorded
  <2> QED BY <1>1, <1>2, <1>3, <2>1, <2>2, <2>3, MoveRowsKnown
<1>6. CASE CancelAdjust(c)
  <2>1. ReturnQty(c) \in Int /\ 1 * ReturnQty(c) = ReturnQty(c)
    BY <1>2
  <2>2. MoveStock(c, seen[c].from, ReturnQty(c),
                  [work[c] EXCEPT !.back = @ + ReturnQty(c)], "cancel.commit")
    BY <1>1, <1>6, <2>1 DEF CancelAdjust
  <2>3. ASSUME ~Rollback(c), NEW t \in Stores
        PROVE  Recorded(c, t)' = Recorded(c, t) + IF t = seen[c].from THEN ReturnQty(c) ELSE 0
    <3>1. /\ seen' = seen /\ work'[c].out = 0 /\ work'[c].in = 0 /\ work'[c].back = ReturnQty(c)
      BY <1>1, <1>2, <1>3, <2>2, <2>3 DEF MoveStock, TypeOK, Sums
    <3> QED BY <1>2, <1>3, <3>1 DEF Recorded
  <2> QED BY <1>1, <1>2, <1>3, <2>1, <2>2, <2>3, MoveRowsKnown
<1> QED BY <1>4, <1>5, <1>6

\* The statements after it that write no rows.
LEMMA LateRows ==
    ASSUME IInv, InventoryInv, NEW c \in Sessions, TransferRows(c),
           ReceiveRead(c) \/ ReceiveReceipt(c) \/ ShipTransition(c)
    PROVE  RowStep(c) /\ TransferRows(c)'
<1>0. TypeOK
  BY DEF IInv
<1>1. CASE Rollback(c)
  BY <1>0, <1>1, RollbackRowsKnown
<1>2. CASE ~Rollback(c)
  <2>1. /\ pc[c] \in {"receive.read", "receive.receipt", "ship.transition"}
        /\ pc'[c] \in {"receive.adjust", "receive.commit", "ship.commit"}
        /\ pc'[c] = "receive.adjust" => pc[c] = "receive.read"
        /\ UNCHANGED <<inv, wrote, seen>>
        /\ work'[c].out = work[c].out /\ work'[c].in = work[c].in /\ work'[c].back = work[c].back
    <3>1. CASE ReceiveRead(c)
      BY <1>0, <1>2, <3>1 DEF ReceiveRead, Check, Proceed, Goto, TypeOK
    <3>2. CASE ReceiveReceipt(c)
      <4>1. work[c] \in Sums
        BY <1>0 DEF TypeOK
      <4>2. work'[c] = [work[c] EXCEPT !.receipts = @ + amount[c]]
        BY <1>0, <3>2 DEF ReceiveReceipt, TypeOK
      <4> QED BY <1>0, <3>2, <4>1, <4>2 DEF ReceiveReceipt, Goto, TypeOK, Sums
    <3>3. CASE ShipTransition(c)
      BY <1>0, <1>2, <3>3 DEF ShipTransition, TransitionStatusTx, UpdateOrder, Goto, TypeOK
    <3> QED BY <3>1, <3>2, <3>3
  <2>2. LocksKnown(c)'
    BY <2>1 DEF TransferRows, LocksKnown, Holding
  <2> QED BY <2>1, <2>2, QuietStep DEF Holding
<1> QED BY <1>1, <1>2

LEMMA CommittedRows ==
    ASSUME TypeOK, InventoryInv, NEW c \in Sessions, Commit(c) \/ CommitThenReload(c)
    PROVE  RowStep(c) /\ TransferRows(c)'
<1>1. pc'[c] \in {"idle", "receive.reload", "cancel.reload"} /\ CommitRows(c)
  BY DEF Commit, CommitThenReload, Publish, EndRequest, Goto, TypeOK
<1> QED BY <1>1, TransactionEnds

\* Every step of a transfer request, on the rows of store_inventories.
LEMMA TransferStepRows ==
    ASSUME IInv, InventoryInv, NEW c \in Sessions, TransferRows(c),
           Request(c) \/ Step(c) \/ Fail(c)
    PROVE  RowStep(c) /\ TransferRows(c)'
<1>1. TypeOK
  BY DEF IInv
<1> QED BY <1>1, RequestRows, EarlyRows, InsertRows, MoveRows, LateRows, CommittedRows,
           RollbackRowsKnown DEF Step, Fail

\* It leaves what other sessions know of their rows alone.
LEMMA TransferOthers ==
    ASSUME TypeOK, NEW c \in Sessions, Request(c) \/ Step(c) \/ Fail(c)
    PROVE  Others(c)
<1>1. CASE Request(c)
  BY <1>1 DEF Request, Create, Confirm, Ship, Receive, Cancel, FindByID, Goto, Others, TypeOK
<1>2. CASE Rollback(c) \/ CreateInsert(c) \/ Reload(c) \/ Commit(c) \/ CommitThenReload(c)
  BY <1>2 DEF Rollback, CreateInsert, Reload, Commit, CommitThenReload, EndRequest, Goto,
     Others, TypeOK
<1>3. CASE Step(c) /\ ~Rollback(c) /\ ~CreateInsert(c) /\ ~Reload(c) /\ ~Commit(c)
           /\ ~CommitThenReload(c)
  BY <1>3 DEF Step, ConfirmTransition, ShipCheck, ShipRead, ShipDeduct, ShipTransition,
     ReceiveReread, ReceiveAdd, ReceiveEnsure, ReceiveInsert, ReceiveRead, ReceiveAdjust,
     ReceiveReceipt, CancelReread, CancelTransition, CancelRead, CancelAdjust,
     TransitionStatusTx, AddReceivedQuantityTx, UpdateOrder, MoveStock, Check, Proceed,
     Reread, Goto, Others, TypeOK
<1> QED BY <1>1, <1>2, <1>3 DEF Fail

-----------------------------------------------------------------------------
\* Waiting among transfer requests. A statement that waits is given a rank;
\* whoever it waits for stands at a statement of a lower one.
Rank(c) ==
    CASE pc[c] \in {"confirm.transition", "cancel.transition", "receive.add"} -> 3
      [] pc[c] \in {"ship.deduct", "receive.adjust", "cancel.adjust"} -> 2
      [] pc[c] = "ship.transition" -> 1
      [] OTHER -> 0

\* A row that an UPDATE waits for is a committed one.
LEMMA WantedIsCommitted ==
    ASSUME Exclusive, NEW c \in Sessions, NEW d \in Sessions, c # d,
           NEW s, NEW n, NEW k \in Adjusted(c, s, n), wrote[d][k] # Nil
    PROVE  k \in InvKeys /\ inv[k] # Nil
<1>1. k \in InvKeys /\ View(c, k) # Nil
  BY DEF Adjusted, RowsOf
<1>2. wrote[c][k] = Nil
  BY <1>1 DEF Exclusive
<1> QED BY <1>1, <1>2 DEF View

\* The open transaction that holds a committed row has moved stock: a row that
\* EnsureTx inserted is not committed.
LEMMA RowHolders ==
    ASSUME NEW d \in Sessions, LocksKnown(d), NEW k \in InvKeys, inv[k] # Nil, wrote[d][k] # Nil
    PROVE  Rank(d) < 2
<1>1. pc[d] \in Holding \ {"receive.read", "receive.adjust"}
  BY DEF LocksKnown
<1> QED BY <1>1 DEF Rank, Holding

LEMMA RowWaits ==
    ASSUME Exclusive, NEW c \in Sessions, NEW d \in Sessions, c # d, LocksKnown(d),
           NEW k \in WantedRows(c), wrote[d][k] # Nil
    PROVE  Rank(d) < Rank(c)
<1>1. /\ pc[c] \in {"ship.deduct", "receive.adjust", "cancel.adjust"}
      /\ k \in InvKeys /\ inv[k] # Nil
  BY WantedIsCommitted DEF WantedRows
<1>2. Rank(c) = 2 /\ Rank(d) < 2
  BY <1>1, RowHolders DEF Rank
<1> QED BY <1>2

\* The order that Ship claims is confirmed: only a shipment or a cancellation
\* about to commit can have a draft of it.
LEMMA ShipWaits ==
    ASSUME IInv, NEW c \in Sessions, NEW d \in Sessions, LocksKnown(d),
           pc[c] = "ship.transition", StatusUnchanged(c),
           target[d] = target[c], pc[d] \in DraftLabels
    PROVE  Rank(d) = 0
<1>1. order[target[d]].status = "confirmed"
  BY DEF IInv, SessionInv, ShipKnows, StatusUnchanged
<1>2. pc[d] \notin ReceiveDraftLabels
  BY <1>1 DEF IInv, SessionInv, ReceiveKnows, Receivable
<1>3. pc[d] \notin {"cancel.read", "cancel.adjust"}
  BY <1>1 DEF IInv, SessionInv, CancelKnows, CancelDraftLabels, StatusUnchanged, LocksKnown
<1>4. pc[d] \in CommitLabels
  BY <1>2, <1>3 DEF DraftLabels, ReceiveDraftLabels
<1> QED BY <1>4 DEF Rank, CommitLabels

\* A drafted order is claimed by a statement of rank 1 or 3.
LEMMA OrderWaits ==
    ASSUME IInv, NEW c \in Sessions, NEW d \in Sessions, LocksKnown(d),
           WantsOrder(c), target[d] = target[c], draft[d] # Nil
    PROVE  Rank(d) < Rank(c)
<1>1. pc[d] \in DraftLabels
  BY DEF IInv, SessionInv, NoDraft
<1>2. CASE pc[c] = "ship.transition"
  <2>1. StatusUnchanged(c)
    BY <1>2 DEF WantsOrder
  <2>2. Rank(d) = 0
    BY <1>1, <1>2, <2>1, ShipWaits
  <2>3. Rank(c) = 1
    BY <1>2 DEF Rank
  <2> QED BY <2>2, <2>3
<1>3. CASE pc[c] # "ship.transition"
  <2>1. Rank(c) = 3
    BY <1>3 DEF WantsOrder, Rank
  <2>2. Rank(d) \in {0, 2}
    BY <1>1 DEF Rank, DraftLabels, CommitLabels
  <2> QED BY <2>1, <2>2
<1> QED BY <1>2, <1>3

LEMMA WaitingDescends ==
    ASSUME IInv, Exclusive, NEW c \in Sessions, NEW d \in Sessions, LocksKnown(d), WaitsFor(c, d)
    PROVE  Rank(d) < Rank(c)
<1>1. CASE \E k \in WantedRows(c) : wrote[d][k] # Nil
  BY <1>1, RowWaits DEF WaitsFor
<1>2. CASE WantsOrder(c) /\ target[d] = target[c] /\ draft[d] # Nil
  BY <1>2, OrderWaits
<1> QED BY <1>1, <1>2 DEF WaitsFor

\* Of every set of sessions, one is of the lowest rank.
LEMMA LowestRank ==
    ASSUME NEW rank \in [Sessions -> Nat], NEW D \in SUBSET Sessions, D # {}
    PROVE  \E c \in D : \A d \in D : ~(rank[d] < rank[c])
<1> DEFINE R == {n \in Nat : \E c \in D : rank[c] = n}
<1>1. \A c \in D : rank[c] \in Nat
  OBVIOUS
<1>2. R # {} /\ R \in SUBSET Nat
  BY <1>1
<1>3. PICK n \in R : \A m \in R : n <= m
  BY <1>2, LeastExists
<1>4. PICK c \in D : rank[c] = n
  OBVIOUS
<1> QED BY <1>1, <1>3, <1>4

LEMMA NobodyStuck == IInv /\ Exclusive /\ (\A c \in Sessions : LocksKnown(c)) => NoDeadlock
<1> SUFFICES ASSUME IInv, Exclusive, \A c \in Sessions : LocksKnown(c),
                    NEW D \in SUBSET Sessions, D # {}
             PROVE  \E c \in D : \A d \in D : ~WaitsFor(c, d)
  BY DEF NoDeadlock
<1> DEFINE rank == [c \in Sessions |-> Rank(c)]
<1>1. rank \in [Sessions -> Nat]
  BY DEF Rank
<1>2. PICK c \in D : \A d \in D : ~(rank[d] < rank[c])
  BY <1>1, LowestRank
<1> QED BY <1>2, WaitingDescends

-----------------------------------------------------------------------------
\* The transfer service alone.
TransferInv == IInv /\ InventoryInv /\ \A c \in Sessions : TransferRows(c)

LEMMA InitTransferInv == Init => TransferInv
<1> SUFFICES ASSUME Init PROVE TransferInv
  OBVIOUS
<1>1. IInv /\ InventoryInv /\ \A c \in Sessions : pc[c] = "idle" /\ \A k \in InvKeys : wrote[c][k] = Nil
  BY InitIInv DEF Init, InvInit, NoWrites, InventoryInv, Exclusive, IInv, TypeOK
<1>2. ASSUME NEW c \in Sessions PROVE TransferRows(c)
  BY <1>1, CarriedNone DEF TransferRows, LocksKnown, CarriesKnown, Holding
<1> QED BY <1>1, <1>2 DEF TransferInv

LEMMA NextTransferInv == TransferInv /\ [Next]_vars => TransferInv'
<1> SUFFICES ASSUME TransferInv, [Next]_vars PROVE TransferInv'
  OBVIOUS
<1>0. IInv' /\ TypeOK
  BY NextIInv DEF TransferInv, IInv
<1>1. CASE Next
  <2>1. PICK c \in Sessions : Request(c) \/ Step(c) \/ Fail(c)
    BY <1>1 DEF Next
  <2>2. RowStep(c) /\ TransferRows(c)' /\ Others(c)
    BY <1>0, <2>1, TransferStepRows, TransferOthers DEF TransferInv
  <2>3. ASSUME NEW d \in Sessions \ {c} PROVE TransferRows(d)'
    BY <2>2, TransferRowsFrame DEF TransferInv, Others
  <2> QED BY <1>0, <2>2, <2>3 DEF TransferInv, RowStep
<1>2. CASE UNCHANGED vars
  <2>1. InventoryInv'
    BY <1>2 DEF vars, TransferInv, InventoryInv, InvTypeOK, Exclusive
  <2>2. ASSUME NEW c \in Sessions PROVE TransferRows(c)'
    <3>1. LocksKnown(c)'
      BY <1>2 DEF vars, TransferInv, TransferRows, LocksKnown
    <3>2. CarriesKnown(c)'
      <4>1. \A s \in Stores : Carried(c, s)' = Carried(c, s) /\ Recorded(c, s)' = Recorded(c, s)
        BY <1>2, CarriedSame DEF vars, Recorded
      <4> QED BY <1>2, <4>1 DEF vars, TransferInv, TransferRows, CarriesKnown, Single, View
    <3> QED BY <3>1, <3>2 DEF TransferRows
  <2> QED BY <1>0, <2>1, <2>2 DEF TransferInv
<1> QED BY <1>1, <1>2

\* What every session knows at every statement of its handler, for every number
\* of sessions and orders.
THEOREM InvariantCorrect == Spec => []IInv
BY InitIInv, NextIInv, PTL DEF Spec

\* Transfer requests never deadlock on row locks, however many there are.
THEOREM NoDeadlockCorrect == Spec => []NoDeadlock
<1>1. TransferInv => NoDeadlock
  BY NobodyStuck DEF TransferInv, InventoryInv, TransferRows
<1> QED BY <1>1, InitTransferInv, NextTransferInv, PTL DEF Spec

-----------------------------------------------------------------------------
\* Stock and ledger. A step of a transfer request moves what a store holds by
\* exactly what it moves the sums over the orders.

\* One order's part of the three sums.
ChargedFor(o, s)   == IF Exists(o) /\ order[o].from = s THEN ledger[o].out ELSE 0
DeliveredFor(o, s) == IF Exists(o) /\ order[o].to = s THEN ledger[o].in ELSE 0
ReturnedFor(o, s)  == IF Exists(o) /\ order[o].from = s THEN ledger[o].back ELSE 0

\* What the orders have moved into store s on balance.
Booked(s) == Delivered(s) + Returned(s) - Charged(s)

LEMMA BookedSums ==
    ASSUME NEW s
    PROVE  /\ Charged(s) = SumFunctionOnSet([o \in Orders |-> ChargedFor(o, s)], Orders)
           /\ Delivered(s) = SumFunctionOnSet([o \in Orders |-> DeliveredFor(o, s)], Orders)
           /\ Returned(s) = SumFunctionOnSet([o \in Orders |-> ReturnedFor(o, s)], Orders)
<1>1. Charged(s) = SumFunctionOnSet([o \in Orders |-> ChargedFor(o, s)], Orders)
  BY ZenonT(40) DEF Charged, ChargedFor, MapThenSumSet, SumFunctionOnSet, FoldFunctionOnSet,
     MapThenFoldSet
<1>2. Delivered(s) = SumFunctionOnSet([o \in Orders |-> DeliveredFor(o, s)], Orders)
  BY ZenonT(40) DEF Delivered, DeliveredFor, MapThenSumSet, SumFunctionOnSet, FoldFunctionOnSet,
     MapThenFoldSet
<1>3. Returned(s) = SumFunctionOnSet([o \in Orders |-> ReturnedFor(o, s)], Orders)
  BY ZenonT(40) DEF Returned, ReturnedFor, MapThenSumSet, SumFunctionOnSet, FoldFunctionOnSet,
     MapThenFoldSet
<1> QED BY <1>1, <1>2, <1>3

LEMMA BookedSumsNext ==
    ASSUME NEW s
    PROVE  /\ Charged(s)' = SumFunctionOnSet([o \in Orders |-> ChargedFor(o, s)'], Orders)
           /\ Delivered(s)' = SumFunctionOnSet([o \in Orders |-> DeliveredFor(o, s)'], Orders)
           /\ Returned(s)' = SumFunctionOnSet([o \in Orders |-> ReturnedFor(o, s)'], Orders)
<1>1. Charged(s)' = SumFunctionOnSet([o \in Orders |-> ChargedFor(o, s)'], Orders)
  BY ZenonT(40) DEF Charged, ChargedFor, MapThenSumSet, SumFunctionOnSet, FoldFunctionOnSet,
     MapThenFoldSet
<1>2. Delivered(s)' = SumFunctionOnSet([o \in Orders |-> DeliveredFor(o, s)'], Orders)
  BY ZenonT(40) DEF Delivered, DeliveredFor, MapThenSumSet, SumFunctionOnSet, FoldFunctionOnSet,
     MapThenFoldSet
<1>3. Returned(s)' = SumFunctionOnSet([o \in Orders |-> ReturnedFor(o, s)'], Orders)
  BY ZenonT(40) DEF Returned, ReturnedFor, MapThenSumSet, SumFunctionOnSet, FoldFunctionOnSet,
     MapThenFoldSet
<1> QED BY <1>1, <1>2, <1>3

LEMMA PartTypes ==
    ASSUME TypeOK, NEW o \in Orders, NEW s
    PROVE  ChargedFor(o, s) \in Int /\ DeliveredFor(o, s) \in Int /\ ReturnedFor(o, s) \in Int
BY DEF TypeOK, Sums, ChargedFor, DeliveredFor, ReturnedFor

\* One order's parts change by a, b and c; so do the sums.
LEMMA BookedChange ==
    ASSUME TypeOK, NEW x \in Orders, NEW s, NEW a \in Int, NEW b \in Int, NEW d \in Int,
           \A o \in Orders :
              /\ ChargedFor(o, s)' = IF o = x THEN ChargedFor(o, s) + a ELSE ChargedFor(o, s)
              /\ DeliveredFor(o, s)' = IF o = x THEN DeliveredFor(o, s) + b ELSE DeliveredFor(o, s)
              /\ ReturnedFor(o, s)' = IF o = x THEN ReturnedFor(o, s) + d ELSE ReturnedFor(o, s)
    PROVE  /\ Booked(s)' = Booked(s) + b + d - a /\ Booked(s) \in Int
           /\ Charged(s) \in Int /\ Delivered(s) \in Int /\ Returned(s) \in Int
<1> DEFINE f1 == [o \in Orders |-> ChargedFor(o, s)]
           g1 == [o \in Orders |-> ChargedFor(o, s)']
           f2 == [o \in Orders |-> DeliveredFor(o, s)]
           g2 == [o \in Orders |-> DeliveredFor(o, s)']
           f3 == [o \in Orders |-> ReturnedFor(o, s)]
           g3 == [o \in Orders |-> ReturnedFor(o, s)']
<1>1. /\ \A o \in Orders : f1[o] \in Int
      /\ \A o \in Orders : f2[o] \in Int
      /\ \A o \in Orders : f3[o] \in Int
  BY PartTypes
<1>2. \A o \in Orders : g1[o] = IF o = x THEN f1[o] + a ELSE f1[o]
  OBVIOUS
<1>3. \A o \in Orders : g2[o] = IF o = x THEN f2[o] + b ELSE f2[o]
  OBVIOUS
<1>4. \A o \in Orders : g3[o] = IF o = x THEN f3[o] + d ELSE f3[o]
  OBVIOUS
<1>5. /\ Charged(s) = SumFunctionOnSet(f1, Orders)
      /\ Delivered(s) = SumFunctionOnSet(f2, Orders)
      /\ Returned(s) = SumFunctionOnSet(f3, Orders)
  BY BookedSums
<1>6. /\ Charged(s)' = SumFunctionOnSet(g1, Orders)
      /\ Delivered(s)' = SumFunctionOnSet(g2, Orders)
      /\ Returned(s)' = SumFunctionOnSet(g3, Orders)
  BY BookedSumsNext
<1> HIDE DEF f1, f2, f3, g1, g2, g3
<1>0. IsFiniteSet(Orders)
  BY OrdersAssumption
<1>7. SumFunctionOnSet(g1, Orders) = SumFunctionOnSet(f1, Orders) + a
  <2>1. \A o \in Orders : f1[o] \in Int
    BY <1>1
  <2> QED BY <1>0, <1>2, <2>1, SumChange
<1>8. SumFunctionOnSet(g2, Orders) = SumFunctionOnSet(f2, Orders) + b
  <2>1. \A o \in Orders : f2[o] \in Int
    BY <1>1
  <2> QED BY <1>0, <1>3, <2>1, SumChange
<1>9. SumFunctionOnSet(g3, Orders) = SumFunctionOnSet(f3, Orders) + d
  <2>1. \A o \in Orders : f3[o] \in Int
    BY <1>1
  <2> QED BY <1>0, <1>4, <2>1, SumChange
<1>10. Charged(s) \in Int
  BY <1>0, <1>1, <1>5, SumType
<1>11. Delivered(s) \in Int
  BY <1>0, <1>1, <1>5, SumType
<1>12. Returned(s) \in Int
  BY <1>0, <1>1, <1>5, SumType
<1>13. Booked(s)' = Delivered(s)' + Returned(s)' - Charged(s)'
  BY DEF Booked
<1> QED BY <1>5, <1>6, <1>7, <1>8, <1>9, <1>10, <1>11, <1>12, <1>13 DEF Booked

\* No order's parts change.
LEMMA BookedUnmoved ==
    ASSUME NEW s,
           \A o \in Orders :
              /\ ChargedFor(o, s)' = ChargedFor(o, s)
              /\ DeliveredFor(o, s)' = DeliveredFor(o, s)
              /\ ReturnedFor(o, s)' = ReturnedFor(o, s)
    PROVE  Booked(s)' = Booked(s)
<1> DEFINE f1 == [o \in Orders |-> ChargedFor(o, s)]
           g1 == [o \in Orders |-> ChargedFor(o, s)']
           f2 == [o \in Orders |-> DeliveredFor(o, s)]
           g2 == [o \in Orders |-> DeliveredFor(o, s)']
           f3 == [o \in Orders |-> ReturnedFor(o, s)]
           g3 == [o \in Orders |-> ReturnedFor(o, s)']
<1>1. f1 = g1 /\ f2 = g2 /\ f3 = g3
  OBVIOUS
<1>2. /\ Charged(s) = SumFunctionOnSet(f1, Orders)
      /\ Delivered(s) = SumFunctionOnSet(f2, Orders)
      /\ Returned(s) = SumFunctionOnSet(f3, Orders)
  BY BookedSums
<1>3. /\ Charged(s)' = SumFunctionOnSet(g1, Orders)
      /\ Delivered(s)' = SumFunctionOnSet(g2, Orders)
      /\ Returned(s)' = SumFunctionOnSet(g3, Orders)
  BY BookedSumsNext
<1> HIDE DEF f1, f2, f3, g1, g2, g3
<1>4. Charged(s)' = Charged(s) /\ Delivered(s)' = Delivered(s) /\ Returned(s)' = Returned(s)
  BY <1>1, <1>2, <1>3
<1> QED BY <1>4 DEF Booked

LEMMA BookedSame ==
    ASSUME NEW s, UNCHANGED <<order, ledger>>
    PROVE  Booked(s)' = Booked(s)
BY BookedUnmoved DEF ChargedFor, DeliveredFor, ReturnedFor, Exists

\* A new order has no rows about it yet.
LEMMA CreateBooks ==
    ASSUME IInv, NEW c \in Sessions, CreateInsert(c), NEW s \in Stores
    PROVE  Held(s)' = Held(s) /\ Booked(s)' = Booked(s)
<1>1. PICK x \in Orders : x = target[c]
  BY DEF CreateInsert, IInv, SessionInv, CreateKnows
<1>2. /\ order[x] = Nil /\ ledger[x] = NoSums /\ ledger' = ledger /\ inv' = inv
      /\ \A o \in Orders : o # x => order'[o] = order[o]
  BY <1>1 DEF CreateInsert, IInv, TypeOK, SessionInv, CreateKnows, RowInv
<1>3. \A o \in Orders :
         /\ ChargedFor(o, s)' = ChargedFor(o, s)
         /\ DeliveredFor(o, s)' = DeliveredFor(o, s)
         /\ ReturnedFor(o, s)' = ReturnedFor(o, s)
  BY <1>2 DEF ChargedFor, DeliveredFor, ReturnedFor, Exists, NoSums
<1> QED BY <1>2, <1>3, HeldSame, BookedUnmoved

\* A commit adds to the ledger what its transaction recorded.
LEMMA CommitBooks ==
    ASSUME IInv, NEW c \in Sessions, pc[c] \in CommitLabels, Publish(c), NEW s \in Stores
    PROVE  Booked(s)' = Booked(s) + Recorded(c, s) /\ Booked(s) \in Int
<1>1. PICK x \in Orders : x = target[c]
  BY SeenFacts DEF CommitLabels, CreatedLabels, Labels
<1>2. /\ TypeOK /\ seen[c].from = order[x].from /\ seen[c].to = order[x].to /\ order[x] # Nil
  BY <1>1, SeenFacts DEF CommitLabels, CreatedLabels, Labels, IInv
<1>3. /\ draft[c] \in OrderRow /\ draft[c] # Nil
      /\ draft[c].from = order[x].from /\ draft[c].to = order[x].to
  BY <1>1, PublishRow, NilFacts
<1>4. /\ order'[x] = draft[c] /\ ledger'[x] = AddSums(ledger[x], work[c])
      /\ \A o \in Orders : o # x => order'[o] = order[o] /\ ledger'[o] = ledger[o]
      /\ ledger[x] \in Sums /\ work[c] \in Sums
  BY <1>1, <1>2 DEF Publish, TypeOK
<1> DEFINE a == IF seen[c].from = s THEN work[c].out ELSE 0
           b == IF seen[c].to = s THEN work[c].in ELSE 0
           d == IF seen[c].from = s THEN work[c].back ELSE 0
<1>5. a \in Int /\ b \in Int /\ d \in Int
  BY <1>4 DEF Sums
<1>6. /\ ledger'[x].out = ledger[x].out + work[c].out
      /\ ledger'[x].in = ledger[x].in + work[c].in
      /\ ledger'[x].back = ledger[x].back + work[c].back
  BY <1>4 DEF AddSums
<1>7. /\ ledger[x].out \in Nat /\ ledger[x].in \in Nat /\ ledger[x].back \in Nat
  BY <1>4 DEF Sums
<1>8. ChargedFor(x, s)' = ChargedFor(x, s) + a
  BY <1>2, <1>3, <1>4, <1>6, <1>7 DEF ChargedFor, Exists
<1>9. DeliveredFor(x, s)' = DeliveredFor(x, s) + b
  BY <1>2, <1>3, <1>4, <1>6, <1>7 DEF DeliveredFor, Exists
<1>10. ReturnedFor(x, s)' = ReturnedFor(x, s) + d
  BY <1>2, <1>3, <1>4, <1>6, <1>7 DEF ReturnedFor, Exists
<1>11. \A o \in Orders : o # x =>
          /\ ChargedFor(o, s)' = ChargedFor(o, s)
          /\ DeliveredFor(o, s)' = DeliveredFor(o, s)
          /\ ReturnedFor(o, s)' = ReturnedFor(o, s)
  BY <1>4 DEF ChargedFor, DeliveredFor, ReturnedFor, Exists
<1>12. Recorded(c, s) = b + d - a
  BY <1>4 DEF Recorded, Sums
<1> HIDE DEF a, b, d
<1>13. \A o \in Orders :
          /\ ChargedFor(o, s)' = IF o = x THEN ChargedFor(o, s) + a ELSE ChargedFor(o, s)
          /\ DeliveredFor(o, s)' = IF o = x THEN DeliveredFor(o, s) + b ELSE DeliveredFor(o, s)
          /\ ReturnedFor(o, s)' = IF o = x THEN ReturnedFor(o, s) + d ELSE ReturnedFor(o, s)
  BY <1>8, <1>9, <1>10, <1>11
<1>14. Booked(s)' = Booked(s) + b + d - a /\ Booked(s) \in Int
  BY <1>2, <1>5, <1>13, BookedChange
<1> QED BY <1>5, <1>12, <1>14

\* Between its commits a transfer request leaves the committed rows alone.
LEMMA OnlyCommitsShow ==
    ASSUME NEW c \in Sessions, Request(c) \/ Step(c) \/ Fail(c),
           ~Commit(c), ~CommitThenReload(c)
    PROVE  inv' = inv /\ (~CreateInsert(c) => UNCHANGED <<order, ledger>>)
<1>1. CASE CreateInsert(c)
  BY <1>1 DEF CreateInsert
<1>2. CASE ~CreateInsert(c)
  BY <1>2 DEF Request, Create, Confirm, Ship, Receive, Cancel, FindByID, Fail, Rollback,
     RollbackRows, Step, ConfirmTransition, ShipCheck, ShipRead, ShipDeduct, ShipTransition,
     ReceiveReread, ReceiveAdd, ReceiveEnsure, ReceiveInsert, InsertRow, ReceiveRead,
     ReceiveAdjust, ReceiveReceipt, CancelReread, CancelTransition, CancelRead, CancelAdjust,
     Reload, TransitionStatusTx, AddReceivedQuantityTx, UpdateOrder, MoveStock, AdjustRows,
     Check, Proceed, Reread
<1> QED BY <1>1, <1>2

\* The rows and the ledger move together.
LEMMA TransferStepBooks ==
    ASSUME IInv, InventoryInv, NEW c \in Sessions, TransferRows(c), SingleRow',
           Request(c) \/ Step(c) \/ Fail(c), NEW s \in Stores
    PROVE  \/ Held(s)' = Held(s) /\ Booked(s)' = Booked(s)
           \/ /\ Booked(s) \in Int /\ Recorded(c, s) \in Int
              /\ Booked(s)' = Booked(s) + Recorded(c, s)
              /\ Held(s)' = Held(s) + Recorded(c, s)
<1>1. CASE Commit(c) \/ CommitThenReload(c)
  <2>1. pc[c] \in CommitLabels /\ Publish(c) /\ CommitRows(c)
    BY <1>1 DEF Commit, CommitThenReload, CommitLabels, Publish
  <2>2. Single(c)
    BY <2>1, CommitSingle
  <2>3. Held(s)' = Held(s) + Carried(c, s)
    BY <2>1, CommitHeld
  <2>4. work[c] \in Sums
    BY DEF IInv, TypeOK
  <2>5. Carried(c, s) = Recorded(c, s)
    <3>1. CASE pc[c] = "confirm.commit"
      <4>1. work[c] = NoSums
        BY <3>1 DEF IInv, SessionInv, ConfirmKnows
      <4>2. Recorded(c, s) = 0
        BY <4>1 DEF Recorded, NoSums
      <4>3. Carried(c, s) = 0
        BY <2>2, <3>1 DEF TransferRows, CarriesKnown, Holding
      <4> QED BY <4>2, <4>3
    <3>2. CASE pc[c] # "confirm.commit"
      BY <2>1, <2>2, <3>2 DEF TransferRows, CarriesKnown, Holding, CommitLabels
    <3> QED BY <3>1, <3>2
  <2>6. Recorded(c, s) \in Int
    BY <2>4 DEF Recorded, Sums
  <2> QED BY <2>1, <2>3, <2>5, <2>6, CommitBooks
<1>2. CASE CreateInsert(c)
  BY <1>2, CreateBooks
<1>3. CASE ~(Commit(c) \/ CommitThenReload(c) \/ CreateInsert(c))
  <2>1. UNCHANGED <<order, ledger, inv>>
    BY <1>3, OnlyCommitsShow
  <2> QED BY <2>1, HeldSame, BookedSame
<1> QED BY <1>1, <1>2, <1>3

\* At first nothing is booked.
LEMMA NothingBooked ==
    ASSUME NEW s, \A o \in Orders : order[o] = Nil
    PROVE  Charged(s) = 0 /\ Delivered(s) = 0 /\ Returned(s) = 0
<1> DEFINE f1 == [o \in Orders |-> ChargedFor(o, s)]
           f2 == [o \in Orders |-> DeliveredFor(o, s)]
           f3 == [o \in Orders |-> ReturnedFor(o, s)]
<1>1. \A o \in Orders : f1[o] = 0 /\ f2[o] = 0 /\ f3[o] = 0
  BY DEF ChargedFor, DeliveredFor, ReturnedFor, Exists
<1>2. /\ Charged(s) = SumFunctionOnSet(f1, Orders)
      /\ Delivered(s) = SumFunctionOnSet(f2, Orders)
      /\ Returned(s) = SumFunctionOnSet(f3, Orders)
  BY BookedSums
<1> HIDE DEF f1, f2, f3
<1>3. SumFunctionOnSet(f1, Orders) = 0
  BY <1>1, OrdersAssumption, SumZero
<1>4. SumFunctionOnSet(f2, Orders) = 0
  BY <1>1, OrdersAssumption, SumZero
<1>5. SumFunctionOnSet(f3, Orders) = 0
  BY <1>1, OrdersAssumption, SumZero
<1> QED BY <1>2, <1>3, <1>4, <1>5

-----------------------------------------------------------------------------
LEMMA BookedTypes ==
    ASSUME TypeOK, NEW s
    PROVE  Charged(s) \in Int /\ Delivered(s) \in Int /\ Returned(s) \in Int
<1> DEFINE f1 == [o \in Orders |-> ChargedFor(o, s)]
           f2 == [o \in Orders |-> DeliveredFor(o, s)]
           f3 == [o \in Orders |-> ReturnedFor(o, s)]
<1>1. \A o \in Orders : f1[o] \in Int /\ f2[o] \in Int /\ f3[o] \in Int
  BY PartTypes
<1>2. /\ Charged(s) = SumFunctionOnSet(f1, Orders)
      /\ Delivered(s) = SumFunctionOnSet(f2, Orders)
      /\ Returned(s) = SumFunctionOnSet(f3, Orders)
  BY BookedSums
<1> HIDE DEF f1, f2, f3
<1>3. SumFunctionOnSet(f1, Orders) \in Int
  BY <1>1, OrdersAssumption, SumType
<1>4. SumFunctionOnSet(f2, Orders) \in Int
  BY <1>1, OrdersAssumption, SumType
<1>5. SumFunctionOnSet(f3, Orders) \in Int
  BY <1>1, OrdersAssumption, SumType
<1> QED BY <1>2, <1>3, <1>4, <1>5

\* Rows are inserted and never deleted: while no store has two rows now, none
\* had two before.
LEMMA SingleRemains ==
    ASSUME NEW c \in Sessions, RowStep(c), SingleRow'
    PROVE  SingleRow
BY DEF SingleRow, RowStep

\* What a store holds is what it held at first and what was booked since.
StockIsBooked == \A s \in Stores : Held(s) = Initially(s) + Booked(s)

LEMMA BookedIsLedger == TypeOK /\ StockIsBooked => StockMatchesLedger
<1> SUFFICES ASSUME TypeOK, StockIsBooked, NEW s \in Stores
             PROVE  Held(s) = Initially(s) - Charged(s) + Delivered(s) + Returned(s)
  BY DEF StockMatchesLedger
<1>1. Initially(s) \in Int
  BY InitStockAssumption DEF Initially
<1>2. Charged(s) \in Int /\ Delivered(s) \in Int /\ Returned(s) \in Int
  BY BookedTypes
<1>3. Held(s) = Initially(s) + (Delivered(s) + Returned(s) - Charged(s))
  BY DEF StockIsBooked, Booked
<1> QED BY <1>1, <1>2, <1>3

\* For every number of sessions, stores and orders: in every state in which no
\* store has two rows, the stock is what the ledger says, whatever requests
\* interleaved and whatever statements failed.
THEOREM StockCorrect == Spec => [](SingleRow => StockMatchesLedger)
<1>1. Init => StockIsBooked
  <2> SUFFICES ASSUME Init, NEW s \in Stores PROVE Held(s) = Initially(s) + Booked(s)
    BY DEF StockIsBooked
  <2>1. Booked(s) = 0
    BY NothingBooked DEF Init, Booked
  <2>2. Held(s) = Initially(s) /\ Initially(s) \in Int
    BY HeldAtFirst, InitStockAssumption DEF Init, Initially
  <2> QED BY <2>1, <2>2
<1>2. TransferInv /\ (SingleRow => StockIsBooked) /\ [Next]_vars
      => (SingleRow => StockIsBooked)'
  <2> SUFFICES ASSUME TransferInv, SingleRow => StockIsBooked, SingleRow', [Next]_vars
               PROVE  StockIsBooked'
    OBVIOUS
  <2>1. CASE UNCHANGED vars
    <3>1. SingleRow /\ \A s \in Stores : Held(s)' = Held(s) /\ Booked(s)' = Booked(s)
      BY <2>1, HeldSame, BookedSame DEF vars, SingleRow
    <3> QED BY <3>1 DEF StockIsBooked, Initially
  <2>2. CASE Next
    <3>1. PICK c \in Sessions : Request(c) \/ Step(c) \/ Fail(c)
      BY <2>2 DEF Next
    <3>2. RowStep(c)
      BY <3>1, TransferStepRows DEF TransferInv
    <3>3. StockIsBooked
      BY <3>2, SingleRemains
    <3>4. ASSUME NEW s \in Stores PROVE Held(s)' = Initially(s) + Booked(s)'
      <4>1. Held(s) = Initially(s) + Booked(s) /\ Initially(s) \in Int
        BY <3>3, InitStockAssumption DEF StockIsBooked, Initially
      <4>2. \/ Held(s)' = Held(s) /\ Booked(s)' = Booked(s)
            \/ /\ Booked(s) \in Int /\ Recorded(c, s) \in Int
               /\ Booked(s)' = Booked(s) + Recorded(c, s)
               /\ Held(s)' = Held(s) + Recorded(c, s)
        BY <3>1, TransferStepBooks DEF TransferInv
      <4> QED BY <4>1, <4>2
    <3> QED BY <3>4 DEF StockIsBooked, Initially
  <2> QED BY <2>1, <2>2
<1>3. TransferInv => TypeOK
  BY DEF TransferInv, IInv
<1> QED BY <1>1, <1>2, <1>3, InitTransferInv, NextTransferInv, BookedIsLedger, PTL DEF Spec

-----------------------------------------------------------------------------
\* The rows of a stock request.

OpHolding == {"record.insert", "commit"}

\* What session c knows at each statement.
OpKnows(c) ==
    /\ op[c] \notin OpHolding => \A k \in InvKeys : wrote[c][k] = Nil
    /\ op[c] \notin {"idle", "safety.save"} => place[c] \in Stores
    /\ op[c] = "ensure.insert" => delta[c] \in Nat
    /\ op[c] = "safety.save" => /\ copy[c] \in [key : InvKeys, row : InvRow]
                                /\ inv[copy[c].key] # Nil

\* Its uncommitted rows add the change it made out, where a store has one row.
OpCarries(c) ==
    Single(c) => \A s \in Stores :
        Carried(c, s) = IF op[c] \in OpHolding /\ place[c] = s THEN delta[c] ELSE 0

OpRows(c) == OpKnows(c) /\ OpCarries(c)

\* What a stock request leaves alone of the other sessions.
OpOthers(c) ==
    \A d \in Sessions \ {c} :
        op'[d] = op[d] /\ place'[d] = place[d] /\ delta'[d] = delta[d] /\ copy'[d] = copy[d]

\* What the steps of a stock request come to.
OpResult(c) == OpsTypeOK' /\ RowStep(c) /\ OpRows(c)' /\ OpOthers(c)

LEMMA OpRowsFrame ==
    ASSUME InventoryInv, NEW c \in Sessions, NEW d \in Sessions \ {c}, RowStep(c), OpRows(d),
           op'[d] = op[d], place'[d] = place[d], delta'[d] = delta[d], copy'[d] = copy[d]
    PROVE  OpRows(d)'
<1>1. /\ wrote'[d] = wrote[d] /\ \A k \in InvKeys : wrote[d][k] # Nil => inv'[k] = inv[k]
      /\ \A k \in InvKeys : inv[k] # Nil => inv'[k] # Nil
  BY DEF RowStep
<1>2. OpKnows(d)'
  <2>1. op[d] = "safety.save" => copy[d].key \in InvKeys
    BY DEF OpRows, OpKnows
  <2> QED BY <1>1, <2>1 DEF OpRows, OpKnows
<1>3. OpCarries(d)'
  <2> SUFFICES ASSUME Single(d)', NEW s \in Stores
               PROVE  Carried(d, s)' = IF op'[d] \in OpHolding /\ place'[d] = s THEN delta'[d] ELSE 0
    BY DEF OpCarries
  <2>1. Single(d)
    BY SingleBefore
  <2>2. Carried(d, s)' = Carried(d, s)
    BY <1>1, CarriedSame
  <2> QED BY <2>1, <2>2 DEF OpRows, OpCarries
<1> QED BY <1>2, <1>3 DEF OpRows

\* Without rows there is nothing to carry.
LEMMA OpNothing ==
    ASSUME NEW c \in Sessions, \A k \in InvKeys : wrote'[c][k] = Nil, OpKnows(c)',
           op'[c] \in OpHolding => delta'[c] = 0
    PROVE  OpRows(c)'
<1>1. \A s \in Stores : Carried(c, s)' = 0
  BY CarriedNone
<1> QED BY <1>1 DEF OpRows, OpCarries

\* The end of a request.
LEMMA EndRows ==
    ASSUME OpsTypeOK, NEW c \in Sessions, End(c), RowStep(c), journal' \in [Stores -> Int],
           \A k \in InvKeys : wrote'[c][k] = Nil
    PROVE  OpResult(c) /\ op'[c] = "idle"
<1>1. /\ op' = [op EXCEPT ![c] = "idle"] /\ place' = [place EXCEPT ![c] = Nil]
      /\ delta' = [delta EXCEPT ![c] = 0] /\ copy' = [copy EXCEPT ![c] = Nil]
  BY DEF End, At
<1>2. OpsTypeOK'
  BY <1>1 DEF OpsTypeOK, RowStep, InventoryInv, OpLabels
<1>3. op'[c] = "idle" /\ OpOthers(c)
  BY <1>1 DEF OpsTypeOK, OpOthers
<1>4. OpKnows(c)'
  BY <1>3 DEF OpKnows
<1>5. OpRows(c)'
  BY <1>3, <1>4, OpNothing DEF OpHolding
<1> QED BY <1>2, <1>3, <1>5 DEF OpResult

LEMMA AbortRows ==
    ASSUME OpsTypeOK, InventoryInv, NEW c \in Sessions, Abort(c)
    PROVE  OpResult(c) /\ op'[c] = "idle"
<1>1. RollbackRows(c) /\ End(c) /\ journal' = journal /\ journal \in [Stores -> Int]
  BY DEF OpsTypeOK, Abort
<1>2. RowStep(c) /\ \A k \in InvKeys : wrote'[c][k] = Nil
  BY <1>1, EndResult DEF NoWrites
<1> QED BY <1>1, <1>2, EndRows

\* A document is inserted: the session only moves on.
LEMMA DocumentRows ==
    ASSUME OpsTypeOK, InventoryInv, NEW c \in Sessions, OpRows(c),
           NEW label \in {"stocktake.adjust", "commit"}, InsertDocument(c, label),
           \/ op[c] = "record.insert" /\ label = "commit"
           \/ op[c] = "stocktake.insert" /\ (label = "commit" => delta[c] = 0)
    PROVE  OpResult(c)
<1>1. /\ op' = [op EXCEPT ![c] = label]
      /\ UNCHANGED <<inv, wrote, place, delta, copy, journal>>
  BY DEF InsertDocument, At
<1>2. OpsTypeOK' /\ RowStep(c)
  BY <1>1, QuietRows DEF OpsTypeOK, InvTypeOK, OpLabels
<1>3. op'[c] = label /\ OpOthers(c)
  BY <1>1 DEF OpsTypeOK, OpOthers
<1>4. OpKnows(c)'
  BY <1>1, <1>3 DEF OpRows, OpKnows, OpHolding
<1>5. CASE op[c] = "record.insert"
  <2>1. \A s \in Stores : Carried(c, s)' = Carried(c, s)
    BY <1>1, CarriedSame
  <2>2. OpCarries(c)'
    BY <1>1, <1>3, <1>5, <2>1 DEF OpRows, OpCarries, OpHolding, Single, View
  <2> QED BY <1>2, <1>3, <1>4, <2>2 DEF OpResult, OpRows
<1>6. CASE op[c] = "stocktake.insert"
  <2>1. OpRows(c)'
    BY <1>1, <1>3, <1>4, <1>6, OpNothing DEF OpRows, OpKnows, OpHolding
  <2> QED BY <1>2, <1>3, <2>1 DEF OpResult
<1> QED BY <1>5, <1>6

\* The UPDATE of a movement.
LEMMA AdjustOpRows ==
    ASSUME OpsTypeOK, InventoryInv, NEW c \in Sessions, OpRows(c),
           NEW label \in OpHolding, op[c] \in {"record.adjust", "stocktake.adjust"},
           Adjust(c, label)
    PROVE  OpResult(c)
<1>1. CASE Abort(c)
  BY <1>1, AbortRows
<1>2. CASE ~Abort(c)
  <2>1. /\ Adjusted(c, place[c], delta[c]) # {} /\ AdjustRows(c, place[c], delta[c])
        /\ op' = [op EXCEPT ![c] = label] /\ UNCHANGED <<place, delta, copy, journal>>
        /\ place[c] \in Stores /\ delta[c] \in Int
        /\ \A k \in InvKeys : wrote[c][k] = Nil
    BY <1>2 DEF Adjust, At, OpsTypeOK, OpRows, OpKnows, OpHolding
  <2>2. RowStep(c) /\ inv' = inv
    BY <2>1, AdjustResult
  <2>3. OpsTypeOK' /\ op'[c] = label /\ OpOthers(c)
    BY <2>1, <2>2 DEF OpsTypeOK, RowStep, InventoryInv, OpLabels, OpHolding, OpOthers
  <2>4. OpKnows(c)'
    BY <2>1, <2>3 DEF OpKnows, OpHolding
  <2>5. OpCarries(c)'
    <3> SUFFICES ASSUME Single(c)', NEW s \in Stores
                 PROVE  Carried(c, s)' = IF place[c] = s THEN delta[c] ELSE 0
      BY <2>1, <2>3 DEF OpCarries
    <3>1. Single(c)
      BY <2>1, <2>2, SingleBefore
    <3>2. Carried(c, s)' = Carried(c, s) + IF s = place[c] THEN delta[c] ELSE 0
      BY <2>1, <3>1, AdjustCarries
    <3>3. Carried(c, s) = 0
      BY <2>1, CarriedNone
    <3> QED BY <2>1, <3>2, <3>3
  <2> QED BY <2>2, <2>3, <2>4, <2>5 DEF OpResult, OpRows
<1> QED BY <1>1, <1>2

\* A request arrives.
LEMMA BeginRows ==
    ASSUME OpsTypeOK, InventoryInv, NEW c \in Sessions, OpRows(c),
           NEW s \in Stores, NEW n \in Int,
           NEW label \in {"record.adjust", "stocktake.insert", "ensure.insert"},
           label = "ensure.insert" => n \in Nat,
           Begin(c, s, n, label)
    PROVE  OpResult(c)
<1>1. /\ op[c] = "idle" /\ op' = [op EXCEPT ![c] = label]
      /\ place' = [place EXCEPT ![c] = s] /\ delta' = [delta EXCEPT ![c] = n]
      /\ UNCHANGED <<inv, wrote, copy, journal>>
  BY DEF Begin, At
<1>2. OpsTypeOK' /\ RowStep(c)
  BY <1>1, QuietRows DEF OpsTypeOK, InvTypeOK, OpLabels
<1>3. op'[c] = label /\ place'[c] = s /\ delta'[c] = n /\ OpOthers(c)
  BY <1>1 DEF OpsTypeOK, OpOthers
<1>4. OpKnows(c)' /\ \A k \in InvKeys : wrote'[c][k] = Nil
  BY <1>1, <1>3 DEF OpRows, OpKnows, OpHolding
<1>5. OpRows(c)'
  BY <1>3, <1>4, OpNothing DEF OpHolding
<1> QED BY <1>2, <1>3, <1>5 DEF OpResult

LEMMA OpRequestRows ==
    ASSUME OpsTypeOK, InventoryInv, NEW c \in Sessions, OpRows(c), OpRequest(c)
    PROVE  OpResult(c)
<1>1. ASSUME NEW s \in Stores, NEW type \in StockRecordTypes, NEW q \in Moved, Record(c, s, type, q)
      PROVE  OpResult(c)
  <2>1. StockDirection(type) * q \in Int
    BY DEF StockDirection
  <2> QED BY <1>1, <2>1, BeginRows DEF Record
<1>2. ASSUME NEW s \in Stores, NEW actual \in Counted, Stocktake(c, s, actual)
      PROVE  OpResult(c)
  <2>1. FindByStoreAndSKU(c, s) \in InvKeys /\ View(c, FindByStoreAndSKU(c, s)) # Nil
    BY <1>2, FoundIsThere DEF Stocktake, RowsOf
  <2>2. View(c, FindByStoreAndSKU(c, s)) \in InvRow
    BY <2>1 DEF View, InventoryInv, InvTypeOK
  <2>3. actual - View(c, FindByStoreAndSKU(c, s)).qty \in Int
    BY <2>2 DEF InvRow
  <2> QED BY <1>2, <2>3, BeginRows DEF Stocktake
<1>3. ASSUME NEW s \in Stores, NEW q \in Opening, Ensure(c, s, q)
      PROVE  OpResult(c)
  BY <1>3, BeginRows DEF Ensure
<1>4. ASSUME NEW k \in InvKeys, NEW v \in Thresholds, SetSafetyStock(c, k, v)
      PROVE  OpResult(c)
  <2>1. /\ op[c] = "idle" /\ inv[k] \in InvRow /\ inv[k] # Nil
        /\ op' = [op EXCEPT ![c] = "safety.save"]
        /\ copy' = [copy EXCEPT ![c] = [key |-> k, row |-> [inv[k] EXCEPT !.safety = v]]]
        /\ UNCHANGED <<inv, wrote, place, delta, journal>>
    BY <1>4 DEF SetSafetyStock, At, InventoryInv, InvTypeOK
  <2>2. [key |-> k, row |-> [inv[k] EXCEPT !.safety = v]] \in [key : InvKeys, row : InvRow]
    BY <2>1 DEF InvRow
  <2>3. OpsTypeOK' /\ RowStep(c)
    BY <2>1, <2>2, QuietRows DEF OpsTypeOK, InvTypeOK, OpLabels
  <2>4. /\ op'[c] = "safety.save" /\ copy'[c] = [key |-> k, row |-> [inv[k] EXCEPT !.safety = v]]
        /\ OpOthers(c)
    BY <2>1, <2>2 DEF OpsTypeOK, OpOthers
  <2>5. copy'[c] \in [key : InvKeys, row : InvRow] /\ copy'[c].key = k
    BY <2>2, <2>4
  <2>6. OpKnows(c)' /\ \A j \in InvKeys : wrote'[c][j] = Nil
    BY <2>1, <2>4, <2>5 DEF OpRows, OpKnows, OpHolding
  <2>7. OpRows(c)'
    BY <2>4, <2>6, OpNothing DEF OpHolding
  <2> QED BY <2>3, <2>4, <2>7 DEF OpResult
<1> QED BY <1>1, <1>2, <1>3, <1>4 DEF OpRequest

\* The three statements that commit.
LEMMA OpCommitRows ==
    ASSUME OpsTypeOK, InventoryInv, NEW c \in Sessions, OpRows(c), OpCommit(c)
    PROVE  OpResult(c) /\ op'[c] = "idle"
<1>1. /\ CommitRows(c) /\ End(c) /\ place[c] \in Stores /\ delta[c] \in Int
      /\ journal' = [journal EXCEPT ![place[c]] = @ + delta[c]]
  BY DEF OpsTypeOK, OpRows, OpKnows, OpCommit
<1>2. RowStep(c) /\ \A k \in InvKeys : wrote'[c][k] = Nil
  BY <1>1, EndResult DEF NoWrites
<1>3. journal' \in [Stores -> Int]
  BY <1>1 DEF OpsTypeOK
<1> QED BY <1>1, <1>2, <1>3, EndRows

LEMMA EnsureInsertRows ==
    ASSUME OpsTypeOK, InventoryInv, NEW c \in Sessions, OpRows(c), EnsureInsert(c)
    PROVE  /\ OpResult(c) /\ op'[c] = "idle"
           /\ \A k \in InvKeys : inv[k] # Nil => inv'[k] = inv[k]
           /\ \A s \in Stores : Held(s)' = Held(s) + IF place[c] = s THEN delta[c] ELSE 0
<1> DEFINE new == <<place[c], Min(FreeSlots(place[c]))>>
           row == [qty |-> delta[c], safety |-> 0]
<1>1. /\ op[c] = "ensure.insert" /\ place[c] \in Stores /\ delta[c] \in Nat
      /\ wrote' = wrote /\ End(c) /\ inv' = [inv EXCEPT ![new] = row]
      /\ journal' = [journal EXCEPT ![place[c]] = @ + delta[c]]
      /\ \A k \in InvKeys : wrote[c][k] = Nil
  BY DEF EnsureInsert, OpRows, OpKnows, OpHolding
<1>2. /\ new \in InvKeys /\ new[1] = place[c] /\ inv[new] = Nil
      /\ \A d \in Sessions : wrote[d][new] = Nil
  BY <1>1, MinIsFree DEF EnsureInsert, FreeSlots, InvKeys
<1>3. row \in InvRow /\ row.qty = delta[c]
  BY <1>1 DEF InvRow
<1> HIDE DEF new, row
<1>4. RowStep(c) /\ \A j \in InvKeys : j # new => inv'[j] = inv[j]
  <2>1. InvFree(c, {new})
    BY <1>2 DEF InvFree
  <2> QED BY <1>1, <1>2, <1>3, <2>1, RowCommitted
<1>5. journal' \in [Stores -> Int]
  BY <1>1 DEF OpsTypeOK
<1>6. OpResult(c) /\ op'[c] = "idle"
  BY <1>1, <1>4, <1>5, EndRows
<1>7. InvTypeOK /\ inv'[new] = row /\ row # Nil
  BY <1>1, <1>2, <1>3, NilInvAssumption DEF InventoryInv, InvTypeOK
<1>8. \A k \in InvKeys : Amount(inv'[k]) = IF k = new THEN Amount(inv[k]) + delta[c]
                                                       ELSE Amount(inv[k])
  BY <1>1, <1>2, <1>3, <1>4, <1>7 DEF Amount
<1>9. ASSUME NEW s \in Stores
      PROVE  Held(s)' = Held(s) + IF new[1] = s THEN delta[c] ELSE 0
  BY <1>1, <1>2, <1>7, <1>8, HeldChange
<1> QED BY <1>2, <1>4, <1>6, <1>9

LEMMA SafetySaveRows ==
    ASSUME OpsTypeOK, InventoryInv, NEW c \in Sessions, OpRows(c), SafetySave(c)
    PROVE  /\ OpResult(c) /\ op'[c] = "idle" /\ journal' = journal
           /\ \A k \in InvKeys : k # copy[c].key => inv'[k] = inv[k]
           /\ \A s \in Stores :
                 \/ copy[c].key[1] # s
                 \/ inv'[copy[c].key].qty = inv[copy[c].key].qty
                 => Held(s)' = Held(s)
<1>1. /\ op[c] = "safety.save" /\ copy[c].key \in InvKeys /\ copy[c].row \in InvRow
      /\ inv[copy[c].key] # Nil /\ wrote' = wrote /\ End(c) /\ journal' = journal
      /\ inv' = [inv EXCEPT ![copy[c].key] = copy[c].row]
      /\ InvFree(c, {copy[c].key}) /\ \A k \in InvKeys : wrote[c][k] = Nil
  BY DEF SafetySave, OpRows, OpKnows, OpHolding
<1>2. RowStep(c) /\ \A k \in InvKeys : k # copy[c].key => inv'[k] = inv[k]
  BY <1>1, RowCommitted
<1>3. OpResult(c) /\ op'[c] = "idle"
  BY <1>1, <1>2, EndRows DEF OpsTypeOK
<1>4. ASSUME inv'[copy[c].key].qty = inv[copy[c].key].qty, NEW s \in Stores
      PROVE  Held(s)' = Held(s)
  <2>1. inv'[copy[c].key] # Nil
    BY <1>1, <1>2 DEF RowStep
  <2>2. \A k \in InvKeys : Amount(inv'[k]) = Amount(inv[k])
    BY <1>1, <1>2, <1>4, <2>1 DEF Amount
  <2> QED BY <2>2, HeldKept
<1>5. ASSUME NEW s \in Stores, copy[c].key[1] # s
      PROVE  Held(s)' = Held(s)
  <2>1. PICK x \in InvKeys : x = copy[c].key
    BY <1>1
  <2>2. PICK n \in Int : Amount(inv'[x]) = Amount(inv[x]) + n
    <3>1. Amount(inv[x]) \in Int /\ Amount(inv'[x]) \in Int
      BY <1>1, <2>1 DEF InventoryInv, InvTypeOK, InvRow, Amount
    <3>2. Amount(inv'[x]) - Amount(inv[x]) \in Int
      BY <3>1
    <3>3. Amount(inv'[x]) = Amount(inv[x]) + (Amount(inv'[x]) - Amount(inv[x]))
      BY <3>1
    <3> QED BY <3>2, <3>3
  <2>3. \A k \in InvKeys : Amount(inv'[k]) = IF k = x THEN Amount(inv[k]) + n ELSE Amount(inv[k])
    BY <1>2, <2>1, <2>2
  <2>4. Held(s)' = Held(s) + 0 /\ Held(s) \in Int
    BY <1>5, <2>1, <2>3, HeldChange, HeldType DEF InventoryInv
  <2> QED BY <2>4
<1> QED BY <1>1, <1>2, <1>3, <1>4, <1>5

\* Every step of a stock request, on the rows of store_inventories.
LEMMA OpStepRows ==
    ASSUME OpsTypeOK, InventoryInv, NEW c \in Sessions, OpRows(c),
           OpRequest(c) \/ OpStep(c) \/ OpFail(c)
    PROVE  OpResult(c)
<1>1. CASE RecordAdjust(c)
  BY <1>1, AdjustOpRows DEF RecordAdjust, OpHolding
<1>2. CASE RecordInsert(c)
  BY <1>2, DocumentRows DEF RecordInsert
<1>3. CASE StocktakeInsert(c)
  BY <1>3, DocumentRows DEF StocktakeInsert
<1>4. CASE StocktakeAdjust(c)
  BY <1>4, AdjustOpRows DEF StocktakeAdjust, OpHolding
<1> QED BY <1>1, <1>2, <1>3, <1>4, OpRequestRows, OpCommitRows, EnsureInsertRows, SafetySaveRows,
           AbortRows DEF OpStep, OpFail

\* Between its commits a stock request leaves the committed rows alone.
LEMMA OpKeepsRows ==
    ASSUME NEW c \in Sessions, OpRequest(c) \/ OpStep(c) \/ OpFail(c),
           ~OpCommit(c), ~EnsureInsert(c), ~SafetySave(c)
    PROVE  inv' = inv /\ journal' = journal
BY DEF OpRequest, Record, Stocktake, Ensure, SetSafetyStock, Begin, OpStep, RecordAdjust,
       RecordInsert, StocktakeInsert, StocktakeAdjust, Adjust, AdjustRows, InsertDocument,
       OpFail, Abort, RollbackRows

\* The step does not save a row of store s, or saves the quantity it finds there.
LeavesStock(c, s) ==
    SafetySave(c) => \/ copy[c].key[1] # s
                     \/ inv'[copy[c].key].qty = inv[copy[c].key].qty

\* The rows and the journal move together.
LEMMA OpStepBooks ==
    ASSUME OpsTypeOK, InventoryInv, NEW c \in Sessions, OpRows(c), SingleRow',
           OpRequest(c) \/ OpStep(c) \/ OpFail(c), NEW s \in Stores, LeavesStock(c, s)
    PROVE  \/ Held(s)' = Held(s) /\ journal'[s] = journal[s]
           \/ /\ delta[c] \in Int /\ journal[s] \in Int
              /\ Held(s)' = Held(s) + delta[c] /\ journal'[s] = journal[s] + delta[c]
<1>0. journal[s] \in Int /\ delta[c] \in Int /\ Held(s) \in Int
  BY HeldType DEF OpsTypeOK, InventoryInv
<1>1. CASE OpCommit(c)
  <2>1. /\ CommitRows(c) /\ op[c] = "commit"
        /\ journal' = [journal EXCEPT ![place[c]] = @ + delta[c]]
    BY <1>1 DEF OpCommit
  <2>2. Carried(c, s) = IF place[c] = s THEN delta[c] ELSE 0
    BY <2>1, CommitSingle DEF OpRows, OpCarries, OpHolding
  <2>3. Held(s)' = Held(s) + Carried(c, s)
    BY <2>1, CommitHeld
  <2>4. journal'[s] = IF place[c] = s THEN journal[s] + delta[c] ELSE journal[s]
    BY <2>1 DEF OpsTypeOK
  <2> QED BY <1>0, <2>2, <2>3, <2>4
<1>2. CASE EnsureInsert(c)
  <2>1. Held(s)' = Held(s) + IF place[c] = s THEN delta[c] ELSE 0
    BY <1>2, EnsureInsertRows
  <2>2. journal'[s] = IF place[c] = s THEN journal[s] + delta[c] ELSE journal[s]
    BY <1>2 DEF EnsureInsert, OpsTypeOK
  <2> QED BY <1>0, <2>1, <2>2
<1>3. CASE SafetySave(c)
  BY <1>3, SafetySaveRows DEF LeavesStock
<1>4. CASE ~OpCommit(c) /\ ~EnsureInsert(c) /\ ~SafetySave(c)
  BY <1>4, OpKeepsRows, HeldSame
<1> QED BY <1>1, <1>2, <1>3, <1>4

-----------------------------------------------------------------------------
\* The stock services alone.
OpsInv ==
    /\ OpsTypeOK
    /\ InventoryInv
    /\ \A c \in Sessions : OpRows(c)

LEMMA OpsStarts == StockOpsInit => OpsInv
<1> SUFFICES ASSUME StockOpsInit PROVE OpsInv
  OBVIOUS
<1>1. ASSUME NEW k \in InvKeys, InitStock[k[1]] # Nil
      PROVE  [qty |-> InitStock[k[1]], safety |-> 0] \in InvRow
  BY <1>1, InitStockAssumption DEF InvKeys, InvRow
<1>2. InvTypeOK
  BY <1>1 DEF StockOpsInit, InvInit, InvTypeOK, NoWrites
<1>3. OpsTypeOK
  BY <1>2 DEF StockOpsInit, OpsInit, OpsTypeOK, OpLabels
<1>4. Exclusive /\ \A c \in Sessions : OpKnows(c)
  BY DEF StockOpsInit, OpsInit, InvInit, NoWrites, Exclusive, OpKnows, OpHolding
<1>5. ASSUME NEW c \in Sessions PROVE OpCarries(c)
  <2>1. op[c] = "idle" /\ \A k \in InvKeys : wrote[c][k] = Nil
    BY DEF StockOpsInit, OpsInit, InvInit, NoWrites
  <2> QED BY <2>1, CarriedNone DEF OpCarries, OpHolding
<1> QED BY <1>2, <1>3, <1>4, <1>5 DEF OpsInv, InventoryInv, OpRows

LEMMA OpsStepKeeps == OpsInv /\ [OpsNext]_<<inv, wrote, opsVars>> => OpsInv'
<1> SUFFICES ASSUME OpsInv, [OpsNext]_<<inv, wrote, opsVars>> PROVE OpsInv'
  OBVIOUS
<1>1. CASE OpsNext
  <2>1. PICK c \in Sessions : OpRequest(c) \/ OpStep(c) \/ OpFail(c)
    BY <1>1 DEF OpsNext
  <2>2. OpResult(c)
    BY <2>1, OpStepRows DEF OpsInv
  <2>3. ASSUME NEW d \in Sessions \ {c} PROVE OpRows(d)'
    BY <2>2, OpRowsFrame DEF OpsInv, OpResult, OpOthers
  <2> QED BY <2>2, <2>3 DEF OpsInv, OpResult, RowStep
<1>2. CASE UNCHANGED <<inv, wrote, opsVars>>
  <2>1. OpsTypeOK' /\ InventoryInv'
    BY <1>2 DEF opsVars, OpsInv, OpsTypeOK, InventoryInv, InvTypeOK, Exclusive
  <2>2. ASSUME NEW c \in Sessions PROVE OpRows(c)'
    <3>1. OpKnows(c)'
      BY <1>2 DEF opsVars, OpsInv, OpRows, OpKnows
    <3>2. \A s \in Stores : Carried(c, s)' = Carried(c, s)
      BY <1>2, CarriedSame
    <3>3. OpCarries(c)'
      BY <1>2, <3>2 DEF opsVars, OpsInv, OpRows, OpCarries, Single, View
    <3> QED BY <3>1, <3>3 DEF OpRows
  <2> QED BY <2>1, <2>2 DEF OpsInv
<1> QED BY <1>1, <1>2

\* The save that SavesAreFresh is about, of whichever session.
FreshSaves == \A c \in Sessions : SafetySave(c) => inv'[copy[c].key].qty = inv[copy[c].key].qty

\* For every number of sessions: where no save of a threshold brings an old
\* quantity back, the stock is what the records, stocktakes and opening
\* quantities add up to, in every state in which no store has two rows.
THEOREM JournalCorrect == OpsSpec /\ SavesAreFresh => [](SingleRow => StockMatchesJournal)
<1> DEFINE v == <<inv, wrote, opsVars>>
<1>1. StockOpsInit => StockMatchesJournal
  <2> SUFFICES ASSUME StockOpsInit, NEW s \in Stores PROVE Held(s) = Initially(s) + journal[s]
    BY DEF StockMatchesJournal
  <2>1. Held(s) = Initially(s) /\ Initially(s) \in Int /\ journal[s] = 0
    BY HeldAtFirst, InitStockAssumption DEF StockOpsInit, OpsInit, Initially
  <2> QED BY <2>1
<1>2. OpsInv /\ (SingleRow => StockMatchesJournal) /\ [OpsNext]_v /\ [FreshSaves]_v
      => (SingleRow => StockMatchesJournal)'
  <2> SUFFICES ASSUME OpsInv, SingleRow => StockMatchesJournal, SingleRow', [OpsNext]_v,
                      [FreshSaves]_v
               PROVE  StockMatchesJournal'
    OBVIOUS
  <2>1. CASE UNCHANGED v
    <3>1. /\ SingleRow /\ journal' = journal
          /\ \A s \in Stores : Held(s)' = Held(s)
      BY <2>1, HeldSame DEF opsVars, SingleRow
    <3> QED BY <3>1 DEF StockMatchesJournal, Initially
  <2>2. CASE OpsNext /\ FreshSaves
    <3>1. PICK c \in Sessions : OpRequest(c) \/ OpStep(c) \/ OpFail(c)
      BY <2>2 DEF OpsNext
    <3>2. RowStep(c)
      BY <3>1, OpStepRows DEF OpsInv, OpResult
    <3>3. StockMatchesJournal
      BY <3>2, SingleRemains
    <3>4. ASSUME NEW s \in Stores PROVE Held(s)' = Initially(s) + journal'[s]
      <4>1. Held(s) = Initially(s) + journal[s] /\ Initially(s) \in Int
        BY <3>3, InitStockAssumption DEF StockMatchesJournal, Initially
      <4>2. \/ Held(s)' = Held(s) /\ journal'[s] = journal[s]
            \/ /\ delta[c] \in Int /\ journal[s] \in Int
               /\ Held(s)' = Held(s) + delta[c] /\ journal'[s] = journal[s] + delta[c]
        BY <2>2, <3>1, OpStepBooks DEF OpsInv, FreshSaves, LeavesStock
      <4> QED BY <4>1, <4>2
    <3> QED BY <3>4 DEF StockMatchesJournal, Initially
  <2> QED BY <2>1, <2>2
<1> HIDE DEF v
<1>3. SavesAreFresh => [][FreshSaves]_v
  BY DEF SavesAreFresh, FreshSaves, v
<1>4. OpsSpec => StockOpsInit /\ [][OpsNext]_v
  BY DEF OpsSpec, v
<1>5. OpsInv /\ [OpsNext]_v => OpsInv'
  BY OpsStepKeeps DEF v
<1> QED BY <1>1, <1>2, <1>3, <1>4, <1>5, OpsStarts, PTL

-----------------------------------------------------------------------------
\* Both over one table. A session serves one service at a time; it knows of its
\* rows what the request it serves implies, and nothing is held by an idle one.
LinkInv ==
    /\ IInv
    /\ OpsTypeOK
    /\ InventoryInv
    /\ \A c \in Sessions :
          /\ op[c] = "idle" \/ pc[c] = "idle"
          /\ op[c] = "idle" => TransferRows(c)
          /\ pc[c] = "idle" => OpRows(c)

LEMMA TransferIdle ==
    ASSUME NEW c \in Sessions, LocksKnown(c)', pc'[c] = "idle", op'[c] = "idle"
    PROVE  OpRows(c)'
<1>1. (\A k \in InvKeys : wrote'[c][k] = Nil) /\ OpKnows(c)'
  BY DEF LocksKnown, Holding, OpKnows
<1> QED BY <1>1, OpNothing DEF OpHolding

LEMMA OpIdle ==
    ASSUME NEW c \in Sessions, OpKnows(c)', pc'[c] = "idle", op'[c] = "idle"
    PROVE  TransferRows(c)'
<1>1. LocksKnown(c)'
  BY DEF LocksKnown, OpKnows, OpHolding
<1> QED BY <1>1, Dropped DEF Holding

\* What the transfer service knows of orders does not depend on the rows.
LEMMA StockStepKeepsOrders ==
    ASSUME IInv, InvTypeOK', UNCHANGED <<order, ledger, pc, target, amount, seen, draft, work>>
    PROVE  IInv'
<1>1. TypeOK'
  BY DEF IInv, TypeOK
<1>2. \A c \in Sessions : SessionInv(c)'
  BY SessionFrame DEF IInv
<1>3. \A c, d \in Sessions : c # d => Apart(c, d)'
  BY DEF IInv, Apart
<1>4. \A o \in Orders : RowInv(o)'
  BY DEF IInv, RowInv
<1> QED BY <1>1, <1>2, <1>3, <1>4 DEF IInv

LEMMA TransferStepKeepsLink ==
    ASSUME LinkInv, NEW c \in Sessions, TransferStep(c)
    PROVE  LinkInv'
<1>1. /\ Request(c) \/ Step(c) \/ Fail(c)
      /\ op[c] = "idle" /\ UNCHANGED <<op, place, delta, copy, journal>>
      /\ IInv /\ TypeOK /\ InventoryInv /\ TransferRows(c)
  BY DEF TransferStep, LinkInv, opsVars, IInv
<1>2. RowStep(c) /\ TransferRows(c)' /\ Others(c)
  BY <1>1, TransferStepRows, TransferOthers
<1>3. IInv'
  BY <1>1, NextIInv DEF Next
<1>4. InventoryInv' /\ OpsTypeOK'
  BY <1>1, <1>2 DEF LinkInv, OpsTypeOK, RowStep, InventoryInv
<1>5. pc'[c] = "idle" => OpRows(c)'
  BY <1>1, <1>2, TransferIdle DEF TransferRows
<1>6. ASSUME NEW d \in Sessions \ {c}
      PROVE  /\ op'[d] = "idle" \/ pc'[d] = "idle"
             /\ op'[d] = "idle" => TransferRows(d)'
             /\ pc'[d] = "idle" => OpRows(d)'
  <2>1. pc'[d] = pc[d] /\ seen'[d] = seen[d] /\ work'[d] = work[d]
    BY <1>2 DEF Others
  <2>2. op[d] = "idle" => TransferRows(d)'
    BY <1>1, <1>2, <2>1, TransferRowsFrame DEF LinkInv
  <2>3. pc[d] = "idle" => OpRows(d)'
    BY <1>1, <1>2, OpRowsFrame DEF LinkInv
  <2> QED BY <1>1, <2>1, <2>2, <2>3 DEF LinkInv
<1> QED BY <1>1, <1>2, <1>3, <1>4, <1>5, <1>6 DEF LinkInv

LEMMA StockStepKeepsLink ==
    ASSUME LinkInv, NEW c \in Sessions, StockStep(c)
    PROVE  LinkInv'
<1>1. /\ OpRequest(c) \/ OpStep(c) \/ OpFail(c)
      /\ pc[c] = "idle" /\ UNCHANGED <<order, ledger, pc, target, amount, seen, draft, work>>
      /\ IInv /\ InventoryInv /\ OpsTypeOK /\ OpRows(c)
  BY DEF StockStep, LinkInv
<1>2. OpResult(c)
  BY <1>1, OpStepRows
<1>3. RowStep(c) /\ OpRows(c)' /\ OpOthers(c) /\ OpsTypeOK' /\ InventoryInv'
  BY <1>2 DEF OpResult, RowStep
<1>4. IInv'
  BY <1>1, <1>3, StockStepKeepsOrders DEF InventoryInv
<1>5. op'[c] = "idle" => TransferRows(c)'
  BY <1>1, <1>3, OpIdle DEF OpRows
<1>6. ASSUME NEW d \in Sessions \ {c}
      PROVE  /\ op'[d] = "idle" \/ pc'[d] = "idle"
             /\ op'[d] = "idle" => TransferRows(d)'
             /\ pc'[d] = "idle" => OpRows(d)'
  <2>1. op'[d] = op[d] /\ place'[d] = place[d] /\ delta'[d] = delta[d] /\ copy'[d] = copy[d]
    BY <1>3 DEF OpOthers
  <2>2. op[d] = "idle" => TransferRows(d)'
    BY <1>1, <1>3, TransferRowsFrame DEF LinkInv
  <2>3. pc[d] = "idle" => OpRows(d)'
    BY <1>1, <1>3, <2>1, OpRowsFrame DEF LinkInv
  <2> QED BY <1>1, <2>1, <2>2, <2>3 DEF LinkInv
<1> QED BY <1>1, <1>3, <1>4, <1>5, <1>6 DEF LinkInv

LEMMA LinkStarts == StockLinkInit => LinkInv
<1> SUFFICES ASSUME StockLinkInit PROVE LinkInv
  OBVIOUS
<1>1. TransferInv /\ \A c \in Sessions : pc[c] = "idle" /\ op[c] = "idle"
  BY InitTransferInv DEF StockLinkInit, Init, OpsInit
<1>2. OpsInv
  BY OpsStarts DEF StockLinkInit, StockOpsInit, Init
<1> QED BY <1>1, <1>2 DEF TransferInv, OpsInv, LinkInv

LEMMA LinkKeeps == LinkInv /\ [StockLinkNext]_allVars => LinkInv'
<1> SUFFICES ASSUME LinkInv, [StockLinkNext]_allVars PROVE LinkInv'
  OBVIOUS
<1>1. CASE StockLinkNext
  BY <1>1, TransferStepKeepsLink, StockStepKeepsLink DEF StockLinkNext
<1>2. CASE UNCHANGED allVars
  <2>1. IInv' /\ OpsTypeOK' /\ InventoryInv'
    <3>1. [Next]_vars /\ [OpsNext]_<<inv, wrote, opsVars>>
      BY <1>2 DEF allVars, vars, opsVars
    <3>2. InventoryInv' /\ OpsTypeOK'
      BY <1>2 DEF allVars, opsVars, LinkInv, InventoryInv, InvTypeOK, Exclusive, OpsTypeOK
    <3> QED BY <3>1, <3>2, NextIInv DEF LinkInv
  <2>2. ASSUME NEW c \in Sessions
        PROVE  /\ op'[c] = "idle" \/ pc'[c] = "idle"
               /\ op'[c] = "idle" => TransferRows(c)'
               /\ pc'[c] = "idle" => OpRows(c)'
    <3>1. \A s \in Stores : Carried(c, s)' = Carried(c, s) /\ Recorded(c, s)' = Recorded(c, s)
      BY <1>2, CarriedSame DEF allVars, Recorded
    <3>2. TransferRows(c) => TransferRows(c)'
      BY <1>2, <3>1 DEF allVars, TransferRows, LocksKnown, CarriesKnown, Single, View
    <3>3. OpRows(c) => OpRows(c)'
      BY <1>2, <3>1 DEF allVars, opsVars, OpRows, OpKnows, OpCarries, Single, View
    <3> QED BY <1>2, <3>2, <3>3 DEF LinkInv, allVars, opsVars
  <2> QED BY <2>1, <2>2 DEF LinkInv
<1> QED BY <1>1, <1>2

-----------------------------------------------------------------------------
\* Waiting across the services: an UPDATE or a save of a stock request has the
\* rank of a movement of stock, and its other statements wait for nobody.
LinkRank(c) ==
    IF op[c] \in {"record.adjust", "stocktake.adjust", "safety.save"} THEN 2 ELSE Rank(c)

\* An open transaction that holds a committed row has moved stock.
LEMMA LinkRowHolders ==
    ASSUME LinkInv, NEW d \in Sessions, NEW k \in InvKeys, inv[k] # Nil, wrote[d][k] # Nil
    PROVE  LinkRank(d) < 2
<1>1. CASE op[d] = "idle"
  BY <1>1, RowHolders DEF LinkInv, TransferRows, LinkRank
<1>2. CASE op[d] # "idle"
  <2>1. op[d] \in OpHolding /\ pc[d] = "idle"
    BY <1>2 DEF LinkInv, OpRows, OpKnows
  <2> QED BY <2>1 DEF LinkRank, OpHolding, Rank
<1> QED BY <1>1, <1>2

LEMMA LinkDescends ==
    ASSUME LinkInv, NEW c \in Sessions, NEW d \in Sessions, Waits(c, d)
    PROVE  LinkRank(d) < LinkRank(c)
<1>1. ASSUME c # d, NEW k \in OpWantedRows(c), wrote[d][k] # Nil
      PROVE  LinkRank(d) < LinkRank(c)
  <2>1. LinkRank(c) = 2
    BY <1>1 DEF OpWantedRows, LinkRank
  <2>2. k \in InvKeys /\ inv[k] # Nil
    <3>1. CASE op[c] = "safety.save"
      <4>1. pc[c] = "idle" /\ OpRows(c)
        BY <3>1 DEF LinkInv
      <4>2. k = copy[c].key /\ copy[c].key \in InvKeys
        BY <1>1, <3>1, <4>1 DEF OpWantedRows, OpRows, OpKnows
      <4> QED BY <3>1, <4>1, <4>2 DEF OpRows, OpKnows
    <3>2. CASE op[c] # "safety.save"
      <4>1. k \in Adjusted(c, place[c], delta[c])
        BY <1>1, <3>2 DEF OpWantedRows
      <4> QED BY <1>1, <4>1, WantedIsCommitted DEF LinkInv, InventoryInv
    <3> QED BY <3>1, <3>2
  <2> QED BY <2>1, <2>2, <1>1, LinkRowHolders
<1>2. ASSUME c # d, NEW k \in WantedRows(c), wrote[d][k] # Nil
      PROVE  LinkRank(d) < LinkRank(c)
  <2>1. /\ pc[c] \in {"ship.deduct", "receive.adjust", "cancel.adjust"}
        /\ k \in InvKeys /\ inv[k] # Nil
    BY <1>2, WantedIsCommitted DEF WantedRows, LinkInv, InventoryInv
  <2>2. LinkRank(c) = 2
    BY <2>1 DEF LinkInv, LinkRank, Rank
  <2> QED BY <2>1, <2>2, <1>2, LinkRowHolders
<1>3. ASSUME WantsOrder(c), target[d] = target[c], draft[d] # Nil
      PROVE  LinkRank(d) < LinkRank(c)
  <2>1. pc[c] # "idle" /\ pc[d] # "idle"
    BY <1>3 DEF WantsOrder, LinkInv, IInv, SessionInv, NoDraft, DraftLabels, CommitLabels
  <2>2. op[c] = "idle" /\ op[d] = "idle" /\ LocksKnown(d)
    BY <2>1 DEF LinkInv, TransferRows
  <2> QED BY <1>3, <2>2, OrderWaits DEF LinkInv, LinkRank
<1> QED BY <1>1, <1>2, <1>3 DEF Waits, WaitsFor

LEMMA NobodyStuckAcross == LinkInv => NoDeadlockAcross
<1> SUFFICES ASSUME LinkInv, NEW D \in SUBSET Sessions, D # {}
             PROVE  \E c \in D : \A d \in D : ~Waits(c, d)
  BY DEF NoDeadlockAcross
<1> DEFINE rank == [c \in Sessions |-> LinkRank(c)]
<1>1. rank \in [Sessions -> Nat]
  BY DEF LinkRank, Rank
<1>2. PICK c \in D : \A d \in D : ~(rank[d] < rank[c])
  BY <1>1, LowestRank
<1> QED BY <1>2, LinkDescends

\* Requests of the two services never deadlock on row locks, however many there
\* are.
THEOREM NoDeadlockAcrossCorrect == StockLinkSpec => []NoDeadlockAcross
BY NobodyStuckAcross, LinkStarts, LinkKeeps, PTL DEF StockLinkSpec

-----------------------------------------------------------------------------
\* The rows and the sessions keep their types; in particular no movement of either
\* service takes a quantity below zero, not even where a store has several rows.
THEOREM OpsTypeCorrect == StockLinkSpec => []OpsTypeOK
<1>1. LinkInv => OpsTypeOK
  BY DEF LinkInv
<1> QED BY <1>1, LinkStarts, LinkKeeps, PTL DEF StockLinkSpec

\* An uncommitted version of a committed row has that row's threshold: the UPDATE
\* took it from there, and who wants to save another one waits for the lock.
SameThreshold(c) ==
    \A k \in InvKeys :
        wrote[c][k] # Nil /\ inv[k] # Nil => wrote[c][k].safety = inv[k].safety

LEMMA LinkRowStep ==
    ASSUME LinkInv, NEW c \in Sessions, TransferStep(c) \/ StockStep(c)
    PROVE  RowStep(c)
<1>1. CASE TransferStep(c)
  BY <1>1, TransferStepRows DEF TransferStep, LinkInv
<1>2. CASE StockStep(c)
  BY <1>2, OpStepRows DEF StockStep, LinkInv, OpResult
<1> QED BY <1>1, <1>2

\* What a session's step makes of its own versions of the rows.
LEMMA OwnVersions ==
    ASSUME LinkInv, NEW c \in Sessions, TransferStep(c) \/ StockStep(c), NEW k \in InvKeys
    PROVE  \/ wrote'[c][k] = Nil
           \/ inv'[k] = Nil
           \/ wrote'[c][k] = wrote[c][k] /\ inv'[k] = inv[k]
           \/ /\ View(c, k) # Nil /\ inv'[k] = inv[k]
              /\ wrote'[c][k].safety = View(c, k).safety
<1>0. TypeOK /\ InventoryInv /\ OpsTypeOK
  BY DEF LinkInv, IInv
<1> DEFINE Own == \/ wrote'[c][k] = Nil
                  \/ inv'[k] = Nil
                  \/ wrote'[c][k] = wrote[c][k] /\ inv'[k] = inv[k]
                  \/ /\ View(c, k) # Nil /\ inv'[k] = inv[k]
                     /\ wrote'[c][k].safety = View(c, k).safety
<1>1. ASSUME CommitRows(c) \/ RollbackRows(c) PROVE Own
  BY <1>0, <1>1, EndResult DEF NoWrites
<1>2. ASSUME NEW s \in Stores, NEW n \in Int, AdjustRows(c, s, n) PROVE Own
  BY <1>0, <1>2, AdjustResult
<1>3. ASSUME NEW s \in Stores, InsertRow(c, s, 0) PROVE Own
  BY <1>0, <1>3, InsertResult
<1>4. CASE TransferStep(c)
  <2>0. /\ Request(c) \/ Step(c) \/ Fail(c)
        /\ IInv /\ TransferRows(c)
    BY <1>4 DEF TransferStep, LinkInv
  <2>1. CASE ShipDeduct(c) \/ ReceiveAdjust(c) \/ CancelAdjust(c)
    <3>1. /\ seen[c].from \in Stores /\ seen[c].to \in Stores
          /\ seen[c].qty \in Nat /\ amount[c] \in Nat /\ ReturnQty(c) \in Nat
      BY <1>0, <2>0, <2>1, SeenFacts DEF CreatedLabels, Labels, ShipDeduct, ReceiveAdjust, CancelAdjust
    <3>2. /\ -seen[c].qty \in Int
          /\ StockDirection("transfer_in") * amount[c] \in Int
          /\ StockDirection("transfer_in") * ReturnQty(c) \in Int
      BY <3>1 DEF StockDirection
    <3>3. CASE Rollback(c)
      BY <1>1, <3>3 DEF Rollback
    <3>4. CASE ~Rollback(c)
      BY <1>2, <2>1, <3>1, <3>2, <3>4 DEF ShipDeduct, ReceiveAdjust, CancelAdjust, MoveStock
    <3> QED BY <3>3, <3>4
  <2>2. CASE ReceiveInsert(c)
    <3>1. seen[c].to \in Stores
      BY <1>0, <2>0, <2>2, SeenFacts DEF CreatedLabels, Labels, ReceiveInsert
    <3> QED BY <1>3, <2>2, <3>1 DEF ReceiveInsert
  <2>3. CASE Rollback(c) \/ Commit(c) \/ CommitThenReload(c)
    BY <1>1, <2>3 DEF Rollback, Commit, CommitThenReload, Publish
  <2>4. CASE UNCHANGED <<inv, wrote>>
    BY <2>4
  <2>5. \/ ShipDeduct(c) \/ ReceiveAdjust(c) \/ CancelAdjust(c) \/ ReceiveInsert(c)
        \/ Rollback(c) \/ Commit(c) \/ CommitThenReload(c)
        \/ UNCHANGED <<inv, wrote>>
    BY <2>0 DEF Request, Create, Confirm, Ship, Receive, Cancel, FindByID, Fail, Step,
       CreateInsert, ConfirmTransition, ShipCheck, ShipRead, ShipTransition, ReceiveReread,
       ReceiveAdd, ReceiveEnsure, ReceiveRead, ReceiveReceipt, CancelReread, CancelTransition,
       CancelRead, Reload, TransitionStatusTx, AddReceivedQuantityTx, UpdateOrder, Check,
       Proceed, Reread
  <2> QED BY <2>1, <2>2, <2>3, <2>4, <2>5
<1>5. CASE StockStep(c)
  <2>0. (OpRequest(c) \/ OpStep(c) \/ OpFail(c)) /\ OpRows(c)
    BY <1>5 DEF StockStep, LinkInv
  <2>1. CASE RecordAdjust(c) \/ StocktakeAdjust(c)
    <3>1. place[c] \in Stores /\ delta[c] \in Int
      BY <1>0, <2>0, <2>1 DEF OpRows, OpKnows, RecordAdjust, StocktakeAdjust, OpsTypeOK
    <3> QED BY <1>1, <1>2, <2>1, <3>1 DEF RecordAdjust, StocktakeAdjust, Adjust, Abort
  <2>2. CASE OpCommit(c) \/ OpFail(c)
    BY <1>1, <2>2 DEF OpCommit, OpFail, Abort
  <2>3. CASE EnsureInsert(c) \/ SafetySave(c)
    <3>1. wrote' = wrote /\ wrote[c][k] = Nil
      BY <2>0, <2>3 DEF EnsureInsert, SafetySave, OpRows, OpKnows, OpHolding
    <3> QED BY <3>1
  <2>4. CASE OpRequest(c) \/ RecordInsert(c) \/ StocktakeInsert(c)
    <3>1. UNCHANGED <<inv, wrote>>
      BY <2>4 DEF OpRequest, Record, Stocktake, Ensure, SetSafetyStock, Begin, RecordInsert,
         StocktakeInsert, InsertDocument
    <3> QED BY <3>1
  <2> QED BY <2>0, <2>1, <2>2, <2>3, <2>4 DEF OpStep
<1> QED BY <1>4, <1>5

ThresholdsKept == LinkInv /\ \A c \in Sessions : SameThreshold(c)

LEMMA ThresholdsStart == StockLinkInit => ThresholdsKept
BY LinkStarts DEF StockLinkInit, Init, InvInit, NoWrites, ThresholdsKept, SameThreshold

LEMMA ThresholdsStay == ThresholdsKept /\ [StockLinkNext]_allVars => ThresholdsKept'
<1> SUFFICES ASSUME ThresholdsKept, [StockLinkNext]_allVars PROVE ThresholdsKept'
  OBVIOUS
<1>1. LinkInv'
  BY LinkKeeps DEF ThresholdsKept
<1>2. CASE UNCHANGED allVars
  BY <1>1, <1>2 DEF allVars, ThresholdsKept, SameThreshold
<1>3. CASE StockLinkNext
  <2>1. PICK c \in Sessions : TransferStep(c) \/ StockStep(c)
    BY <1>3 DEF StockLinkNext
  <2>2. RowStep(c)
    BY <2>1, LinkRowStep DEF ThresholdsKept
  <2>3. ASSUME NEW d \in Sessions \ {c} PROVE SameThreshold(d)'
    BY <2>2 DEF RowStep, ThresholdsKept, SameThreshold
  <2>4. ASSUME NEW k \in InvKeys, wrote'[c][k] # Nil, inv'[k] # Nil
        PROVE  wrote'[c][k].safety = inv'[k].safety
    <3>1. \/ wrote'[c][k] = wrote[c][k] /\ inv'[k] = inv[k]
          \/ /\ View(c, k) # Nil /\ inv'[k] = inv[k]
             /\ wrote'[c][k].safety = View(c, k).safety
      BY <2>1, <2>4, OwnVersions DEF ThresholdsKept
    <3> QED BY <2>4, <3>1 DEF View, ThresholdsKept, SameThreshold
  <2> QED BY <1>1, <2>3, <2>4 DEF ThresholdsKept, SameThreshold
<1> QED BY <1>2, <1>3

\* For every number of sessions of both services: nothing but SetSafetyStock
\* changes a threshold, also while receipts and cancellations move the stock.
THEOREM ThresholdCorrect == StockLinkSpec => MovesKeepThreshold
<1> DEFINE Saved(k) == \E c \in Sessions :
                          op[c] = "safety.save" /\ copy[c].key = k /\ op'[c] = "idle"
<1>1. ThresholdsKept /\ [StockLinkNext]_allVars
      => \A k \in InvKeys : inv[k] # Nil /\ inv'[k].safety # inv[k].safety => Saved(k)
  <2> SUFFICES ASSUME ThresholdsKept, [StockLinkNext]_allVars, NEW k \in InvKeys,
                      inv[k] # Nil, inv'[k].safety # inv[k].safety
               PROVE  Saved(k)
    OBVIOUS
  <2>1. PICK c \in Sessions : TransferStep(c) \/ StockStep(c)
    BY DEF StockLinkNext, allVars
  <2>2. ASSUME CommitRows(c) PROVE FALSE
    <3>1. inv'[k] = wrote[c][k] /\ wrote[c][k] # Nil
      BY <2>2, EndResult DEF ThresholdsKept, LinkInv
    <3> QED BY <3>1 DEF ThresholdsKept, SameThreshold
  <2>3. CASE TransferStep(c)
    <3>1. CASE Commit(c) \/ CommitThenReload(c)
      BY <2>2, <3>1 DEF Commit, CommitThenReload, Publish
    <3>2. CASE ~(Commit(c) \/ CommitThenReload(c))
      <4>1. inv' = inv
        BY <2>3, <3>2, OnlyCommitsShow DEF TransferStep
      <4> QED BY <4>1
    <3> QED BY <3>1, <3>2
  <2>4. CASE StockStep(c)
    <3>0. /\ OpRequest(c) \/ OpStep(c) \/ OpFail(c)
          /\ OpsTypeOK /\ InventoryInv /\ OpRows(c)
      BY <2>4 DEF StockStep, ThresholdsKept, LinkInv
    <3>1. CASE OpCommit(c)
      BY <2>2, <3>1 DEF OpCommit
    <3>2. CASE EnsureInsert(c)
      BY <3>0, <3>2, EnsureInsertRows
    <3>3. CASE SafetySave(c)
      BY <3>0, <3>3, SafetySaveRows DEF SafetySave
    <3>4. CASE ~OpCommit(c) /\ ~EnsureInsert(c) /\ ~SafetySave(c)
      BY <3>0, <3>4, OpKeepsRows
    <3> QED BY <3>1, <3>2, <3>3, <3>4
  <2> QED BY <2>1, <2>3, <2>4
<1> QED BY <1>1, ThresholdsStart, ThresholdsStay, PTL DEF StockLinkSpec, MovesKeepThreshold

-----------------------------------------------------------------------------
\* The stock with both services at work.
StockIsAccounted == \A s \in Stores : Held(s) = Initially(s) + Booked(s) + journal[s]

\* A step of either service moves a store's quantity by what it moves one of the
\* two accounts.
LEMMA LinkBooks ==
    ASSUME LinkInv, NEW c \in Sessions, SingleRow', NEW s \in Stores,
           TransferStep(c) \/ StockStep(c), StockStep(c) => LeavesStock(c, s)
    PROVE  \E n \in Int :
              /\ Held(s)' = Held(s) + n
              /\ \/ Booked(s)' = Booked(s) + n /\ journal'[s] = journal[s]
                 \/ journal'[s] = journal[s] + n /\ Booked(s)' = Booked(s)
<1>0. /\ Held(s) \in Int /\ journal[s] \in Int /\ Booked(s) \in Int
  BY HeldType, BookedTypes DEF LinkInv, IInv, InventoryInv, OpsTypeOK, Booked
<1>1. CASE TransferStep(c)
  <2>1. /\ Request(c) \/ Step(c) \/ Fail(c)
        /\ journal' = journal /\ TransferRows(c)
    BY <1>1 DEF TransferStep, opsVars, LinkInv
  <2>2. \/ Held(s)' = Held(s) /\ Booked(s)' = Booked(s)
        \/ /\ Recorded(c, s) \in Int
           /\ Booked(s)' = Booked(s) + Recorded(c, s) /\ Held(s)' = Held(s) + Recorded(c, s)
    BY <2>1, TransferStepBooks DEF LinkInv
  <2>3. CASE Held(s)' = Held(s) /\ Booked(s)' = Booked(s)
    <3>1. Held(s)' = Held(s) + 0 /\ Booked(s)' = Booked(s) + 0
      BY <1>0, <2>3
    <3> QED BY <2>1, <3>1
  <2> QED BY <2>1, <2>2, <2>3
<1>2. CASE StockStep(c) /\ ~TransferStep(c)
  <2>1. /\ OpRequest(c) \/ OpStep(c) \/ OpFail(c)
        /\ UNCHANGED <<order, ledger>> /\ OpRows(c)
    BY <1>2 DEF StockStep, LinkInv
  <2>2. Booked(s)' = Booked(s)
    BY <2>1, BookedSame
  <2>3. \/ Held(s)' = Held(s) /\ journal'[s] = journal[s]
        \/ /\ delta[c] \in Int
           /\ Held(s)' = Held(s) + delta[c] /\ journal'[s] = journal[s] + delta[c]
    BY <1>2, <2>1, OpStepBooks DEF LinkInv
  <2>4. CASE Held(s)' = Held(s) /\ journal'[s] = journal[s]
    <3>1. Held(s)' = Held(s) + 0 /\ journal'[s] = journal[s] + 0
      BY <1>0, <2>4
    <3> QED BY <2>2, <3>1
  <2> QED BY <2>2, <2>3, <2>4
<1> QED BY <1>1, <1>2

LEMMA AccountedParts ==
    LinkInv => \A s \in Stores :
        /\ Accounted(s) = Initially(s) + Booked(s) + journal[s]
        /\ Initially(s) \in Int /\ Booked(s) \in Int /\ journal[s] \in Int
<1> SUFFICES ASSUME LinkInv, NEW s \in Stores
             PROVE  /\ Accounted(s) = Initially(s) + Booked(s) + journal[s]
                    /\ Initially(s) \in Int /\ Booked(s) \in Int /\ journal[s] \in Int
  OBVIOUS
<1>1. /\ Charged(s) \in Int /\ Delivered(s) \in Int /\ Returned(s) \in Int
      /\ journal[s] \in Int /\ Initially(s) \in Int
  BY BookedTypes, InitStockAssumption DEF LinkInv, IInv, OpsTypeOK, Initially
<1>2. Booked(s) = Delivered(s) + Returned(s) - Charged(s)
  BY DEF Booked
<1> QED BY <1>1, <1>2 DEF Accounted

\* For every number of sessions, stores, orders and rows: a step of either service
\* moves a store's stock by exactly what it adds to the documents, unless it leaves
\* a store with two rows or is a save of SetSafetyStock.
THEOREM StockMovesCorrect == StockLinkSpec => StockMovesWithDocuments
<1> DEFINE Moves(s) == \/ Held(s)' - Held(s) = Accounted(s)' - Accounted(s)
                       \/ \E c \in Sessions : SavesThreshold(c, s)
           Documented == <<inv, order, ledger, journal>>' # <<inv, order, ledger, journal>>
                         /\ SingleRow' => \A s \in Stores : Moves(s)
<1>1. LinkInv' => \A s \in Stores :
         /\ Accounted(s)' = Initially(s) + Booked(s)' + journal'[s]
         /\ Initially(s) \in Int /\ Booked(s)' \in Int /\ journal'[s] \in Int
  <2>1. (LinkInv => \A s \in Stores :
            /\ Accounted(s) = Initially(s) + Booked(s) + journal[s]
            /\ Initially(s) \in Int /\ Booked(s) \in Int /\ journal[s] \in Int)'
    BY AccountedParts, PTL
  <2> QED BY <2>1 DEF Initially
<1>2. LinkInv /\ LinkInv' /\ [StockLinkNext]_allVars => Documented
  <2> SUFFICES ASSUME LinkInv, LinkInv', [StockLinkNext]_allVars, SingleRow',
                      <<inv, order, ledger, journal>>' # <<inv, order, ledger, journal>>,
                      NEW s \in Stores
               PROVE  Moves(s)
    OBVIOUS
  <2>1. PICK c \in Sessions : TransferStep(c) \/ StockStep(c)
    BY DEF StockLinkNext, allVars, opsVars
  <2>2. CASE StockStep(c) => LeavesStock(c, s)
    <3>1. PICK n \in Int :
             /\ Held(s)' = Held(s) + n
             /\ \/ Booked(s)' = Booked(s) + n /\ journal'[s] = journal[s]
                \/ journal'[s] = journal[s] + n /\ Booked(s)' = Booked(s)
      BY <2>1, <2>2, LinkBooks
    <3>2. /\ Accounted(s) = Initially(s) + Booked(s) + journal[s]
          /\ Accounted(s)' = Initially(s) + Booked(s)' + journal'[s]
          /\ Initially(s) \in Int /\ Booked(s) \in Int /\ journal[s] \in Int
          /\ Held(s) \in Int
      BY <1>1, AccountedParts, HeldType DEF LinkInv, InventoryInv
    <3>3. Accounted(s)' = Accounted(s) + n /\ Accounted(s) \in Int
      BY <3>1, <3>2
    <3>4. Held(s)' - Held(s) = n /\ Accounted(s)' - Accounted(s) = n
      BY <3>1, <3>2, <3>3
    <3> QED BY <3>4
  <2>3. CASE ~(StockStep(c) => LeavesStock(c, s))
    <3>1. SafetySave(c) /\ copy[c].key[1] = s /\ LinkInv /\ StockStep(c)
      BY <2>3 DEF LeavesStock
    <3>2. op'[c] = "idle" /\ op[c] = "safety.save"
      BY <3>1 DEF SafetySave, End, At, LinkInv, OpsTypeOK
    <3> QED BY <3>1, <3>2 DEF SavesThreshold
  <2> QED BY <2>2, <2>3
<1>3. LinkInv /\ [StockLinkNext]_allVars => Documented
  BY <1>2, LinkKeeps
<1> QED BY <1>3, LinkStarts, LinkKeeps, PTL DEF StockLinkSpec, StockMovesWithDocuments, SavesThreshold

\* For every number of sessions, stores and orders: where no save of a threshold
\* brings an old quantity back, the documents of both services together account
\* for the stock, in every state in which no store has two rows.
THEOREM SharedStockCorrect ==
    StockLinkSpec /\ SavesAreFresh => [](SingleRow => AllStockAccounted)
<1> DEFINE v == <<inv, wrote, opsVars>>
<1>1. StockLinkInit => StockIsAccounted
  <2> SUFFICES ASSUME StockLinkInit, NEW s \in Stores
               PROVE  Held(s) = Initially(s) + Booked(s) + journal[s]
    BY DEF StockIsAccounted
  <2>1. Booked(s) = 0 /\ journal[s] = 0
    BY NothingBooked DEF StockLinkInit, Init, OpsInit, Booked
  <2>2. Held(s) = Initially(s) /\ Initially(s) \in Int
    BY HeldAtFirst, InitStockAssumption DEF StockLinkInit, Init, Initially
  <2> QED BY <2>1, <2>2
<1>2. LinkInv /\ (SingleRow => StockIsAccounted) /\ [StockLinkNext]_allVars /\ [FreshSaves]_v
      => (SingleRow => StockIsAccounted)'
  <2> SUFFICES ASSUME LinkInv, SingleRow => StockIsAccounted, SingleRow',
                      [StockLinkNext]_allVars, [FreshSaves]_v
               PROVE  StockIsAccounted'
    OBVIOUS
  <2>1. CASE UNCHANGED <<inv, order, ledger, journal>>
    <3>1. /\ SingleRow /\ journal' = journal
          /\ \A s \in Stores : Held(s)' = Held(s) /\ Booked(s)' = Booked(s)
      BY <2>1, HeldSame, BookedSame DEF SingleRow
    <3> QED BY <3>1 DEF StockIsAccounted, Initially
  <2>2. CASE StockLinkNext /\ ~UNCHANGED <<inv, order, ledger, journal>>
    <3>1. PICK c \in Sessions : TransferStep(c) \/ StockStep(c)
      BY <2>2 DEF StockLinkNext
    <3>2. StockIsAccounted
      BY <3>1, LinkRowStep, SingleRemains
    <3>3. StockStep(c) => FreshSaves
      BY <2>2 DEF StockStep, opsVars
    <3>4. ASSUME NEW s \in Stores PROVE Held(s)' = Initially(s) + Booked(s)' + journal'[s]
      <4>1. \E n \in Int :
               /\ Held(s)' = Held(s) + n
               /\ \/ Booked(s)' = Booked(s) + n /\ journal'[s] = journal[s]
                  \/ journal'[s] = journal[s] + n /\ Booked(s)' = Booked(s)
        BY <3>1, <3>3, LinkBooks DEF FreshSaves, LeavesStock
      <4>2. Initially(s) \in Int /\ Booked(s) \in Int /\ journal[s] \in Int
        BY AccountedParts
      <4>3. Held(s) = Initially(s) + Booked(s) + journal[s]
        BY <3>2 DEF StockIsAccounted
      <4> QED BY <4>1, <4>2, <4>3
    <3> QED BY <3>4 DEF StockIsAccounted, Initially
  <2> QED BY <2>1, <2>2 DEF allVars, opsVars
<1>3. LinkInv /\ StockIsAccounted => AllStockAccounted
  BY AccountedParts DEF StockIsAccounted, AllStockAccounted
<1> HIDE DEF v
<1>4. SavesAreFresh => [][FreshSaves]_v
  BY DEF SavesAreFresh, FreshSaves, v
<1> QED BY <1>1, <1>2, <1>3, <1>4, LinkStarts, LinkKeeps, PTL DEF StockLinkSpec
=============================================================================
