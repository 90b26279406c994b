---------------------------- MODULE TransfersProof ----------------------------
(***************************************************************************)
(* TransferInvariant's IInv is an invariant of Transfers, for every set of *)
(* sessions, orders, stores and quantities; the safety properties of       *)
(* TransferProperties about the orders and their ledger follow, and that   *)
(* Transfers implements TransferBook.                                      *)
(***************************************************************************)
EXTENDS TransferRefinement, InventoryProof

\* What a session's step leaves alone of the other sessions.
Others(c) ==
    \A d \in Sessions \ {c} :
        /\ pc'[d] = pc[d] /\ target'[d] = target[d] /\ amount'[d] = amount[d]
        /\ seen'[d] = seen[d] /\ draft'[d] = draft[d] /\ work'[d] = work[d]

-----------------------------------------------------------------------------
\* The inventory statements keep the inventory table's type.

LEMMA AdjustType ==
    ASSUME InvTypeOK, NEW c \in Sessions, NEW s \in Stores, NEW delta \in Int,
           AdjustRows(c, s, delta)
    PROVE  InvTypeOK'
<1>1. ASSUME NEW k \in Adjusted(c, s, delta)
      PROVE  [View(c, k) EXCEPT !.qty = @ + delta] \in InvRow
  <2>1. k \in InvKeys /\ View(c, k) # Nil /\ View(c, k) \in InvRow \cup {Nil}
    BY DEF Adjusted, RowsOf, InvTypeOK, View
  <2>2. View(c, k).qty + delta \in Nat
    BY <2>1 DEF Adjusted, InvRow
  <2> QED BY <2>1, <2>2 DEF InvRow
<1>2. [k \in InvKeys |-> IF k \in Adjusted(c, s, delta)
                         THEN [View(c, k) EXCEPT !.qty = @ + delta]
                         ELSE wrote[c][k]] \in [InvKeys -> InvRow \cup {Nil}]
  BY <1>1 DEF InvTypeOK
<1> QED BY <1>2 DEF AdjustRows, InvTypeOK

\* Neither does the row that EnsureTx inserts.
LEMMA InsertType ==
    ASSUME InvTypeOK, NEW c \in Sessions, NEW s \in Stores, InsertRow(c, s, 0)
    PROVE  InvTypeOK'
<1>1. [qty |-> 0, safety |-> 0] \in InvRow
  BY DEF InvRow
<1> QED BY <1>1 DEF InsertRow, InvTypeOK

\* Nor the end of a transaction.
LEMMA CommitType ==
    ASSUME InvTypeOK, NEW c \in Sessions, CommitRows(c) \/ RollbackRows(c)
    PROVE  InvTypeOK'
<1>1. NoWrites \in [InvKeys -> InvRow \cup {Nil}]
  BY DEF NoWrites
<1>2. [k \in InvKeys |-> View(c, k)] \in [InvKeys -> InvRow \cup {Nil}]
  BY DEF View, InvTypeOK
<1> QED BY <1>1, <1>2 DEF CommitRows, RollbackRows, InvTypeOK

-----------------------------------------------------------------------------
\* A session's invariant speaks of the session's own state and of the orders.
LEMMA SessionFrame ==
    ASSUME NEW d \in Sessions, SessionInv(d), UNCHANGED order,
           pc'[d] = pc[d], target'[d] = target[d], amount'[d] = amount[d],
           seen'[d] = seen[d], draft'[d] = draft[d], work'[d] = work[d]
    PROVE  SessionInv(d)'
BY DEF SessionInv, CreateKnows, SeenIsPast, NoDraft, ConfirmKnows, ShipKnows,
       ReceiveKnows, CancelKnows, Receivable, ReturnQty, StatusUnchanged

\* Even when orders change, it holds as long as the session's own order does not.
LEMMA SessionFrameRow ==
    ASSUME NEW d \in Sessions, SessionInv(d), pc[d] # "create.insert",
           order'[target'[d]] = order[target[d]],
           pc'[d] = pc[d], target'[d] = target[d], amount'[d] = amount[d],
           seen'[d] = seen[d], draft'[d] = draft[d], work'[d] = work[d]
    PROVE  SessionInv(d)'
<1>1. CreateKnows(d)' /\ SeenIsPast(d)' /\ NoDraft(d)'
  BY DEF SessionInv, CreateKnows, SeenIsPast, NoDraft
<1>2. ConfirmKnows(d)' /\ ShipKnows(d)'
  BY DEF SessionInv, ConfirmKnows, ShipKnows
<1>3. ReceiveKnows(d)' /\ CancelKnows(d)'
  BY DEF SessionInv, ReceiveKnows, CancelKnows, Receivable, ReturnQty, StatusUnchanged
<1> QED BY <1>1, <1>2, <1>3 DEF SessionInv

\* A step of session c that changes no committed order or ledger row.
LEMMA LocalStep ==
    ASSUME IInv, NEW c \in Sessions, UNCHANGED <<order, ledger>>, Others(c),
           TypeOK', SessionInv(c)',
           \A d \in Sessions \ {c} : Apart(c, d)' /\ Apart(d, c)'
    PROVE  IInv'
<1>1. \A d \in Sessions : SessionInv(d)'
  BY SessionFrame DEF IInv, Others
<1>2. \A d, e \in Sessions : d # e => Apart(d, e)'
  <2> SUFFICES ASSUME NEW d \in Sessions \ {c}, NEW e \in Sessions \ {c}, d # e
               PROVE  Apart(d, e)'
    OBVIOUS
  <2> QED BY DEF IInv, Others, Apart
<1>3. \A o \in Orders : RowInv(o)'
  BY DEF IInv, RowInv
<1> QED BY <1>1, <1>2, <1>3 DEF IInv

\* A session that neither creates nor drafts keeps apart from every other.
LEMMA ApartTrivially ==
    ASSUME NEW c \in Sessions, pc'[c] # "create.insert", pc'[c] \notin DraftLabels
    PROVE  \A d \in Sessions \ {c} : Apart(c, d)' /\ Apart(d, c)'
BY DEF Apart

\* A session that goes on drafting the same order stays apart.
LEMMA ApartKept ==
    ASSUME IInv, NEW c \in Sessions, Others(c), pc[c] \in DraftLabels,
           pc'[c] # "create.insert", target'[c] = target[c]
    PROVE  \A d \in Sessions \ {c} : Apart(c, d)' /\ Apart(d, c)'
BY DEF IInv, Apart, Others

\* Nil is neither an order id nor a row.
LEMMA NilFacts == Nil \notin Orders /\ Nil \notin OrderRow
BY NilOrderAssumption

\* EndRequest leaves a session that knows nothing.
LEMMA EndRequestSession ==
    ASSUME TypeOK, NEW c \in Sessions, EndRequest(c)
    PROVE  /\ SessionInv(c)'
           /\ Others(c)
           /\ \A d \in Sessions \ {c} : Apart(c, d)' /\ Apart(d, c)'
<1>1. pc'[c] = "idle" /\ draft'[c] = Nil /\ work'[c] = NoSums /\ Others(c)
  BY DEF EndRequest, Goto, TypeOK, Others
<1>2. "idle" \notin DraftLabels /\ "idle" \notin CreatedLabels
  BY DEF DraftLabels, CreatedLabels, CommitLabels
<1>3. SessionInv(c)'
  BY <1>1, <1>2 DEF SessionInv, CreateKnows, SeenIsPast, NoDraft, ConfirmKnows,
     ShipKnows, ReceiveKnows, CancelKnows, ReceiveDraftLabels, CancelDraftLabels
<1> QED BY <1>1, <1>2, <1>3, ApartTrivially

\* The end of a request keeps the type invariant.
LEMMA EndRequestType ==
    ASSUME TypeOK, NEW c \in Sessions, EndRequest(c), UNCHANGED <<order, ledger>>, InvTypeOK'
    PROVE  TypeOK'
BY DEF TypeOK, EndRequest, Goto, NoSums, Sums, Labels

\* A failed statement keeps the invariant: the session forgets, nothing else changes.
LEMMA RollbackPreserves ==
    ASSUME IInv, NEW c \in Sessions, Rollback(c)
    PROVE  IInv'
<1>1. InvTypeOK'
  BY CommitType DEF Rollback, IInv, TypeOK
<1>2. TypeOK'
  BY <1>1, EndRequestType DEF Rollback, IInv
<1> QED BY <1>2, EndRequestSession, LocalStep DEF Rollback, IInv

-----------------------------------------------------------------------------
\* The steps that only move a session's program on: Proceed, and the reads.
LEMMA ProceedType ==
    ASSUME TypeOK, NEW c \in Sessions, NEW label \in Labels, Proceed(c, label)
    PROVE  TypeOK' /\ Others(c) /\ pc'[c] = label
BY DEF TypeOK, InvTypeOK, Proceed, Goto, Others

\* The reads of Ship's transaction keep the invariant.
LEMMA ShipCheckPreserves ==
    ASSUME IInv, NEW c \in Sessions, ShipCheck(c) \/ ShipRead(c)
    PROVE  IInv'
<1>1. CASE Rollback(c)
  BY <1>1, RollbackPreserves
<1>2. ASSUME NEW label \in {"ship.read", "ship.deduct"},
             pc[c] \in {"ship.check", "ship.read"}, Proceed(c, label)
      PROVE  IInv'
  <2>1. TypeOK' /\ Others(c) /\ pc'[c] = label
    BY <1>2, ProceedType DEF IInv, Labels
  <2>2. SessionInv(c)'
    BY <1>2, <2>1 DEF IInv, Proceed, SessionInv, CreateKnows, SeenIsPast, NoDraft,
       ConfirmKnows, ShipKnows, ReceiveKnows, CancelKnows, CreatedLabels, Labels,
       DraftLabels, CommitLabels, ReloadLabels, ReceiveDraftLabels, CancelDraftLabels
  <2> QED BY <1>2, <2>1, <2>2, LocalStep, ApartTrivially DEF Proceed, DraftLabels, CommitLabels
<1> QED BY <1>1, <1>2 DEF ShipCheck, ShipRead, Check

-----------------------------------------------------------------------------
\* Requests.
LEMMA FindByIDPreserves ==
    ASSUME IInv, NEW c \in Sessions, NEW o \in Orders, NEW q \in Nat, NEW condition,
           NEW label \in {"confirm.transition", "ship.check", "receive.reread", "cancel.reread"},
           FindByID(c, o, q, condition, label),
           label = "confirm.transition" => order[o].status = "pending",
           label = "ship.check" => order[o].status = "confirmed"
    PROVE  IInv'
<1>1. order[o] \in OrderRow /\ order[o].received <= order[o].qty
  BY DEF FindByID, IInv, TypeOK, RowInv
<1>2. TypeOK'
  BY DEF FindByID, Goto, IInv, TypeOK, InvTypeOK, Labels
<1>3. /\ pc'[c] = label /\ target'[c] = o /\ seen'[c] = order[o] /\ draft' = draft
      /\ work' = work /\ order' = order /\ Others(c)
  BY DEF FindByID, Goto, IInv, TypeOK, Others
<1>4. draft[c] = Nil /\ work[c] = NoSums
  BY DEF FindByID, IInv, SessionInv, NoDraft, DraftLabels, CommitLabels
<1>5. order[o].received \in Nat
  BY <1>1 DEF OrderRow
<1>6. SessionInv(c)'
  BY <1>1, <1>3, <1>4, <1>5 DEF SessionInv, CreateKnows, SeenIsPast, NoDraft,
       ConfirmKnows, ShipKnows, ReceiveKnows, CancelKnows, CreatedLabels, Labels,
       DraftLabels, CommitLabels, ReloadLabels, ReceiveDraftLabels, CancelDraftLabels
<1> QED BY <1>2, <1>3, <1>6, LocalStep, ApartTrivially DEF FindByID, DraftLabels, CommitLabels

\* Create keeps the invariant: the row it builds is pending, nothing received.
LEMMA CreatePreserves ==
    ASSUME IInv, NEW c \in Sessions, NEW o \in Orders, NEW from \in Stores,
           NEW to \in Stores, NEW q \in Quantities, Create(c, o, from, to, q)
    PROVE  IInv'
<1>1. q \in Nat /\ q > 0
  BY QuantitiesAssumption
<1>2. [from |-> from, to |-> to, qty |-> q, received |-> 0, status |-> "pending"] \in OrderRow
  BY <1>1 DEF OrderRow, TransferStatuses
<1>3. TypeOK'
  BY <1>2 DEF Create, Goto, IInv, TypeOK, InvTypeOK, Labels
<1>4. /\ pc'[c] = "create.insert" /\ target'[c] = o /\ draft' = draft /\ work' = work
      /\ seen'[c] = [from |-> from, to |-> to, qty |-> q, received |-> 0, status |-> "pending"]
      /\ order' = order /\ order[o] = Nil /\ Others(c)
  BY DEF Create, Goto, IInv, TypeOK, Others
<1>5. draft[c] = Nil /\ work[c] = NoSums
  BY DEF Create, IInv, SessionInv, NoDraft, DraftLabels, CommitLabels
<1>6. SessionInv(c)'
  BY <1>1, <1>2, <1>4, <1>5 DEF SessionInv, CreateKnows, SeenIsPast, NoDraft,
       ConfirmKnows, ShipKnows, ReceiveKnows, CancelKnows, CreatedLabels, Labels,
       DraftLabels, CommitLabels, ReloadLabels, ReceiveDraftLabels, CancelDraftLabels
<1>7. \A d \in Sessions \ {c} : Apart(c, d)' /\ Apart(d, c)'
  BY <1>4 DEF Create, Apart, Others, DraftLabels, CommitLabels
<1> QED BY <1>3, <1>4, <1>6, <1>7, LocalStep DEF Create

\* The arrival of a request keeps the invariant.
LEMMA RequestPreserves ==
    ASSUME IInv, NEW c \in Sessions, Request(c)
    PROVE  IInv'
<1> PICK o \in Orders :
        \/ \E from, to \in Stores, q \in Quantities : Create(c, o, from, to, q)
        \/ Confirm(c, o)
        \/ Ship(c, o)
        \/ \E q \in Quantities : Receive(c, o, q)
        \/ Cancel(c, o)
  BY DEF Request
<1>1. CASE \E from, to \in Stores, q \in Quantities : Create(c, o, from, to, q)
  BY <1>1, CreatePreserves
<1>2. CASE Confirm(c, o)
  <2>1. FindByID(c, o, 0, CanTransfer(order[o].status, "confirmed"), "confirm.transition")
    BY <1>2 DEF Confirm
  <2>2. order[o].status = "pending"
    BY <2>1 DEF FindByID, CanTransfer, TransferStatusFlow
  <2> QED BY <2>1, <2>2, FindByIDPreserves
<1>3. CASE Ship(c, o)
  <2>1. FindByID(c, o, 0, CanTransfer(order[o].status, "shipped"), "ship.check")
    BY <1>3 DEF Ship
  <2>2. order[o].status = "confirmed"
    BY <2>1 DEF FindByID, CanTransfer, TransferStatusFlow
  <2> QED BY <2>1, <2>2, FindByIDPreserves
<1>4. CASE \E q \in Quantities : Receive(c, o, q)
  BY <1>4, QuantitiesAssumption, FindByIDPreserves DEF Receive
<1>5. CASE Cancel(c, o)
  BY <1>5, FindByIDPreserves DEF Cancel
<1> QED BY <1>1, <1>2, <1>3, <1>4, <1>5

-----------------------------------------------------------------------------
\* The transaction's reread of its order.
LEMMA RereadPreserves ==
    ASSUME IInv, NEW c \in Sessions, ReceiveReread(c) \/ CancelReread(c)
    PROVE  IInv'
<1>1. CASE Rollback(c)
  BY <1>1, RollbackPreserves
<1>2. ASSUME ~Rollback(c)
      PROVE  IInv'
  <2>1. /\ seen' = [seen EXCEPT ![c] = order[target[c]]]
        /\ UNCHANGED <<inv, wrote, order, ledger, target, amount, draft, work>>
        /\ \/ pc[c] = "receive.reread" /\ Goto(c, "receive.add")
           \/ /\ pc[c] = "cancel.reread" /\ Goto(c, "cancel.transition")
              /\ CanTransfer(order[target[c]].status, "cancelled")
    BY <1>2 DEF ReceiveReread, CancelReread, Reread
  <2>2. /\ target[c] \in Orders /\ order[target[c]] \in OrderRow
        /\ order[target[c]].received <= order[target[c]].qty
    BY <2>1, NilFacts DEF IInv, SessionInv, SeenIsPast, CreatedLabels, Labels, RowInv
  <2>3. TypeOK' /\ Others(c) /\ seen'[c] = order[target[c]]
    BY <2>1, <2>2 DEF IInv, TypeOK, InvTypeOK, Goto, Others, Labels
  <2>4. order[target[c]].received \in Nat
    BY <2>2 DEF OrderRow
  <2>5. /\ pc'[c] \in {"receive.add", "cancel.transition"}
        /\ pc'[c] = "cancel.transition" => CanTransfer(order[target[c]].status, "cancelled")
    BY <2>1 DEF Goto, IInv, TypeOK
  <2>6. draft[c] = Nil /\ work[c] = NoSums
    BY <2>1 DEF IInv, SessionInv, NoDraft, DraftLabels, CommitLabels
  <2>7. SessionInv(c)'
    BY <2>1, <2>2, <2>3, <2>4, <2>5, <2>6 DEF SessionInv, CreateKnows, SeenIsPast, NoDraft,
       ConfirmKnows, ShipKnows, ReceiveKnows, CancelKnows, CreatedLabels, Labels,
       DraftLabels, CommitLabels, ReloadLabels, ReceiveDraftLabels, CancelDraftLabels
  <2> QED BY <2>1, <2>3, <2>5, <2>7, LocalStep, ApartTrivially DEF DraftLabels, CommitLabels
<1> QED BY <1>1, <1>2

-----------------------------------------------------------------------------
\* The claims on the order: every conditional UPDATE of transfer_orders.

\* AddReceived field by field.
LEMMA AddReceivedRow ==
    ASSUME NEW row \in OrderRow, NEW q \in Nat
    PROVE  /\ AddReceived(row, q) \in OrderRow
           /\ AddReceived(row, q).from = row.from /\ AddReceived(row, q).to = row.to
           /\ AddReceived(row, q).qty = row.qty
           /\ AddReceived(row, q).received = row.received + q
           /\ AddReceived(row, q).status =
                IF row.received + q >= row.qty THEN "received" ELSE "shipped"
<1> DEFINE status == IF row.received + q >= row.qty THEN "received" ELSE "shipped"
<1>1. [row EXCEPT !.received = @ + q] \in OrderRow
  BY DEF OrderRow
<1>2. status \in TransferStatuses
  BY DEF TransferStatuses
<1>3. AddReceived(row, q) = [[row EXCEPT !.received = @ + q] EXCEPT !.status = status]
  BY DEF AddReceived
<1> HIDE DEF status
<1> QED BY <1>1, <1>2, <1>3 DEF OrderRow, status

\* A draft is a row: a session that drafts holds its order's lock.
LEMMA DraftIsRow ==
    ASSUME IInv, NEW d \in Sessions, pc[d] \in DraftLabels
    PROVE  target[d] \in Orders /\ draft[d] \in OrderRow /\ draft[d] # Nil
<1>1. target[d] \in Orders /\ order[target[d]] \in OrderRow /\ amount[d] \in Nat
  BY DEF IInv, TypeOK, SessionInv, SeenIsPast, CreatedLabels, DraftLabels, CommitLabels, Labels
<1>2. draft[d] \in OrderRow
  <2>1. CASE pc[d] \in ReceiveDraftLabels
    BY <1>1, <2>1, AddReceivedRow DEF IInv, SessionInv, ReceiveKnows
  <2>2. CASE pc[d] \notin ReceiveDraftLabels
    <3>1. PICK to \in TransferStatuses : draft[d] = [order[target[d]] EXCEPT !.status = to]
      <4>1. CASE pc[d] \in {"confirm.commit", "ship.commit"}
        BY <4>1 DEF IInv, SessionInv, ConfirmKnows, ShipKnows, TransferStatuses
      <4>2. CASE pc[d] \in CancelDraftLabels
        BY <4>2 DEF IInv, SessionInv, CancelKnows, TransferStatuses
      <4> QED BY <2>2, <4>1, <4>2 DEF DraftLabels, CommitLabels, ReceiveDraftLabels,
                                      CancelDraftLabels
    <3> QED BY <1>1, <3>1 DEF OrderRow
  <2> QED BY <2>1, <2>2
<1> QED BY <1>1, <1>2, NilFacts

\* Hence a free order is drafted by no other session.
LEMMA ClaimKeepsApart ==
    ASSUME IInv, NEW c \in Sessions, OrderFree(c, target[c]), Others(c),
           pc'[c] # "create.insert", target' = target
    PROVE  \A d \in Sessions \ {c} : Apart(c, d)' /\ Apart(d, c)'
<1>1. \A d \in Sessions \ {c} : pc[d] \in DraftLabels => target[d] # target[c]
  BY DraftIsRow DEF OrderFree
<1> QED BY <1>1 DEF Apart, Others

\* What an UpdateOrder that finds its row does.
LEMMA UpdateOrderStep ==
    ASSUME IInv, NEW c \in Sessions, NEW row \in OrderRow, NEW label \in DraftLabels,
           UNCHANGED <<inv, wrote, order, ledger, target, amount, seen, work>>,
           OrderFree(c, target[c]), draft' = [draft EXCEPT ![c] = row], Goto(c, label)
    PROVE  /\ TypeOK' /\ Others(c) /\ pc'[c] = label /\ draft'[c] = row
           /\ \A d \in Sessions \ {c} : Apart(c, d)' /\ Apart(d, c)'
<1>1. TypeOK' /\ Others(c) /\ pc'[c] = label /\ draft'[c] = row
  BY DEF IInv, TypeOK, InvTypeOK, Goto, Others, DraftLabels, CommitLabels, Labels
<1> QED BY <1>1, ClaimKeepsApart DEF DraftLabels, CommitLabels

\* TransitionStatusTx keeps the invariant: the version it writes is a legal successor.
LEMMA TransitionPreserves ==
    ASSUME IInv, NEW c \in Sessions,
           ConfirmTransition(c) \/ ShipTransition(c) \/ CancelTransition(c)
    PROVE  IInv'
<1>1. CASE Rollback(c)
  BY <1>1, RollbackPreserves
<1>2. ASSUME NEW to \in {"confirmed", "shipped", "cancelled"}, NEW label \in DraftLabels,
             pc[c] \in {"confirm.transition", "ship.transition", "cancel.transition"},
             to = "confirmed" <=> pc[c] = "confirm.transition",
             to = "shipped" <=> pc[c] = "ship.transition",
             pc[c] = "confirm.transition" => label = "confirm.commit",
             pc[c] = "ship.transition" => label = "ship.commit",
             pc[c] = "cancel.transition" =>
                 label = IF ReturnQty(c) > 0 THEN "cancel.read" ELSE "cancel.commit",
             TransitionStatusTx(c, to, label), ~Rollback(c)
      PROVE  IInv'
  <2> DEFINE row == [order[target[c]] EXCEPT !.status = to]
  <2>1. /\ StatusUnchanged(c) /\ OrderFree(c, target[c])
        /\ draft' = [draft EXCEPT ![c] = row] /\ Goto(c, label)
        /\ UNCHANGED <<inv, wrote, order, ledger, target, amount, seen, work>>
    BY <1>2 DEF TransitionStatusTx, UpdateOrder
  <2>2. /\ target[c] \in Orders /\ order[target[c]] \in OrderRow /\ seen[c] \in OrderRow
        /\ seen[c].received <= seen[c].qty
    BY <1>2 DEF IInv, SessionInv, SeenIsPast, CreatedLabels, Labels
  <2>3. row \in OrderRow
    BY <2>2 DEF OrderRow, TransferStatuses
  <2>4. /\ TypeOK' /\ Others(c) /\ pc'[c] = label /\ draft'[c] = row
        /\ \A d \in Sessions \ {c} : Apart(c, d)' /\ Apart(d, c)'
    BY <2>1, <2>3, UpdateOrderStep
  <2>5. SessionInv(c)'
    <3>1. seen[c].qty \in Nat /\ seen[c].received \in Nat
      BY <2>2 DEF OrderRow
    <3>2. CASE pc[c] = "confirm.transition"
      BY <1>2, <2>1, <2>2, <2>4, <3>2 DEF IInv, StatusUnchanged, SessionInv, CreateKnows, SeenIsPast, NoDraft,
       ConfirmKnows, ShipKnows, ReceiveKnows, CancelKnows, CreatedLabels, Labels,
       DraftLabels, CommitLabels, ReloadLabels, ReceiveDraftLabels, CancelDraftLabels
    <3>3. CASE pc[c] = "ship.transition"
      BY <1>2, <2>1, <2>2, <2>4, <3>3 DEF IInv, StatusUnchanged, SessionInv, CreateKnows, SeenIsPast, NoDraft,
       ConfirmKnows, ShipKnows, ReceiveKnows, CancelKnows, CreatedLabels, Labels,
       DraftLabels, CommitLabels, ReloadLabels, ReceiveDraftLabels, CancelDraftLabels
    <3>4. CASE pc[c] = "cancel.transition"
      <4>1. work[c] = NoSums /\ CanTransfer(seen[c].status, "cancelled")
        BY <3>4 DEF IInv, SessionInv, NoDraft, CancelKnows, DraftLabels, CommitLabels
      <4>2. ReturnQty(c) \in Nat
        BY <2>2, <3>1 DEF ReturnQty
      <4>3. label = "cancel.commit" => ReturnQty(c) = 0
        BY <1>2, <3>4, <4>2
      <4>4. label \in {"cancel.read", "cancel.commit"} /\ to = "cancelled"
        BY <1>2, <3>4
      <4>5. work'[c] = [NoSums EXCEPT !.back = IF pc'[c] = "cancel.commit"
                                               THEN ReturnQty(c)' ELSE 0]
        BY <2>1, <2>4, <4>1, <4>3, <4>4 DEF NoSums, ReturnQty
      <4>6. StatusUnchanged(c)' /\ draft'[c] = [order'[target'[c]] EXCEPT !.status = "cancelled"]
        BY <2>1, <2>4, <4>4 DEF StatusUnchanged
      <4>7. CancelKnows(c)'
        BY <2>1, <2>4, <4>1, <4>4, <4>5, <4>6 DEF CancelKnows, CancelDraftLabels
      <4>8. SeenIsPast(c)'
        BY <2>1, <2>4, <3>4 DEF IInv, SessionInv, SeenIsPast, CreatedLabels, Labels
      <4> QED BY <2>4, <4>4, <4>7, <4>8 DEF SessionInv, CreateKnows, NoDraft, ConfirmKnows,
                ShipKnows, ReceiveKnows, DraftLabels, CommitLabels, ReceiveDraftLabels
    <3> QED BY <1>2, <3>2, <3>3, <3>4
  <2> QED BY <2>1, <2>4, <2>5, LocalStep
<1>3. \A label : label \in {"confirm.commit", "ship.commit", "cancel.read", "cancel.commit"}
            => label \in DraftLabels
  BY DEF DraftLabels, CommitLabels
<1> QED BY <1>1, <1>2, <1>3 DEF ConfirmTransition, ShipTransition, CancelTransition

\* AddReceivedQuantityTx keeps the invariant: received never passes the quantity.
LEMMA ReceiveAddPreserves ==
    ASSUME IInv, NEW c \in Sessions, ReceiveAdd(c)
    PROVE  IInv'
<1>1. CASE Rollback(c)
  BY <1>1, RollbackPreserves
<1>2. ASSUME ~Rollback(c)
      PROVE  IInv'
  <2> DEFINE old == order[target[c]]
             row == AddReceived(old, amount[c])
  <2>1. /\ Receivable(c) /\ OrderFree(c, target[c]) /\ pc[c] = "receive.add"
        /\ draft' = [draft EXCEPT ![c] = row] /\ Goto(c, "receive.ensure")
        /\ UNCHANGED <<inv, wrote, order, ledger, target, amount, seen, work>>
    BY <1>2 DEF ReceiveAdd, AddReceivedQuantityTx, UpdateOrder
  <2>2. old \in OrderRow /\ amount[c] \in Nat /\ work[c] = NoSums
    BY <2>1 DEF IInv, TypeOK, SessionInv, SeenIsPast, NoDraft, CreatedLabels, Labels,
       DraftLabels, CommitLabels
  <2>3. row \in OrderRow
    BY <2>2, AddReceivedRow
  <2>4. /\ TypeOK' /\ Others(c) /\ pc'[c] = "receive.ensure" /\ draft'[c] = row
        /\ \A d \in Sessions \ {c} : Apart(c, d)' /\ Apart(d, c)'
    BY <2>1, <2>3, UpdateOrderStep DEF DraftLabels
  <2>5. work'[c] = [out |-> 0, back |-> 0, in |-> 0, receipts |-> 0]
    BY <2>1, <2>2 DEF NoSums
  <2>6. SessionInv(c)'
    BY <2>1, <2>2, <2>4, <2>5 DEF IInv, Receivable, SessionInv, CreateKnows, SeenIsPast, NoDraft,
       ConfirmKnows, ShipKnows, ReceiveKnows, CancelKnows, CreatedLabels, Labels,
       DraftLabels, CommitLabels, ReloadLabels, ReceiveDraftLabels, CancelDraftLabels
  <2> QED BY <2>1, <2>4, <2>6, LocalStep
<1> QED BY <1>1, <1>2

-----------------------------------------------------------------------------
\* The movements of stock.

\* ShipDeduct: the charge, before the order is claimed.
LEMMA ShipDeductPreserves ==
    ASSUME IInv, NEW c \in Sessions, ShipDeduct(c)
    PROVE  IInv'
<1>1. CASE Rollback(c)
  BY <1>1, RollbackPreserves
<1>2. ASSUME ~Rollback(c)
      PROVE  IInv'
  <2>1. /\ pc[c] = "ship.deduct"
        /\ AdjustRows(c, seen[c].from, -seen[c].qty)
        /\ work' = [work EXCEPT ![c] = [work[c] EXCEPT !.out = @ + seen[c].qty]]
        /\ Goto(c, "ship.transition")
        /\ UNCHANGED <<order, ledger, target, amount, seen, draft>>
    BY <1>2 DEF ShipDeduct, MoveStock
  <2>2. /\ seen[c] \in OrderRow /\ seen[c].from \in Stores /\ seen[c].qty \in Nat
        /\ work[c] = NoSums /\ draft[c] = Nil
    BY <2>1 DEF IInv, SessionInv, SeenIsPast, NoDraft, CreatedLabels, Labels, DraftLabels,
       CommitLabels, OrderRow
  <2>3. InvTypeOK'
    <3>1. -seen[c].qty \in Int
      BY <2>2
    <3> QED BY <2>1, <2>2, <3>1, AdjustType DEF IInv, TypeOK
  <2>4. work'[c] = [NoSums EXCEPT !.out = seen[c].qty]
    BY <2>1, <2>2 DEF IInv, TypeOK, NoSums
  <2>5. [work[c] EXCEPT !.out = @ + seen[c].qty] \in Sums
    BY <2>2 DEF NoSums, Sums
  <2>6. TypeOK' /\ Others(c) /\ pc'[c] = "ship.transition"
    BY <2>1, <2>3, <2>5 DEF IInv, TypeOK, Goto, Others, Labels
  <2>7. SessionInv(c)'
    BY <2>1, <2>2, <2>4, <2>6 DEF IInv, SessionInv, CreateKnows, SeenIsPast, NoDraft,
       ConfirmKnows, ShipKnows, ReceiveKnows, CancelKnows, CreatedLabels, Labels,
       DraftLabels, CommitLabels, ReloadLabels, ReceiveDraftLabels, CancelDraftLabels
  <2> QED BY <2>1, <2>6, <2>7, LocalStep, ApartTrivially DEF DraftLabels, CommitLabels
<1> QED BY <1>1, <1>2

\* What Receive does between its update of the order and its commit.
LEMMA ReceiveStockPreserves ==
    ASSUME IInv, NEW c \in Sessions,
           \/ ReceiveEnsure(c) \/ ReceiveInsert(c) \/ ReceiveRead(c)
           \/ ReceiveAdjust(c) \/ ReceiveReceipt(c)
    PROVE  IInv'
<1>1. CASE Rollback(c)
  BY <1>1, RollbackPreserves
<1>2. ASSUME ~Rollback(c)
      PROVE  IInv'
  <2>1. pc[c] \in {"receive.ensure", "receive.insert", "receive.read", "receive.adjust",
                    "receive.receipt"}
    BY DEF ReceiveEnsure, ReceiveInsert, ReceiveRead, ReceiveAdjust, ReceiveReceipt
  <2>2. /\ seen[c] \in OrderRow /\ seen[c].to \in Stores /\ amount[c] \in Nat
        /\ pc[c] \in DraftLabels /\ Receivable(c)
        /\ draft[c] = AddReceived(order[target[c]], amount[c])
        /\ work[c] = [out |-> 0, back |-> 0, receipts |-> 0,
                      in |-> IF pc[c] = "receive.receipt" THEN amount[c] ELSE 0]
    BY <2>1 DEF IInv, TypeOK, SessionInv, SeenIsPast, ReceiveKnows, ReceiveDraftLabels,
       CreatedLabels, Labels, DraftLabels, CommitLabels, OrderRow
  <2>3. \E label \in {"receive.insert", "receive.read", "receive.adjust",
                       "receive.receipt", "receive.commit"} :
            /\ Goto(c, label)
            /\ UNCHANGED <<order, ledger, target, amount, seen, draft>>
            /\ work' = [work EXCEPT ![c] =
                          [out |-> 0, back |-> 0,
                           in |-> IF label \in {"receive.receipt", "receive.commit"}
                                  THEN amount[c] ELSE 0,
                           receipts |-> IF label = "receive.commit" THEN amount[c] ELSE 0]]
            /\ InvTypeOK'
    <3>0. InvTypeOK /\ work \in [Sessions -> Sums]
      BY DEF IInv, TypeOK
    <3>1. CASE ReceiveEnsure(c) \/ ReceiveInsert(c) \/ ReceiveRead(c)
      <4>1. UNCHANGED work /\ pc[c] # "receive.receipt"
        BY <1>2, <3>1 DEF ReceiveEnsure, ReceiveInsert, ReceiveRead, Check, Proceed
      <4>2. work' = [work EXCEPT ![c] = [out |-> 0, back |-> 0, in |-> 0, receipts |-> 0]]
        BY <2>2, <3>0, <4>1
      <4>3. InvTypeOK'
        BY <1>2, <2>2, <3>0, <3>1, InsertType
        DEF ReceiveEnsure, ReceiveInsert, ReceiveRead, Check, Proceed, InvTypeOK
      <4> QED BY <1>2, <3>1, <4>2, <4>3
          DEF ReceiveEnsure, ReceiveInsert, ReceiveRead, Check, Proceed
    <3>2. CASE ReceiveAdjust(c)
      <4>1. [work[c] EXCEPT !.in = @ + amount[c]] =
                [out |-> 0, back |-> 0, in |-> amount[c], receipts |-> 0]
        BY <2>2, <3>2 DEF ReceiveAdjust
      <4> QED BY <1>2, <2>2, <3>0, <3>2, <4>1, AdjustType DEF ReceiveAdjust, MoveStock, StockDirection
    <3>3. CASE ReceiveReceipt(c)
      <4>1. [work[c] EXCEPT !.receipts = @ + amount[c]] =
                [out |-> 0, back |-> 0, in |-> amount[c], receipts |-> amount[c]]
        BY <2>2, <3>3 DEF ReceiveReceipt
      <4> QED BY <3>0, <3>3, <4>1 DEF ReceiveReceipt, InvTypeOK
    <3> QED BY <3>1, <3>2, <3>3
  <2>4. TypeOK' /\ Others(c)
    BY <2>2, <2>3 DEF IInv, TypeOK, Sums, Goto, Others, Labels, CommitLabels
  <2>5. SessionInv(c)'
    BY <2>1, <2>2, <2>3 DEF IInv, TypeOK, Goto, Receivable, SessionInv, CreateKnows, SeenIsPast, NoDraft,
       ConfirmKnows, ShipKnows, ReceiveKnows, CancelKnows, CreatedLabels, Labels,
       DraftLabels, CommitLabels, ReloadLabels, ReceiveDraftLabels, CancelDraftLabels
  <2>6. pc'[c] # "create.insert" /\ target' = target /\ UNCHANGED <<order, ledger>>
    BY <2>3 DEF IInv, TypeOK, Goto
  <2> QED BY <2>2, <2>4, <2>5, <2>6, LocalStep, ApartKept
<1> QED BY <1>1, <1>2

\* What Cancel does between its claim and its commit.
LEMMA CancelStockPreserves ==
    ASSUME IInv, NEW c \in Sessions, CancelRead(c) \/ CancelAdjust(c)
    PROVE  IInv'
<1>1. CASE Rollback(c)
  BY <1>1, RollbackPreserves
<1>2. ASSUME ~Rollback(c)
      PROVE  IInv'
  <2>1. /\ pc[c] \in {"cancel.read", "cancel.adjust"}
        /\ UNCHANGED <<order, ledger, target, amount, seen, draft>>
        /\ \/ pc[c] = "cancel.read" /\ Proceed(c, "cancel.adjust")
           \/ /\ AdjustRows(c, seen[c].from, ReturnQty(c))
              /\ work' = [work EXCEPT ![c] = [work[c] EXCEPT !.back = @ + ReturnQty(c)]]
              /\ Goto(c, "cancel.commit")
    <3>1. StockDirection("transfer_in") = 1
      BY DEF StockDirection
    <3>2. ReturnQty(c) \in Int
      BY DEF CancelRead, CancelAdjust, IInv, SessionInv, SeenIsPast, CreatedLabels, Labels,
         ReturnQty, OrderRow
    <3> QED BY <1>2, <3>1, <3>2 DEF CancelRead, CancelAdjust, Check, Proceed, MoveStock
  <2>2. /\ seen[c] \in OrderRow /\ seen[c].from \in Stores /\ ReturnQty(c) \in Nat
        /\ pc[c] \in DraftLabels /\ StatusUnchanged(c)
        /\ CanTransfer(seen[c].status, "cancelled")
        /\ draft[c] = [order[target[c]] EXCEPT !.status = "cancelled"]
        /\ work[c] = NoSums
    <3>1. seen[c] \in OrderRow /\ seen[c].received <= seen[c].qty
      BY <2>1 DEF IInv, SessionInv, SeenIsPast, CreatedLabels, Labels
    <3>2. ReturnQty(c) \in Nat /\ seen[c].from \in Stores
      BY <3>1 DEF ReturnQty, OrderRow
    <3> QED BY <2>1, <3>1, <3>2 DEF IInv, SessionInv, CancelKnows, CancelDraftLabels,
            DraftLabels, CommitLabels, NoSums
  <2>3. [work[c] EXCEPT !.back = @ + ReturnQty(c)] = [NoSums EXCEPT !.back = ReturnQty(c)]
    BY <2>2 DEF NoSums
  <2>4. [NoSums EXCEPT !.back = ReturnQty(c)] \in Sums /\ NoSums = [NoSums EXCEPT !.back = 0]
    BY <2>2 DEF NoSums, Sums
  <2>5. TypeOK' /\ Others(c) /\ pc'[c] # "create.insert"
    <3>1. InvTypeOK'
      BY <2>1, <2>2, AdjustType DEF IInv, TypeOK, Proceed, InvTypeOK
    <3> QED BY <2>1, <2>3, <2>4, <3>1 DEF IInv, TypeOK, Proceed, Goto, Others, Labels, CommitLabels
  <2>6. SessionInv(c)'
    <3>1. /\ pc'[c] \in {"cancel.adjust", "cancel.commit"}
          /\ work'[c] = [NoSums EXCEPT !.back = IF pc'[c] = "cancel.commit"
                                                THEN ReturnQty(c)' ELSE 0]
      BY <2>1, <2>2, <2>3, <2>4 DEF IInv, TypeOK, Proceed, Goto, ReturnQty
    <3>2. CancelKnows(c)' /\ SeenIsPast(c)'
      BY <2>1, <2>2, <3>1 DEF IInv, SessionInv, SeenIsPast, CancelKnows, CancelDraftLabels,
         CreatedLabels, Labels, StatusUnchanged
    <3> QED BY <3>1, <3>2 DEF SessionInv, CreateKnows, NoDraft, ConfirmKnows, ShipKnows,
            ReceiveKnows, DraftLabels, CommitLabels, ReceiveDraftLabels
  <2> QED BY <2>1, <2>2, <2>5, <2>6, LocalStep, ApartKept
<1> QED BY <1>1, <1>2

-----------------------------------------------------------------------------
\* The steps that change the committed tables.

\* CreateInsert: the id was free, and no other session creates under it.
LEMMA CreateInsertPreserves ==
    ASSUME IInv, NEW c \in Sessions, CreateInsert(c)
    PROVE  IInv'
<1> DEFINE o == target[c]
<1>1. /\ o \in Orders /\ order[o] = Nil /\ seen[c] \in OrderRow
      /\ seen[c].status = "pending" /\ seen[c].received = 0 /\ seen[c].qty \in Quantities
  BY DEF CreateInsert, IInv, SessionInv, CreateKnows
<1>2. order' = [order EXCEPT ![o] = seen[c]] /\ ledger' = ledger /\ EndRequest(c)
      /\ inv' = inv /\ wrote' = wrote
  BY DEF CreateInsert
<1>3. TypeOK'
  BY <1>1, <1>2 DEF IInv, TypeOK, InvTypeOK, EndRequest, Goto, NoSums, Sums, Labels
<1>4. SessionInv(c)' /\ Others(c) /\ \A d \in Sessions \ {c} : Apart(c, d)' /\ Apart(d, c)'
  BY <1>2, EndRequestSession DEF IInv
<1>5. ASSUME NEW d \in Sessions \ {c}
      PROVE  SessionInv(d)'
  <2>1. CASE pc[d] \in {"idle", "create.insert"}
    <3>1. pc[d] = "create.insert" => target[d] # o
      BY DEF CreateInsert, IInv, Apart
    <3>2. CreateKnows(d)'
      BY <1>2, <1>4, <3>1 DEF IInv, TypeOK, SessionInv, CreateKnows, Others
    <3>3. SeenIsPast(d)' /\ NoDraft(d)'
      BY <1>4, <2>1 DEF IInv, Others, SessionInv, SeenIsPast, NoDraft, CreatedLabels,
         DraftLabels, CommitLabels
    <3>4. ConfirmKnows(d)' /\ ShipKnows(d)' /\ ReceiveKnows(d)' /\ CancelKnows(d)'
      BY <1>4, <2>1 DEF Others, ConfirmKnows, ShipKnows, ReceiveKnows, CancelKnows,
         ReceiveDraftLabels, CancelDraftLabels
    <3> QED BY <3>2, <3>3, <3>4 DEF SessionInv
  <2>2. CASE pc[d] \notin {"idle", "create.insert"}
    <3>1. target[d] \in Orders /\ target[d] # o
      BY <1>1, <2>2, NilFacts DEF IInv, TypeOK, SessionInv, SeenIsPast, CreatedLabels
    <3>2. order'[target'[d]] = order[target[d]]
      BY <1>2, <1>4, <3>1 DEF IInv, TypeOK, Others
    <3>3. /\ SessionInv(d) /\ pc[d] # "create.insert"
          /\ pc'[d] = pc[d] /\ target'[d] = target[d] /\ amount'[d] = amount[d]
          /\ seen'[d] = seen[d] /\ draft'[d] = draft[d] /\ work'[d] = work[d]
      BY <1>4, <2>2 DEF IInv, Others
    <3> QED BY <3>2, <3>3, SessionFrameRow
  <2> QED BY <2>1, <2>2
<1>6. \A d, e \in Sessions : d # e => Apart(d, e)'
  <2> SUFFICES ASSUME NEW d \in Sessions \ {c}, NEW e \in Sessions \ {c}, d # e
               PROVE  Apart(d, e)'
    BY <1>4
  <2> QED BY <1>4 DEF IInv, Others, Apart
<1>7. ASSUME NEW p \in Orders
      PROVE  RowInv(p)'
  <2>1. CASE p = o
    <3>1. order'[p] = seen[c] /\ ledger'[p] = NoSums
      BY <1>1, <1>2, <2>1 DEF IInv, TypeOK, RowInv
    <3> QED BY <1>1, <3>1, NilFacts, QuantitiesAssumption DEF RowInv, NoSums, OrderRow
  <2>2. CASE p # o
    BY <1>2, <2>2 DEF IInv, TypeOK, RowInv
  <2> QED BY <2>1, <2>2
<1> QED BY <1>3, <1>4, <1>5, <1>6, <1>7 DEF IInv

\* What a session that is about to commit does to its order: the committed row
\* moves along the flow, and the new row and its ledger satisfy RowInv.
LEMMA PublishRow ==
    ASSUME IInv, NEW c \in Sessions, pc[c] \in CommitLabels, Publish(c),
           NEW o, o = target[c]
    PROVE  /\ o \in Orders /\ order[o] \in OrderRow /\ draft[c] \in OrderRow
           /\ order' = [order EXCEPT ![o] = draft[c]]
           /\ ledger' = [ledger EXCEPT ![o] = AddSums(ledger[o], work[c])]
           /\ AddSums(ledger[o], work[c]) \in Sums
           /\ draft[c].from = order[o].from /\ draft[c].to = order[o].to
           /\ draft[c].qty = order[o].qty /\ draft[c].received >= order[o].received
           /\ order[o].status \in {"pending", "confirmed", "shipped"}
           /\ draft[c].status # order[o].status => CanTransfer(order[o].status, draft[c].status)
           /\ RowInv(o)'
           /\ pc[c] = "receive.commit" => /\ draft[c].received >= amount[c]
                                          /\ draft[c].status \in {"shipped", "received"}
                                          /\ order[o].status = "shipped"
           /\ pc[c] = "cancel.commit" => draft[c].status = "cancelled"
           /\ pc[c] # "receive.commit" => /\ draft[c].received = order[o].received
                                          /\ draft[c].status # order[o].status
           /\ \/ AddSums(ledger[o], work[c]).out = ledger[o].out
              \/ order[o].status = "confirmed" /\ draft[c].status = "shipped"
<1> DEFINE old == order[o]
           new == draft[c]
           was == ledger[o]
           now == AddSums(was, work[c])
<1>1. /\ o \in Orders /\ old \in OrderRow /\ new \in OrderRow /\ seen[c] \in OrderRow
      /\ seen[c].qty = old.qty /\ seen[c].received <= old.received
      /\ seen[c].received <= seen[c].qty /\ amount[c] \in Nat
      /\ was \in Sums /\ work[c] \in Sums /\ RowInv(o) /\ old # Nil /\ new # Nil
  BY DraftIsRow, NilFacts DEF IInv, TypeOK, SessionInv, SeenIsPast, CreatedLabels, DraftLabels,
     CommitLabels, Labels
<1>2. order' = [order EXCEPT ![o] = new] /\ ledger' = [ledger EXCEPT ![o] = now]
  BY DEF Publish
<1>3. order'[o] = new /\ ledger'[o] = now
  BY <1>1, <1>2 DEF IInv, TypeOK
<1>4. /\ now \in Sums
      /\ now.out = was.out + work[c].out /\ now.in = was.in + work[c].in
      /\ now.back = was.back + work[c].back /\ now.receipts = was.receipts + work[c].receipts
  BY <1>1 DEF AddSums, Sums
<1>5. /\ old.qty \in Nat /\ old.received \in Nat /\ seen[c].qty \in Nat
      /\ seen[c].received \in Nat /\ was.out \in Nat /\ was.in \in Nat
      /\ was.back \in Nat /\ was.receipts \in Nat
  BY <1>1 DEF OrderRow, Sums
<1>6. /\ old.qty > 0 /\ old.received <= old.qty
      /\ old.status = "received" <=> old.received = old.qty
      /\ was.receipts = old.received /\ was.in = old.received
      /\ old.status \in {"pending", "confirmed"} => old.received = 0 /\ was.out = 0
      /\ old.status \in {"shipped", "received"} => was.out = old.qty
      /\ old.status # "cancelled" => was.back = 0
  BY <1>1 DEF RowInv
<1> DEFINE Result ==
        /\ new.from = old.from /\ new.to = old.to
        /\ new.qty = old.qty /\ new.received >= old.received
        /\ old.status \in {"pending", "confirmed", "shipped"}
        /\ new.status # old.status => CanTransfer(old.status, new.status)
        /\ /\ new.received <= new.qty
           /\ new.status = "received" <=> new.received = new.qty
           /\ now.receipts = new.received /\ now.in = new.received
           /\ new.status \in {"pending", "confirmed"} => new.received = 0 /\ now.out = 0
           /\ new.status \in {"shipped", "received"} => now.out = new.qty
           /\ new.status # "cancelled" => now.back = 0
           /\ new.status = "cancelled" =>
                /\ now.out \in {0, new.qty}
                /\ now.out <= new.received + now.back
                /\ now.back <= now.out
        /\ pc[c] = "receive.commit" => /\ new.received >= amount[c]
                                       /\ new.status \in {"shipped", "received"}
        /\ pc[c] = "cancel.commit" => new.status = "cancelled"
       Kept ==
        /\ pc[c] = "receive.commit" => old.status = "shipped"
        /\ pc[c] # "receive.commit" => new.received = old.received /\ new.status # old.status
        /\ now.out = was.out \/ (old.status = "confirmed" /\ new.status = "shipped")
<1>7. ASSUME pc[c] = "confirm.commit" PROVE Result /\ Kept
  <2>1. /\ old.status = "pending" /\ new = [old EXCEPT !.status = "confirmed"]
        /\ work[c] = NoSums
    BY <1>7 DEF IInv, SessionInv, ConfirmKnows
  <2>2. /\ new.from = old.from /\ new.to = old.to
        /\ new.status = "confirmed" /\ new.qty = old.qty /\ new.received = old.received
        /\ now.out = was.out /\ now.in = was.in /\ now.back = was.back
        /\ now.receipts = was.receipts
    BY <1>1, <1>4, <1>5, <2>1 DEF OrderRow, NoSums
  <2> HIDE DEF old, new, was, now
  <2>3. Result
    BY <1>5, <1>6, <1>7, <2>1, <2>2 DEF CanTransfer, TransferStatusFlow
  <2>4. Kept
    BY <1>7, <2>1, <2>2
  <2> QED BY <2>3, <2>4
<1>8. ASSUME pc[c] = "ship.commit" PROVE Result /\ Kept
  <2>1. /\ old.status = "confirmed" /\ new = [old EXCEPT !.status = "shipped"]
        /\ work[c] = [NoSums EXCEPT !.out = seen[c].qty]
    BY <1>8 DEF IInv, SessionInv, ShipKnows
  <2>2. /\ new.from = old.from /\ new.to = old.to
        /\ new.status = "shipped" /\ new.qty = old.qty /\ new.received = old.received
        /\ now.out = was.out + old.qty /\ now.in = was.in /\ now.back = was.back
        /\ now.receipts = was.receipts
    BY <1>1, <1>4, <1>5, <2>1 DEF OrderRow, NoSums
  <2> HIDE DEF old, new, was, now
  <2>3. Result
    BY <1>5, <1>6, <1>8, <2>1, <2>2 DEF CanTransfer, TransferStatusFlow
  <2>4. Kept
    BY <1>8, <2>1, <2>2
  <2> QED BY <2>3, <2>4
<1>9. ASSUME pc[c] = "receive.commit" PROVE Result /\ Kept
  <2>1. /\ old.status = "shipped" /\ old.received + amount[c] <= old.qty
        /\ new = AddReceived(old, amount[c])
        /\ work[c] = [out |-> 0, back |-> 0, in |-> amount[c], receipts |-> amount[c]]
    BY <1>9 DEF IInv, SessionInv, ReceiveKnows, Receivable, ReceiveDraftLabels
  <2>2. /\ new.from = old.from /\ new.to = old.to
        /\ new.qty = old.qty /\ new.received = old.received + amount[c]
        /\ new.status = IF old.received + amount[c] >= old.qty THEN "received" ELSE "shipped"
    BY <1>1, <2>1, AddReceivedRow
  <2>3. /\ now.out = was.out /\ now.in = was.in + amount[c] /\ now.back = was.back
        /\ now.receipts = was.receipts + amount[c]
    BY <1>4, <1>5, <2>1
  <2> HIDE DEF old, new, was, now
  <2>4. Result
    BY <1>1, <1>5, <1>6, <1>9, <2>1, <2>2, <2>3 DEF CanTransfer, TransferStatusFlow
  <2>5. Kept
    BY <1>9, <2>1, <2>2, <2>3
  <2> QED BY <2>4, <2>5
<1>10. ASSUME pc[c] = "cancel.commit" PROVE Result /\ Kept
  <2>1. /\ old.status = seen[c].status /\ new = [old EXCEPT !.status = "cancelled"]
        /\ CanTransfer(old.status, "cancelled")
        /\ work[c] = [NoSums EXCEPT !.back = ReturnQty(c)]
    BY <1>10 DEF IInv, SessionInv, CancelKnows, CancelDraftLabels, StatusUnchanged
  <2>2. ReturnQty(c) = IF old.status = "shipped" THEN old.qty - seen[c].received ELSE 0
    BY <1>1, <2>1 DEF ReturnQty
  <2>3. /\ new.status = "cancelled" /\ new.qty = old.qty /\ new.received = old.received
        /\ now.out = was.out /\ now.in = was.in /\ now.back = was.back + ReturnQty(c)
        /\ now.receipts = was.receipts
    BY <1>1, <1>4, <1>5, <2>1 DEF OrderRow, NoSums
  <2>4. old.status \in {"pending", "confirmed", "shipped"}
    BY <2>1 DEF CanTransfer, TransferStatusFlow
  <2>5. seen[c].received <= old.received /\ seen[c].received <= old.qty
    BY <1>1
  <2> HIDE DEF old, new, was, now
  <2>6. Result
    BY <1>5, <1>6, <1>10, <2>1, <2>2, <2>3, <2>4, <2>5
  <2>7. Kept
    BY <1>10, <2>1, <2>2, <2>3, <2>4
  <2> QED BY <2>6, <2>7
<1>11. Result /\ Kept
  BY <1>7, <1>8, <1>9, <1>10 DEF CommitLabels
<1>12. RowInv(o)'
  BY <1>1, <1>3, <1>6, <1>11 DEF RowInv
<1> QED BY <1>1, <1>2, <1>4, <1>11, <1>12

\* The other sessions' knowledge survives a commit: what they read of the order
\* is still not ahead of it, and none of them drafts it.
LEMMA PublishFrame ==
    ASSUME IInv, NEW c \in Sessions, pc[c] \in CommitLabels, Publish(c), Others(c),
           NEW d \in Sessions \ {c}
    PROVE  SessionInv(d)'
<1> PICK o : o = target[c]
  OBVIOUS
<1>1. /\ o \in Orders /\ order[o] \in OrderRow /\ draft[c] \in OrderRow
      /\ order' = [order EXCEPT ![o] = draft[c]]
      /\ draft[c].from = order[o].from /\ draft[c].to = order[o].to
      /\ draft[c].qty = order[o].qty /\ draft[c].received >= order[o].received
      /\ order[o].status \in {"pending", "confirmed", "shipped"}
      /\ draft[c].status # order[o].status => CanTransfer(order[o].status, draft[c].status)
  BY PublishRow
<1>2. /\ SessionInv(d) /\ order \in [Orders -> OrderRow \cup {Nil}]
      /\ pc'[d] = pc[d] /\ target'[d] = target[d] /\ amount'[d] = amount[d]
      /\ seen'[d] = seen[d] /\ draft'[d] = draft[d] /\ work'[d] = work[d]
      /\ pc[d] \in Labels /\ amount[d] \in Nat
  BY DEF IInv, TypeOK, Others
<1>3. pc[d] \in DraftLabels => target[d] # o
  BY DEF IInv, Apart, DraftLabels
<1>4. CASE pc[d] = "idle"
  BY <1>2, <1>4 DEF SessionInv, CreateKnows, SeenIsPast, NoDraft, ConfirmKnows, ShipKnows,
     ReceiveKnows, CancelKnows, CreatedLabels, DraftLabels, CommitLabels, ReceiveDraftLabels,
     CancelDraftLabels
<1>5. CASE pc[d] = "create.insert"
  <2>1. target[d] \in Orders /\ target[d] # o
    BY <1>1, <1>2, <1>5, NilFacts DEF SessionInv, CreateKnows
  <2>2. order'[target[d]] = order[target[d]]
    BY <1>1, <1>2, <2>1
  <2> QED BY <1>2, <1>5, <2>2 DEF SessionInv, CreateKnows, SeenIsPast, NoDraft, ConfirmKnows,
          ShipKnows, ReceiveKnows, CancelKnows, CreatedLabels, DraftLabels, CommitLabels,
          ReceiveDraftLabels, CancelDraftLabels
<1>6. CASE pc[d] \in CreatedLabels /\ target[d] # o
  <2>1. order'[target'[d]] = order[target[d]]
    BY <1>1, <1>2, <1>6 DEF SessionInv, SeenIsPast
  <2> QED BY <1>2, <1>6, <2>1, SessionFrameRow DEF CreatedLabels
<1>7. CASE pc[d] \in CreatedLabels \ DraftLabels /\ target[d] = o
  <2>1. order'[o] = draft[c] /\ target'[d] = o /\ order[o].received \in Nat
        /\ draft[c].received \in Nat
    BY <1>1, <1>2, <1>7 DEF OrderRow
  <2>2. SeenIsPast(d)'
    <3>1. /\ seen[d] \in OrderRow /\ seen[d].qty = order[o].qty
          /\ seen[d].from = order[o].from /\ seen[d].to = order[o].to
          /\ seen[d].received <= order[o].received /\ seen[d].received <= seen[d].qty
          /\ seen[d].received \in Nat
      BY <1>2, <1>7 DEF SessionInv, SeenIsPast, OrderRow
    <3>2. seen[d].received <= draft[c].received
      BY <1>1, <2>1, <3>1
    <3> QED BY <1>1, <1>2, <2>1, <3>1, <3>2 DEF SeenIsPast
  <2>3. CreateKnows(d)' /\ NoDraft(d)'
    BY <1>2, <1>7 DEF SessionInv, CreateKnows, NoDraft, CreatedLabels
  <2>4. ConfirmKnows(d)' /\ ShipKnows(d)'
    BY <1>2, <1>7 DEF SessionInv, ConfirmKnows, ShipKnows, DraftLabels, CommitLabels
  <2>5. ReceiveKnows(d)' /\ CancelKnows(d)'
    <3>1. pc[d] = "receive.reload" =>
            draft[c].received >= amount[d] /\ draft[c].status \notin {"pending", "confirmed"}
      <4>1. pc[d] = "receive.reload" =>
              order[o].received >= amount[d] /\ order[o].status \notin {"pending", "confirmed"}
        BY <1>2, <1>7 DEF SessionInv, ReceiveKnows
      <4>2. order[o].status = "shipped" => draft[c].status \in {"shipped", "received", "cancelled"}
        BY <1>1 DEF CanTransfer, TransferStatusFlow
      <4> QED BY <1>1, <1>2, <2>1, <4>1, <4>2
    <3>2. pc[d] # "cancel.reload"
      BY <1>1, <1>2, <1>7 DEF SessionInv, CancelKnows
    <3>3. pc[d] = "cancel.transition" => CanTransfer(seen[d].status, "cancelled")
      BY <1>2 DEF SessionInv, CancelKnows
    <3> QED BY <1>2, <1>7, <2>1, <3>1, <3>2, <3>3 DEF ReceiveKnows, CancelKnows, DraftLabels,
            CommitLabels, ReceiveDraftLabels, CancelDraftLabels
  <2> QED BY <2>2, <2>3, <2>4, <2>5 DEF SessionInv
<1> QED BY <1>2, <1>3, <1>4, <1>5, <1>6, <1>7 DEF CreatedLabels

\* Commit and CommitThenReload.
LEMMA CommitPreserves ==
    ASSUME IInv, NEW c \in Sessions, Commit(c) \/ CommitThenReload(c)
    PROVE  IInv'
<1> PICK o : o = target[c]
  OBVIOUS
<1>1. pc[c] \in CommitLabels /\ Publish(c)
  BY DEF Commit, CommitThenReload, CommitLabels
<1>2. /\ o \in Orders /\ order[o] \in OrderRow /\ draft[c] \in OrderRow
      /\ order' = [order EXCEPT ![o] = draft[c]]
      /\ ledger' = [ledger EXCEPT ![o] = AddSums(ledger[o], work[c])]
      /\ AddSums(ledger[o], work[c]) \in Sums
      /\ draft[c].from = order[o].from /\ draft[c].to = order[o].to
      /\ draft[c].qty = order[o].qty /\ draft[c].received >= order[o].received
      /\ RowInv(o)'
      /\ pc[c] = "receive.commit" => /\ draft[c].received >= amount[c]
                                     /\ draft[c].status \in {"shipped", "received"}
      /\ pc[c] = "cancel.commit" => draft[c].status = "cancelled"
  BY <1>1, PublishRow
<1>3. InvTypeOK' /\ NoSums \in Sums
  BY <1>1, CommitType DEF Publish, IInv, TypeOK, NoSums, Sums
<1>4. TypeOK' /\ Others(c)
  BY <1>2, <1>3 DEF Commit, CommitThenReload, EndRequest, Goto, IInv, TypeOK, Others, Labels,
     ReloadLabels
<1>5. SessionInv(c)' /\ \A d \in Sessions \ {c} : Apart(c, d)' /\ Apart(d, c)'
  <2>1. CASE Commit(c)
    BY <2>1, EndRequestSession DEF Commit, IInv
  <2>2. CASE CommitThenReload(c)
    <3>1. /\ pc[c] \in {"receive.commit", "cancel.commit"}
          /\ pc'[c] = IF pc[c] = "receive.commit" THEN "receive.reload" ELSE "cancel.reload"
          /\ draft'[c] = Nil /\ work'[c] = NoSums /\ target'[c] = o
          /\ seen'[c] = seen[c] /\ amount'[c] = amount[c] /\ order'[o] = draft[c]
      BY <1>2, <2>2 DEF CommitThenReload, Goto, IInv, TypeOK
    <3>2. SeenIsPast(c)'
      <4>1. /\ seen[c] \in OrderRow /\ seen[c].qty = order[o].qty
            /\ seen[c].from = order[o].from /\ seen[c].to = order[o].to
            /\ seen[c].received <= order[o].received /\ seen[c].received <= seen[c].qty
        BY <3>1 DEF IInv, SessionInv, SeenIsPast, CreatedLabels, Labels, CommitLabels
      <4>2. seen[c].received <= draft[c].received
        BY <1>2, <4>1 DEF OrderRow
      <4> QED BY <1>2, <3>1, <4>1, <4>2 DEF SeenIsPast
    <3>3. SessionInv(c)'
      BY <1>2, <3>1, <3>2 DEF SessionInv, CreateKnows, NoDraft, ConfirmKnows, ShipKnows,
         ReceiveKnows, CancelKnows, DraftLabels, CommitLabels, ReceiveDraftLabels,
         CancelDraftLabels
    <3> QED BY <3>1, <3>3, ApartTrivially DEF DraftLabels, CommitLabels
  <2> QED BY <2>1, <2>2
<1>6. \A d \in Sessions \ {c} : SessionInv(d)'
  BY <1>1, <1>4, PublishFrame
<1>7. \A d, e \in Sessions : d # e => Apart(d, e)'
  <2> SUFFICES ASSUME NEW d \in Sessions \ {c}, NEW e \in Sessions \ {c}, d # e
               PROVE  Apart(d, e)'
    BY <1>5
  <2> QED BY <1>4 DEF IInv, Others, Apart
<1>8. ASSUME NEW p \in Orders
      PROVE  RowInv(p)'
  <2>1. p # o => RowInv(p)'
    BY <1>2 DEF IInv, TypeOK, RowInv
  <2> QED BY <1>2, <2>1
<1> QED BY <1>4, <1>5, <1>6, <1>7, <1>8 DEF IInv

\* The read for the response keeps the invariant.
LEMMA ReloadPreserves ==
    ASSUME IInv, NEW c \in Sessions, Reload(c)
    PROVE  IInv'
<1>1. InvTypeOK'
  BY DEF Reload, IInv, TypeOK, InvTypeOK
<1> QED BY <1>1, EndRequestSession, EndRequestType, LocalStep DEF Reload, IInv

-----------------------------------------------------------------------------
\* The initial state: no orders, idle sessions, the stock of InitStock.
LEMMA InitIInv == Init => IInv
<1> SUFFICES ASSUME Init PROVE IInv
  OBVIOUS
<1>1. InvTypeOK
  <2>1. \A s \in Stores : InitStock[s] # Nil => InitStock[s] \in Nat
    BY InitStockAssumption
  <2>2. \A k \in InvKeys : k[1] \in Stores
    BY DEF InvKeys
  <2> QED BY <2>1, <2>2 DEF Init, InvInit, InvTypeOK, InvRow, NoWrites
<1>2. TypeOK
  BY <1>1 DEF Init, TypeOK, NoSums, Sums, Labels
<1>3. ASSUME NEW c \in Sessions
      PROVE  SessionInv(c)
  BY DEF Init, SessionInv, CreateKnows, SeenIsPast, NoDraft, ConfirmKnows, ShipKnows,
     ReceiveKnows, CancelKnows, CreatedLabels, DraftLabels, CommitLabels, ReceiveDraftLabels,
     CancelDraftLabels
<1>4. \A c, d \in Sessions : Apart(c, d)
  BY DEF Init, Apart, DraftLabels, CommitLabels
<1>5. \A o \in Orders : RowInv(o)
  BY DEF Init, RowInv
<1> QED BY <1>2, <1>3, <1>4, <1>5 DEF IInv

\* Every step of every session preserves the invariant.
LEMMA NextIInv == IInv /\ [Next]_vars => IInv'
<1> SUFFICES ASSUME IInv, [Next]_vars PROVE IInv'
  OBVIOUS
<1>1. CASE UNCHANGED vars
  <2>1. TypeOK'
    BY <1>1 DEF vars, IInv, TypeOK, InvTypeOK
  <2>2. \A c \in Sessions : SessionInv(c)'
    BY <1>1, SessionFrame DEF vars, IInv
  <2>3. \A c, d \in Sessions : c # d => Apart(c, d)'
    BY <1>1 DEF vars, IInv, Apart
  <2>4. \A o \in Orders : RowInv(o)'
    BY <1>1 DEF vars, IInv, RowInv
  <2> QED BY <2>1, <2>2, <2>3, <2>4 DEF IInv
<1>2. ASSUME NEW c \in Sessions, Request(c) \/ Step(c) \/ Fail(c)
      PROVE  IInv'
  <2>1. CASE Request(c)
    BY <2>1, RequestPreserves
  <2>2. CASE Fail(c)
    BY <2>2, RollbackPreserves DEF Fail
  <2>3. CASE Step(c)
    BY <2>3, CreateInsertPreserves, TransitionPreserves, ShipCheckPreserves, ShipDeductPreserves,
       RereadPreserves, ReceiveAddPreserves, ReceiveStockPreserves, CancelStockPreserves,
       CommitPreserves, ReloadPreserves DEF Step
  <2> QED BY <1>2, <2>1, <2>2, <2>3
<1> QED BY <1>1, <1>2 DEF Next

\* The tables and the sessions keep their types; in particular no inventory row
\* ever goes below zero, whatever requests interleave.
THEOREM TypeCorrect == Spec => []TypeOK
<1>1. IInv => TypeOK
  BY DEF IInv
<1> QED BY <1>1, InitIInv, NextIInv, PTL DEF Spec

\* For every number of sessions, orders and stores: what was received is
\* receipted and recorded, unit for unit.
THEOREM ReceiptsCorrect == Spec => []ReceiptsAccountForReceived
<1>1. IInv => ReceiptsAccountForReceived
  BY DEF IInv, RowInv, ReceiptsAccountForReceived, Exists
<1> QED BY <1>1, InitIInv, NextIInv, PTL DEF Spec

\* No order is over-received, and 'received' means received in full.
THEOREM FullIffReceivedCorrect == Spec => []FullIffReceived
<1>1. IInv => FullIffReceived
  BY DEF IInv, RowInv, FullIffReceived, Exists
<1> QED BY <1>1, InitIInv, NextIInv, PTL DEF Spec

\* The from-store is charged once for a shipped order and never for another.
THEOREM ChargedOnceCorrect == Spec => []ChargedOncePerShipment
<1>1. IInv => ChargedOncePerShipment
  BY DEF IInv, RowInv, ChargedOncePerShipment, Exists
<1> QED BY <1>1, InitIInv, NextIInv, PTL DEF Spec

\* A cancelled shipment is delivered or returned in full: nothing is lost.
THEOREM NothingLostCorrect == Spec => []NothingLost
<1>1. IInv => NothingLost
  <2> SUFFICES ASSUME IInv, NEW o \in Orders, Exists(o)
               PROVE  /\ order[o].status = "cancelled" =>
                            ledger[o].out <= order[o].received + ledger[o].back
                      /\ order[o].status # "cancelled" => ledger[o].back = 0
                      /\ ledger[o].back <= ledger[o].out
    BY DEF NothingLost
  <2>1. RowInv(o) /\ ledger[o] \in Sums /\ order[o] \in OrderRow
    BY DEF IInv, TypeOK, Exists
  <2> QED BY <2>1 DEF RowInv, Exists, Sums, OrderRow
<1> QED BY <1>1, InitIInv, NextIInv, PTL DEF Spec

\* The response of every request shows what the request did.
THEOREM ResponseCorrect == Spec => []ResponseShowsEffect
<1>1. IInv => ResponseShowsEffect
  <2> SUFFICES ASSUME IInv, NEW c \in Sessions
               PROVE  /\ pc[c] = "confirm.commit" => draft[c] = [seen[c] EXCEPT !.status = "confirmed"]
                      /\ pc[c] = "ship.commit" => draft[c] = [seen[c] EXCEPT !.status = "shipped"]
                      /\ pc[c] = "receive.reload" =>
                            /\ order[target[c]].received >= amount[c]
                            /\ order[target[c]].status \notin {"pending", "confirmed"}
                      /\ pc[c] = "cancel.reload" => order[target[c]].status = "cancelled"
    BY DEF ResponseShowsEffect
  <2>1. ASSUME NEW s, pc[c] \in {"confirm.commit", "ship.commit"}
        PROVE  [order[target[c]] EXCEPT !.status = s] = [seen[c] EXCEPT !.status = s]
    <3>1. PICK o \in Orders : o = target[c]
      BY <2>1 DEF IInv, SessionInv, SeenIsPast, CreatedLabels, Labels, CommitLabels
    <3>2. /\ order[o] \in OrderRow /\ seen[c] \in OrderRow
          /\ seen[c].from = order[o].from /\ seen[c].to = order[o].to
          /\ seen[c].qty = order[o].qty /\ seen[c].received <= order[o].received
      BY <2>1, <3>1 DEF IInv, SessionInv, SeenIsPast, CreatedLabels, Labels, CommitLabels
    <3>3. order[o].status \in {"pending", "confirmed"} /\ order[o] # Nil
      BY <2>1, <3>1, <3>2, NilOrderAssumption DEF IInv, SessionInv, ConfirmKnows, ShipKnows
    <3>4. order[o].received = 0 /\ seen[c].received = 0
      BY <3>2, <3>3 DEF IInv, RowInv, OrderRow
    <3> QED BY <3>1, <3>2, <3>4 DEF OrderRow
  <2>2. pc[c] = "confirm.commit" => draft[c] = [order[target[c]] EXCEPT !.status = "confirmed"]
    BY DEF IInv, SessionInv, ConfirmKnows
  <2>3. pc[c] = "ship.commit" => draft[c] = [order[target[c]] EXCEPT !.status = "shipped"]
    BY DEF IInv, SessionInv, ShipKnows
  <2>4. /\ pc[c] = "receive.reload" =>
              /\ order[target[c]].received >= amount[c]
              /\ order[target[c]].status \notin {"pending", "confirmed"}
        /\ pc[c] = "cancel.reload" => order[target[c]].status = "cancelled"
    BY DEF IInv, SessionInv, ReceiveKnows, CancelKnows
  <2> QED BY <2>1, <2>2, <2>3, <2>4
<1> QED BY <1>1, InitIInv, NextIInv, PTL DEF Spec

-----------------------------------------------------------------------------
\* What steps may do.

\* An existing order and its ledger change only by a commit of a session that
\* holds a draft of it.
LEMMA OnlyCommitsChange ==
    ASSUME IInv, [Next]_vars, NEW o \in Orders, Exists(o),
           order'[o] # order[o] \/ ledger'[o] # ledger[o]
    PROVE  \E c \in Sessions : pc[c] \in CommitLabels /\ Publish(c) /\ target[c] = o
<1>1. ~UNCHANGED <<order, ledger>>
  OBVIOUS
<1>2. PICK c \in Sessions : Request(c) \/ Step(c) \/ Fail(c)
  BY <1>1 DEF Next, vars
<1>3. CASE Request(c) \/ Fail(c)
  BY <1>1, <1>3 DEF Request, Create, Confirm, Ship, Receive, Cancel, FindByID, Fail, Rollback
<1>4. CASE CreateInsert(c)
  <2>1. target[c] \in Orders /\ target[c] # o
    BY <1>4 DEF CreateInsert, IInv, SessionInv, CreateKnows, Exists
  <2>2. order'[o] = order[o] /\ ledger' = ledger
    BY <1>4, <2>1 DEF CreateInsert, IInv, TypeOK
  <2> QED BY <2>2
<1>5. CASE Commit(c) \/ CommitThenReload(c)
  <2>1. pc[c] \in CommitLabels /\ Publish(c)
    BY <1>5 DEF Commit, CommitThenReload, CommitLabels
  <2>2. target[c] = o
    BY <2>1 DEF Publish, IInv, TypeOK
  <2> QED BY <2>1, <2>2
<1>6. CASE Step(c) /\ ~CreateInsert(c) /\ ~Commit(c) /\ ~CommitThenReload(c)
  <2>1. UNCHANGED <<order, ledger>>
    BY <1>6 DEF Step, ConfirmTransition, ShipCheck, ShipRead, ShipDeduct, ShipTransition,
       ReceiveReread, ReceiveAdd, ReceiveEnsure, ReceiveInsert, ReceiveRead, ReceiveAdjust,
       ReceiveReceipt, CancelReread, CancelTransition, CancelRead, CancelAdjust, Reload,
       TransitionStatusTx, AddReceivedQuantityTx, UpdateOrder, MoveStock, Check, Proceed,
       Reread, Rollback
  <2> QED BY <1>1, <2>1
<1> QED BY <1>2, <1>3, <1>4, <1>5, <1>6

\* An order's status moves along TransferStatusFlow only.
THEOREM StatusFlowCorrect == Spec => StatusFollowsFlow
<1>1. IInv /\ [Next]_vars =>
        [\A o \in Orders : Exists(o) /\ order'[o].status # order[o].status
                            => CanTransfer(order[o].status, order'[o].status)]_vars
  <2> SUFFICES ASSUME IInv, [Next]_vars, NEW o \in Orders, Exists(o),
                      order'[o].status # order[o].status
               PROVE  CanTransfer(order[o].status, order'[o].status)
    OBVIOUS
  <2>1. PICK c \in Sessions : pc[c] \in CommitLabels /\ Publish(c) /\ target[c] = o
    BY OnlyCommitsChange
  <2>2. /\ order' = [order EXCEPT ![o] = draft[c]]
        /\ draft[c].status # order[o].status => CanTransfer(order[o].status, draft[c].status)
    BY <2>1, PublishRow
  <2>3. order'[o] = draft[c]
    BY <2>2 DEF IInv, TypeOK
  <2> QED BY <2>2, <2>3
<1> QED BY <1>1, InitIInv, NextIInv, PTL DEF Spec, StatusFollowsFlow

\* A finished order and everything recorded about it never change again.
THEOREM FinishedCorrect == Spec => FinishedOrdersFrozen
<1>1. IInv /\ [Next]_vars =>
        [\A o \in Orders : Exists(o) /\ Terminal(order[o].status)
                            => order'[o] = order[o] /\ ledger'[o] = ledger[o]]_vars
  <2> SUFFICES ASSUME IInv, [Next]_vars, NEW o \in Orders, Exists(o), Terminal(order[o].status),
                      order'[o] # order[o] \/ ledger'[o] # ledger[o]
               PROVE  FALSE
    OBVIOUS
  <2>1. PICK c \in Sessions : pc[c] \in CommitLabels /\ Publish(c) /\ target[c] = o
    BY OnlyCommitsChange
  <2>2. order[o].status \in {"pending", "confirmed", "shipped"}
    BY <2>1, PublishRow
  <2> QED BY <2>2 DEF Terminal, CanTransfer, TransferStatusFlow, TransferStatuses
<1> QED BY <1>1, InitIInv, NextIInv, PTL DEF Spec, FinishedOrdersFrozen

-----------------------------------------------------------------------------
\* Transfers implements TransferBook: only a CreateInsert and a commit change an
\* entry, and each of them is one step of the book.
book == [o \in Orders |-> Entry(o)]

\* A step that writes one order's row and ledger changes its entry only.
LEMMA OneEntryChanges ==
    ASSUME IInv, NEW o \in Orders, NEW row \in OrderRow, NEW sums \in Sums,
           order' = [order EXCEPT ![o] = row], ledger' = [ledger EXCEPT ![o] = sums]
    PROVE  book' = [book EXCEPT ![o] =
                [qty |-> row.qty, received |-> row.received, status |-> row.status,
                 charged |-> sums.out, returned |-> sums.back]]
<1>1. order'[o] = row /\ ledger'[o] = sums /\ row # Nil
  BY NilFacts DEF IInv, TypeOK
<1>2. \A p \in Orders \ {o} : order'[p] = order[p] /\ ledger'[p] = ledger[p]
  BY DEF IInv, TypeOK
<1> QED BY <1>1, <1>2 DEF book, Entry

\* The entry of an existing order, field by field.
LEMMA EntryOfRow ==
    ASSUME NEW o \in Orders, order[o] \in OrderRow, ledger[o] \in Sums
    PROVE  /\ book[o] # Nil
           /\ book[o].status = order[o].status /\ book[o].qty = order[o].qty
           /\ book[o].received = order[o].received
           /\ book[o].charged = ledger[o].out /\ book[o].returned = ledger[o].back
<1>1. book[o] = [qty |-> order[o].qty, received |-> order[o].received,
                 status |-> order[o].status,
                 charged |-> ledger[o].out, returned |-> ledger[o].back]
  BY NilFacts DEF book, Entry
<1>2. book[o] \in Entries
  BY <1>1 DEF Entries, OrderRow, Sums
<1> QED BY <1>1, <1>2, NilEntryAssumption

\* The INSERT of a new order opens its entry.
LEMMA InsertOpens ==
    ASSUME IInv, NEW c \in Sessions, CreateInsert(c)
    PROVE  Book!Next
<1>1. PICK o : o = target[c]
  OBVIOUS
<1>2. /\ o \in Orders /\ order[o] = Nil /\ seen[c] \in OrderRow
      /\ seen[c].status = "pending" /\ seen[c].received = 0 /\ seen[c].qty \in Quantities
  BY <1>1 DEF CreateInsert, IInv, SessionInv, CreateKnows
<1>3. ledger[o] = NoSums /\ NoSums \in Sums
  BY <1>2 DEF IInv, RowInv, NoSums, Sums
<1>4. order' = [order EXCEPT ![o] = seen[c]] /\ ledger' = [ledger EXCEPT ![o] = NoSums]
  BY <1>1, <1>2, <1>3 DEF CreateInsert, IInv, TypeOK
<1>5. book' = [book EXCEPT ![o] = Book!Opened(seen[c].qty)]
  BY <1>2, <1>3, <1>4, OneEntryChanges DEF Book!Opened, NoSums
<1>6. book[o] = Nil
  BY <1>2 DEF book, Entry
<1> QED BY <1>2, <1>5, <1>6 DEF Book!Next, Book!Create, book

\* A commit is the step of the book that its request stands for.
LEMMA CommitEnters ==
    ASSUME IInv, NEW c \in Sessions, pc[c] \in CommitLabels, Publish(c)
    PROVE  Book!Next
<1>1. PICK o : o = target[c]
  OBVIOUS
<1> DEFINE old == order[o]
           new == draft[c]
           sums == AddSums(ledger[o], work[c])
<1>2. /\ o \in Orders /\ old \in OrderRow /\ new \in OrderRow /\ sums \in Sums
      /\ order' = [order EXCEPT ![o] = new] /\ ledger' = [ledger EXCEPT ![o] = sums]
      /\ new.qty = old.qty /\ new.received >= old.received
      /\ new.status # old.status => CanTransfer(old.status, new.status)
      /\ RowInv(o)'
      /\ pc[c] = "receive.commit" => /\ new.status \in {"shipped", "received"}
                                     /\ old.status = "shipped"
      /\ pc[c] # "receive.commit" => new.received = old.received /\ new.status # old.status
      /\ sums.out = ledger[o].out \/ (old.status = "confirmed" /\ new.status = "shipped")
  BY <1>1, PublishRow
<1>3. /\ old.qty \in Nat /\ old.received \in Nat /\ new.received \in Nat
      /\ ledger[o] \in Sums /\ ledger[o].out \in Nat /\ sums.out \in Nat /\ sums.back \in Nat
  BY <1>2 DEF OrderRow, Sums, IInv, TypeOK
<1>4. /\ old.status \in {"pending", "confirmed"} => old.received = 0 /\ ledger[o].out = 0
      /\ old.status = "shipped" => ledger[o].out = old.qty /\ old.received # old.qty
  BY <1>2, NilFacts DEF IInv, RowInv
<1>5. /\ new.received <= old.qty
      /\ new.status = "received" <=> new.received = old.qty
      /\ new.status = "shipped" => sums.out = old.qty
      /\ new.status # "cancelled" => sums.back = 0
      /\ new.status = "cancelled" => /\ sums.out <= new.received + sums.back
                                     /\ sums.back <= sums.out
  <2>1. order'[o] = new /\ ledger'[o] = sums /\ new # Nil
    BY <1>2, NilFacts DEF IInv, TypeOK
  <2> QED BY <1>2, <2>1 DEF RowInv
<1>6. /\ book[o] # Nil /\ book[o].status = old.status /\ book[o].qty = old.qty
      /\ book[o].received = old.received /\ book[o].charged = ledger[o].out
  BY <1>2, <1>3, EntryOfRow
<1>7. book' = [book EXCEPT ![o] =
                [qty |-> old.qty, received |-> new.received, status |-> new.status,
                 charged |-> sums.out, returned |-> sums.back]]
  <2>1. o \in Orders /\ new \in OrderRow /\ sums \in Sums
    BY <1>2
  <2>2. order' = [order EXCEPT ![o] = new] /\ ledger' = [ledger EXCEPT ![o] = sums]
    BY <1>2
  <2> HIDE DEF new, sums
  <2>3. book' = [book EXCEPT ![o] =
                [qty |-> new.qty, received |-> new.received, status |-> new.status,
                 charged |-> sums.out, returned |-> sums.back]]
    BY <2>1, <2>2, OneEntryChanges
  <2>4. new.qty = old.qty
    BY <1>2
  <2> QED BY <2>3, <2>4
<1> HIDE DEF old, new, sums
<1>8. ASSUME pc[c] = "receive.commit"
      PROVE  \E r \in book[o].received..book[o].qty : Book!Receive(o, r)
  <2>1. new.received \in book[o].received..book[o].qty
    BY <1>2, <1>3, <1>5, <1>6
  <2>2. /\ new.status = IF new.received = old.qty THEN "received" ELSE "shipped"
        /\ sums.out = ledger[o].out /\ sums.back = 0
    BY <1>2, <1>5, <1>8
  <2>3. Book!Receive(o, new.received)
    BY <1>2, <1>6, <1>7, <1>8, <2>2 DEF Book!Receive, Book!Enter, book
  <2> QED BY <2>1, <2>3
<1>9. ASSUME pc[c] # "receive.commit"
      PROVE  \/ Book!Confirm(o) \/ Book!Ship(o) \/ Book!CancelUnshipped(o)
             \/ \E r \in (book[o].qty - book[o].received)..book[o].qty : Book!CancelShipped(o, r)
  <2>1. CanTransfer(old.status, new.status) /\ new.received = old.received
    BY <1>2, <1>9
  <2>2. CASE new.status = "confirmed"
    <3>1. old.status = "pending" /\ sums.out = 0 /\ sums.back = 0 /\ new.received = 0
      BY <1>2, <1>4, <1>5, <2>1, <2>2 DEF CanTransfer, TransferStatusFlow
    <3> QED BY <1>6, <1>7, <2>1, <2>2, <3>1 DEF Book!Confirm, Book!Enter, Book!CanTransfer,
                                          Book!TransferStatusFlow, book
  <2>3. CASE new.status = "shipped"
    <3>1. old.status = "confirmed" /\ sums.out = old.qty /\ sums.back = 0 /\ new.received = 0
      BY <1>4, <1>5, <2>1, <2>3 DEF CanTransfer, TransferStatusFlow
    <3> QED BY <1>6, <1>7, <2>1, <2>3, <3>1 DEF Book!Ship, Book!Enter, Book!CanTransfer,
                                          Book!TransferStatusFlow, book
  <2>4. CASE new.status = "cancelled" /\ old.status = "shipped"
    <3>1. sums.out = old.qty
      BY <1>2, <1>4, <2>4
    <3>2. sums.back \in (old.qty - old.received)..old.qty
      BY <1>3, <1>5, <2>1, <2>4, <3>1
    <3>3. Book!CancelShipped(o, sums.back)
      BY <1>4, <1>6, <1>7, <2>1, <2>4, <3>1 DEF Book!CancelShipped, Book!Enter, book
    <3> QED BY <1>6, <1>7, <3>2, <3>3
  <2>5. CASE new.status = "cancelled" /\ old.status # "shipped"
    <3>1. /\ old.status \in {"pending", "confirmed"} /\ new.received = 0
          /\ sums.out = 0 /\ sums.back = 0
      BY <1>2, <1>3, <1>4, <1>5, <2>1, <2>5 DEF CanTransfer, TransferStatusFlow
    <3> QED BY <1>6, <1>7, <2>5, <3>1 DEF Book!CancelUnshipped, Book!Enter, book
  <2>6. CASE new.status = "received"
    BY <1>4, <1>5, <2>1, <2>6, <1>3, <1>2 DEF CanTransfer, TransferStatusFlow
  <2> QED BY <2>1, <2>2, <2>3, <2>4, <2>5, <2>6 DEF CanTransfer, TransferStatusFlow
<1> QED BY <1>2, <1>6, <1>8, <1>9 DEF Book!Next, book

\* Every step is a step of the book or leaves it alone.
LEMMA StepEnters ==
    ASSUME IInv, [Next]_vars
    PROVE  [Book!Next]_book
<1>1. CASE UNCHANGED <<order, ledger>>
  BY <1>1 DEF book, Entry
<1>2. CASE ~UNCHANGED <<order, ledger>>
  <2>1. PICK c \in Sessions : Request(c) \/ Step(c) \/ Fail(c)
    BY <1>2 DEF Next, vars
  <2>2. CreateInsert(c) \/ Commit(c) \/ CommitThenReload(c)
    BY <1>2, <2>1 DEF Request, Create, Confirm, Ship, Receive, Cancel, FindByID, Fail, Rollback,
       Step, ConfirmTransition, ShipCheck, ShipRead, ShipDeduct, ShipTransition,
       ReceiveReread, ReceiveAdd, ReceiveEnsure, ReceiveInsert, ReceiveRead, ReceiveAdjust,
       ReceiveReceipt, CancelReread, CancelTransition, CancelRead, CancelAdjust, Reload,
       TransitionStatusTx, AddReceivedQuantityTx, UpdateOrder, MoveStock, Check, Proceed, Reread
  <2> QED BY <2>2, InsertOpens, CommitEnters DEF Commit, CommitThenReload, CommitLabels
<1> QED BY <1>1, <1>2

\* Whatever the number of sessions and orders, the service behaves as a book
\* that each request changes in one step.
THEOREM TransfersImplementBook == Spec => ImplementsTransferBook
<1>1. Init => Book!Init
  BY DEF Init, Book!Init, Entry
<1>2. IInv /\ [Next]_vars => [Book!Next]_book
  BY StepEnters
<1> QED BY <1>1, <1>2, InitIInv, NextIInv, PTL DEF Spec, ImplementsTransferBook, Book!Spec, book
=============================================================================
