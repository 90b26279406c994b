# StockLink: a verification project

StockLink is an inventory and transfer system for a chain of stores: a Go server
(Gin, GORM, PostgreSQL 15) and a Vue 3 client. This directory holds TLA+ models of
its core, the TLC configurations that check them on small instances, and proofs,
checked by TLAPS, that the main results hold for every number of sessions, orders,
stores and quantities.

Paths below are relative to `src/backend/internal/` unless they begin with `src/`.

## 1. The system

| Component | State | Operations | Interacts with |
|---|---|---|---|
| Transfer order service (`service/transfer_order_service.go`, `repository/transfer_order_repository.go`) | `transfer_orders`, `transfer_receipts` | Create, Confirm, Ship, Receive, Cancel; lists | inventory rows, stock records, row locks |
| Inventory rows (`repository/store_inventory_repository.go`) | `store_inventories`: quantity and safety stock by store and SKU | find, insert, save, conditional increment | every service that moves stock |
| Store inventory service (`service/store_inventory_service.go`) | none of its own | Ensure, SetSafetyStock, CheckSufficient, AdjustQuantityTx; lists, alerts, statistics | inventory rows |
| Stock record service (`service/stock_record_service.go`) | `stock_records`, `stocktakes` | Create, CreateStocktake; lists, ReplenishSuggestions | inventory rows |
| Rate limiter (`middleware/rate_limiter.go`) | a map from client to bucket, under a mutex, in the server's memory | allow | the clock, the life of the process |
| SKU, store and user services (`service/sku_service.go`, `store_service.go`, `user_service.go`, their repositories) | `skus`, `stores`, `users`, which refer to each other | create, batch import, register, update, delete; lists, login | each other's rows, inventory rows |
| Authentication and roles (`middleware/auth.go`, `rbac.go`) | none (signed tokens) | check of the token and of the role | every route |
| Boot (`router/router.go`, `router/seed.go`, `src/database/init.sql`) | the database | connect with retries, migrate, seed an empty database | everything |
| Replenishment (`util/replenish_calculator.go`, its twin in `src/frontend/src/utils/`, `ReplenishSuggestions`) | none | suggestion, slow movers, alerts, badges | inventory rows, stock records |
| Transfers page (`src/frontend/src/pages/Transfers.vue`, `src/frontend/src/utils/request.ts`) | list, dialog, receipts, requests in flight | load, open, receive, transition | the API, a 15 s timeout |

An order goes `pending -> confirmed -> shipped -> received`, and can be cancelled
until it is received (`constants/transfer.go`). Shipping charges the
from-store; each receipt, possibly partial, credits the to-store and adds to the
order's received quantity; cancelling a shipped order credits the from-store with
what was not received.

Every request runs in a goroutine of its own with a connection of a pool, and every
transaction runs at PostgreSQL's default level, READ COMMITTED. What is hard here is
therefore what happens *between* the statements of a handler:

- handlers read a row, decide on it, and write later; the protection is a condition in
  the `WHERE` clause of the write (`TransitionStatusTx`, `AddReceivedQuantityTx`,
  `AdjustQuantityTx`), and it has to cover everything that was decided on;
- `Ship` locks the inventory row and then the order, `Receive` and `Cancel` lock the
  order and then the inventory row: opposite orders, so deadlock has to be argued;
- a request writes up to four tables, and can fail at each statement and at COMMIT;
- find-then-insert (`EnsureTx`) and read-change-save (`SetSafetyStock`) have no
  protection at all;
- an update of a SKU, store or user reads a row and the row it refers to and saves both
  later, through an ORM that inserts what it does not find: a deletion in between is undone;
- requests are repeated by users and by clients that gave up waiting;
- the client awaits answers that come late, out of order or never, while its user goes
  on clicking;
- the seed is five transactions, and the process can die between any two.

For each component, correct means:

- *transfer orders*: the order, its receipts, its records and the stock of both stores
  agree at every moment; the status machine is followed; a finished order is final;
  no request waits for ever;
- *inventory*: no quantity below zero, no movement lost, repeated or half done;
- *stock records and stocktakes*: the documents add up to the quantity;
- *thresholds*: only SetSafetyStock changes them, and it changes nothing else;
- *SKUs, stores, users*: codes are unique, references never dangle, a deletion settles,
  and an edit changes what it was asked to change;
- *rate limiter*: a bound on what one client gets in any window, and no client is shut
  out for good, also when the server crashes;
- *transfers page*: what it reports or shows as received was received, a submission
  takes effect once, the form becomes usable again;
- *replenishment*: every place that decides what low stock is decides alike; a suggestion
  closes the gap, and one followed later misses it by no more than the row moved meanwhile;
- *boot*: the seed appears once and in order; a server starts in the end.

`PROJECT.json` lists the hazards behind these at the lines where they bite.

## 2. The modules

    TransferStatus            the status flow, the sign of a record type
      Inventory               the statements on store_inventories, rows and row locks
        InventoryProof          the stock of a store under each statement (uses SumLemmas)
        Transfers             the transfer order service, one action per SQL statement
          TransferProperties    what it promises
            TransferInvariant     the inductive invariant
              TransferRefinement    Transfers implements TransferBook
                TransfersProof        the invariant, the promises about orders, the
                                      refinement (uses InventoryProof)
                MCTransfers           small instances
            StockLink             Transfers and StockOps on the same rows
              StockLinkProof        stock and deadlock, of each service and of both
                                    (uses TransfersProof)
              MCStockLink
        StockOps              stock records, stocktakes, Ensure, SetSafetyStock
          StockOpsProperties
            MCStockOps
    TransferBook              the abstract order book
      ReceivePage             the receive dialog of the transfers page, against the book
        ReceivePageProof        its theorems (uses SumLemmas)
        MCReceivePage
    MasterData                SKUs, stores and users
      MasterDataProof           its theorems
      MCMasterData
    Replenish                 low stock: suggestions, alerts, badges, the report
      ReplenishProof            its theorems
    RateLimiter               one client's bucket, and what the client observes
    Boot                      connecting, seeding, crashes and restarts
      Serving                   a server that boots, serves and crashes, with its limiter
        BootProof                 theorems about both (uses SumLemmas)
    SumLemmas                 sums over finite sets

**Inventory.** `inv[k]` is the committed version of a row, `wrote[c][k]` the version
that session `c`'s open transaction has written. That pair is READ COMMITTED as the
program can observe it: a read sees its own write or else the newest commit (`View`);
an UPDATE is enabled once no other transaction has written a row it selects
(`InvFree`), and then works on the newest committed version; `CommitRows` and
`RollbackRows` end a transaction. A store can have several rows, since nothing makes
`(store_id, sku_id)` unique; `First` takes the lowest id, an UPDATE takes them all.

**Transfers.** A session is one HTTP request. `pc[c]` is the statement it executes
next, `target` and `amount` what the request carries, `seen` the row as the handler
last read it, `draft` the version of the order its transaction has written, `work` the
records and receipts it has inserted. Each action is one statement of the handler:

| Handler | Actions |
|---|---|
| Create | `Create` (validation, CheckSufficient), `CreateInsert` |
| Confirm | `Confirm` (read, flow check), `ConfirmTransition`, `Commit` |
| Ship | `Ship`, `ShipCheck`, `ShipRead`, `ShipDeduct`, `ShipTransition`, `Commit` |
| Receive | `Receive`, `ReceiveReread`, `ReceiveAdd`, `ReceiveEnsure`, `ReceiveInsert`, `ReceiveRead`, `ReceiveAdjust`, `ReceiveReceipt`, `CommitThenReload`, `Reload` |
| Cancel | `Cancel`, `CancelReread`, `CancelTransition`, `CancelRead`, `CancelAdjust`, `CommitThenReload`, `Reload` |
| any statement fails | `Fail` (rollback, error response; also the end of the process) |

`ledger[o]` sums the rows written about an order: transfer_in records at the to-store
(`in`) and at the from-store (`back`), receipts, and `out`, the charge of the from-store,
for which the program writes no record and the model keeps a history.

**StockOps** has the same shape for the other writers of inventory rows; `journal[s]` is
the sum of a store's documents. **StockLink** lets a session serve a request of either
service, so that transfers, records and stocktakes compete for the same row locks.

**MasterData** holds three tables of rows with a unique column (`code`) and a foreign key
(`ref`: a store's manager, a user's store). `Referred` is the table it points into;
`stock` holds the inventory rows as pairs of foreign keys, which are what keeps a SKU or
a store from being deleted. Every statement commits by itself. A request of one
statement needs no session; an update is several:

| Handler | Actions |
|---|---|
| SKU Create, BatchImport; Register | `CreateSKU`, `BatchImport`, `Register` |
| Store Create | `CreateStore` (FindByCode), `StoreInsert` |
| Update of a SKU, a store, a profile | `Update` (FindByID), `Preload` (the row referred to), `Save`, `Reinsert` |
| Delete of a SKU or a store | `Delete` |
| inventory rows | `Ensure` |
| a statement is refused or fails | `Fail` |

`Save` and `Reinsert` are what gorm's `Save` does (external, from its documented
behaviour): before the UPDATE it inserts the preloaded row with ON CONFLICT DO NOTHING and
points the foreign key back at it (`Restored`, `Merged`); where the UPDATE finds no row it
inserts one. `Fits` is the unique index and the foreign key, which AutoMigrate creates.

**RateLimiter** keeps the age of the bucket instead of a clock, and remembers in `served`
how many requests were allowed how long ago, which is what a client can observe. The
limit is the one `RateLimitStrict` derives by integer division.

**TransferBook** says what the transfer service promises with no session, statement or
transaction in sight: each request that takes effect changes one entry in one step.

**ReceivePage** composes the client with TransferBook, which is what the refinement
licenses: `ServePost` is the whole transaction of `Receive`, `ReplyPost` the read for its
answer, which comes later and can fail by itself. `phase`, `awaited` and `post` are what
`receiving.value` and the suspended `onReceive` hold; `calls` are GET requests in flight,
answered and delivered in any order; `adrift` are submissions the client has given up
(`timeout` in request.ts), which the server receives or the network loses. Submissions are
numbered, so that two alike that are given up stay two; the number, `goods` (the first
submission for the same goods), `taken` (how often the server received a submission) and
`acked` (the submissions the page reported as received) are history.

| Transfers.vue | Actions |
|---|---|
| load, loadReceipts | `Load`, `OpenReceive` (send), `ServeCall`, `ArriveCall`, `FailCall` |
| openReceive, the form, closing | `OpenReceive`, `EditQuantity`, `Close` |
| onReceive | `OnReceive` (to its await), `ArrivePost` (after it), `RefusePost`, `GiveUp` |

**Replenish** models one row of inventory, its sales of 30 days, and a report that is
read in the steps of `ReplenishSuggestions` (the alerts, then each alert's sales) and
followed later. The Go and the TypeScript functions are separate definitions, named as in
the code; `LowStockAgreed` compares them with each other, with the query of the alerts
and with the conditions of the statistics.

**Boot** follows each server through connecting (with a number of tries), counting the users
and the five INSERTs of `seedData`; `at[s]` is the phase, or the table it fills next. An
INSERT into a table with unique codes fails if the rows are there.

**Serving** puts the limiter into the process that boots: `Request` reaches the limiter only
while the server `Front` serves, and whatever ends the process (`Memory`) empties the
bucket, while the client still knows what it was served. `lost` remembers how long ago
Front took a bucket along; crashes of another server, or without a bucket, do not count.

Definitions named `Bug...` are variants of the definition that follows them with a
plausible mistake in it (a dropped condition, a whole-row save, an UPDATE outside the transaction).
No specification uses them. A property is worth having only if such a variant breaks
it; `PROJECT.json` ("mutants") says which variant breaks which property in which run.

### What is abstracted, and why it may be

- One SKU: no statement touches rows of two SKUs, and `(store, SKU)` is the unit of
  everything, so other SKUs only add independent copies.
- A multi-row UPDATE is one step, taken when the last of its locks is free. It matters
  only where a store has duplicate rows.
- `MoveStock` is the conditional UPDATE of the stock and the INSERT of its record, two
  statements of one transaction, as one step: the INSERT waits for nobody and nobody sees
  it before COMMIT, and a failure between the two rolls back what one before them does.
- A request and its handler's first read are one step: nothing is shared before it.
- The id of an order is fixed when the request arrives, one id per request.
- The id of a rolled-back insert is used again; the program never compares ids.
- COMMIT either takes effect or fails. A commit whose acknowledgement is lost shows
  as a commit and an error to the client; ReceivePage models that answer (`ReplyPost`).
- Records and receipts are kept as sums by order or by store, since the properties
  speak of totals; time stamps, operators, remarks and wording are left out.
- The lists and statistics only read. Replenish takes SetSafetyStock as one step, since
  the overwriting it can do is the subject of StockOps.
- One user's page, all other users being arbitrary steps of the book; the wording of
  messages is left out, except whether they report success.
- The migration changes nothing in a migrated database; what it does to an empty one
  precedes the seed.

## 3. The runs

| Run | Instance | What it shows |
|---|---|---|
| `one_order` | 2 fair sessions, 1 order in either direction, quantities 1..3 | The consistency of order, receipts, records and stock, the status machine, the finality of finished orders and the end of every request, with every race of two requests, partial receipts, and failure at every statement |
| `contended` | 3 sessions, 2 orders of 1 or 2 units, 3 in stock, no row at the to-store, 2 slots | The inductive invariant of the proofs, no circle of waiting sessions (of two or of three), and the refinement of TransferBook, also where duplicate rows appear |
| `shared_stock` | 2 sessions with requests of both services, 1 order, 2 stores, one of them with no row, thresholds | Each step moves the stock by what it adds to the documents, a save of SetSafetyStock excepted; movements never bring back an old threshold; quantities stay at or above zero; the services do not deadlock |
| `master_data` | 2 sessions, 2 codes, 2 SKUs, 2 stores, 1 user, imports of 2, 1 inventory row | Codes stay unique and references hold; deletions are undone by requests in flight only; a code changes unasked only under an edit of an old row |
| `receive_page` | 1 order of 2 units, 2 submissions, 2 GET requests in flight | What the page reports and shows as received was received; the button comes back |
| `replenish_report` | up to 8 units, thresholds up to 5, up to 2 sold | Agreement about low stock; suggestions close the gap, and followed late they miss it by no more than the row drifted |
| `serving` | 2 servers, 2 tries, 3 crashes, empty or scripted database; limit 5 (strict 2), window of 3 ticks | The seed appears once and in order; at most two limits in any window and one more per bucket lost within it; with the script's rows every server serves in the end, and a client that keeps asking is served again and again |
| `cancel_race`, `duplicate_row`, `safety_edit`, `receive_repeated`, `limiter_slides` | the same sizes | The disagreements of section 5 |

**Why the bounds are enough.** The races in this code are between a read and a
conditional write of one row, so two sessions exhibit each of them; three are needed for a
circle of waits through three rows, and for two movements on each side of a third.
Quantities 1..3 make an order that takes up to three receipts, one that is exactly
filled and one that would be exceeded. Two slots are what the second insert of `EnsureTx`
needs (`contended`, `duplicate_row`). `JournalBound` and `HeldBound` only stop the stock
requests from counting for ever; they are in the guard of a request's arrival. The
instance of `shared_stock` is small because both services are in it: quantities of one
unit, a stocktake that counts zero, and one slot, so that no second row appears and the
threshold edit is the only exception its action property meets. What it leaves out is
in the other runs (larger quantities, second rows) and in the proofs. In `master_data`, `Room` bounds the ids each table hands out
(two stores, so that one can take the code the other gave up; one user, who can be the manager of
a store and belong to it), `BatchSize` and `Stocked` the imports and the inventory rows
(the second SKU in the first store, so that each is deletable in one run and not in another); an
edit and a second edit, a deletion or a creation are the races there are. In the limiter `count` stops one above the limit, since
the code only compares it with the limit. On the page, two submissions (`ClickBound`)
are a submission and its repetition, an order of two units takes both, and two GET
requests (`CallIds`) are what `onReceive` sends after a receipt. Thresholds up to 5
contain odd and even ones and the edge cases 0 and 1; 8 units are above every
target. Three crashes (`CrashBound`) interrupt the seed, the second try and the other
server; the first of them is enough to empty a bucket in the middle of a window.

`CHECK_DEADLOCK FALSE` stands in the runs whose orders are all finished in the end (no
request is then accepted) and where a lack of free slots stops `EnsureTx`; waits between
sessions are checked by `NoDeadlock` and `NoDeadlockAcross`, which are stronger than TLC's
check: they find a circle while other sessions still run.

**Fairness.** `FairSpec` (`one_order`) has strong fairness of each session's next
statement: a goroutine is scheduled, and PostgreSQL queues the transactions that wait for a row
and wakes them in turn, so one whose row is free again and again gets it. Nothing is assumed
of clients or of failures. `PageFairSpec` has weak fairness of the browser's timers (the
timeout of a submission and of a GET request) and of nothing else: the server may never answer.
`ServingFairSpec` has weak fairness of each server's next step, its restart included, which is
the compose file's `restart: unless-stopped`, of the clock, and of the client that keeps
asking; crashes are finitely many.

## 4. The proofs

Every safety property of the passing runs is a theorem, `StockMatchesLedger` with the
condition named below: for every number of sessions, orders, stores, rows, servers,
crashes, requests and submissions, and every quantity. The runs check the same properties
on the instances of section 3, and `contended` checks `IInv`.

### The transfer service (`TransfersProof`)

`IInv` is an invariant of `Transfers`; the properties of `one_order` about orders, receipts,
records and statuses follow from it, and so does `Spec => Book!Spec`.

*Why a strengthening is needed.* The properties speak of committed rows, but a step
that commits publishes what a session prepared several statements earlier. `IInv`
therefore says, for each statement of each handler, what the session knows:

- what it read is not ahead of the committed row; quantity and stores never change (`SeenIsPast`);
- once it has written its order (`draft` is not Nil), the committed row still satisfies
  the condition under which it wrote, and the draft is that row's successor
  (`ConfirmKnows`, `ShipKnows`, `ReceiveKnows`, `CancelKnows`);
- two sessions never both have a draft of one order (`Apart`): the row lock;
- the committed row and its sums agree (`RowInv`).

The argument: a step that only reads, or only writes what is uncommitted, changes the
knowledge of one session (`LocalStep`). A commit changes one order; its own session's
knowledge makes the new row satisfy `RowInv`; any other session on that order has no draft,
and what it read is still in the past, because rows only move forward. `Apart` is kept
because a draft is only made when no other session has one.

*The refinement* reuses `IInv`: only `CreateInsert`, `Commit` and `CommitThenReload`
change the committed tables, each is then exactly one action of the book, and everything
else stutters.

### Stock, across both services (`StockLinkProof`)

*Sums.* `Held`, `Charged`, `Delivered` and `Returned` add up over sets of rows or orders. A
sum of the community modules is a fold, a recursive function over the subsets of a set.
`SumLemmas` proves that this function exists and what it computes, by taking a smallest
subset for which it would not (strict inclusion of finite sets is well-founded): a sum has a
type, is zero over zeros, changes by n when one summand does, adds pointwise. The theorems
about sums therefore assume that `Orders` and `Slots` are finite, as database tables are.

*What a store holds.* `InventoryProof` says what each statement on the rows does to `Held(s)`
and to `Carried(c, s)`, what the uncommitted rows of session c add to store s. COMMIT turns
the one into the other, since the locks keep the row as it was when the session wrote it.

*What a session is about to add.* `TransferRows` and `OpRows` say at each statement that the
carried quantity is the one that the session's uncommitted records show. This is the
lockstep of rows and documents inside a transaction; with it each COMMIT moves the stock
and the ledger (or the journal) by the same number. For both services at once that is
`StockMovesWithDocuments` (`StockMovesCorrect`), which needs no hypothesis: it names the
steps that are different.

*What another session may do.* A step of c leaves the rows of d as they are and changes a
committed row only if d has not written it (`RowStep`); that is all the knowledge of d
depends on. One lemma per statement therefore serves three theorems: about the transfer
service alone, the stock services alone, and both over one table.

*The hypotheses.* What the stock *is*, as opposed to how it moves, is not what the documents
say in every behaviour of the code, and the theorems name the two reasons rather than
exclude them from the model:

- `SingleRow`, in the formula under the box: `[](SingleRow => StockMatchesLedger)`. EnsureTx
  can insert a second row of a store (run `duplicate_row`). Rows are never deleted, so a
  state without a second row has a past without one (`SingleRemains`), and the theorems need
  no hypothesis on the behaviour for it; they say nothing of states with a second row.
- `SavesAreFresh`, of `JournalCorrect` and `SharedStockCorrect`: no movement commits between
  the read and the save of SetSafetyStock. One can (run `safety_edit`), and the row never
  recovers, so this is a hypothesis on the behaviour. `StockCorrect` does not need it.

Any difference between stock and documents thus goes back to one of these two.

*Thresholds and types.* `SameThreshold` says that a version of a row that a transaction has
written carries the committed threshold (`ThresholdsKept`, for all sessions): a movement
changes the quantity of the newest version, and the save of SetSafetyStock is committed at
once and waits for the row's lock. No quantity goes below zero, not even with duplicate
rows, and `MovesKeepThreshold` holds, with both services on the table and without hypotheses.

*No deadlock.* Each statement that can wait has a rank. The claim of Ship has rank 1, the
UPDATEs of stock, those of the stock services included, rank 2, the claims of the other
handlers rank 3, and the rest, which waits for nobody, 0. Whoever a session waits for has a
lower rank, so in every set of sessions one of the lowest rank is free: any set of natural
numbers has a least one, so the set of sessions may be infinite. Two facts make the ranks
work. A row that can be waited for is committed, so its holder has done its UPDATE and is
not a `Receive` that inserted it and has yet to move stock (`LocksKnown`). And the order
that Ship claims after it locked stock is `confirmed`, so whoever holds it is a Ship or a
Cancel of an unshipped order, at its COMMIT: a Cancel that moves stock has an order that was
shipped (`IInv`). This is the argument that the opposite lock orders of Ship and Receive are
harmless; a stock request holds one row and waits for nothing after it, so it adds nothing.

### The receive dialog (`ReceivePageProof`)

The invariant is `PageTypeOK /\ Submitted /\ Snapshots`.

`Submitted` gives `AcksAreReceipts`: a submission is in one place, on its way with the page
waiting for it, on its way given up, or handled. While it is on its way its `taken` is 0, and
nothing else on its way has its number; while the page waits for the answer it is 1. A
submission that is refused by the read for its answer was received, and is not reported.

`Snapshots` gives `ShownIsReceived`: the received quantity of an order only grows
(`BookGrows`), an answer is a reading of the book, and what was read stays at or below it. So
it holds of answers in flight (`Answered`), and of whatever the page copies from them in
whatever order: the list, the receipts, the row a dialog opens with, the answer that
replaces the dialog's order.

### SKUs, stores and users (`MasterDataProof`)

Types, `CodesDistinct` and `ReferencesHold` are
inductive together with what a request in flight knows (`EditInv`): users are never deleted,
so neither a preloaded manager nor the manager of a preloaded store is missing when the row is
inserted again; and ids not handed out name no row (`FreshInv`). `DeletionSettles` needs that
a request only holds ids already handed out, and `UnaskedChangeIsStale` that an edit writes
what it read or was asked.

### Boot and limiter (`BootProof`)

The tables are filled in the order of `seedData`, at most one
server is past the stores, whose codes are unique, and what it finds is what it has inserted
(`BootInv`). `SeededOnce` and `SeedRefersToRows` follow for any number of servers and
crashes. Requests and the clock are stutters for it (`ServingStep`).

`AtMostTwoLimits` needs to know what the bucket has to do with the past (`MemoryInv`): since its
first tick it let through what it counts (`Allowed`, at most the limit); the whole window
saw that and at most one limit for the bucket before and one for each bucket lost in the
window. A tick shifts both histories by one (`SumShifted`), a new bucket starts when the
last one is a window old, so that at most one other bucket is left in the window; a crash
takes the count away and leaves the history, which is the extra limit.

### Replenishment (`ReplenishProof`)

For every quantity and threshold, the
server's and the browser's suggestion agree and are positive exactly for alerted rows, and,
for every bound on the row, types, `SuggestionClosesGap`, `LowStockAgreed` and
`FollowingMissesByDrift`: whatever happened to the row since the report read it, following
the suggestion leaves it short of its threshold by at most what it lost and the threshold
was raised by, and above the target by at most what it gained. The invariant adds that what a report has read so far was low when it
was read. All of it rests on two lemmas about `(s * 3) \div 2`.

### Assumptions, and what is only model-checked

The assumptions are those on the constants, next to their declarations: `Nil` is not a
row, ids and slots are natural numbers, there is a slot, orders, slots and the page's request ids are
finitely many, quantities of requests are positive (the binding of the request types), the
page's `Started` book holds no order received beyond its quantity (which `FullIffReceived`
proves of the service), bounds are natural numbers. TLC evaluates them in the runs.

*Only model-checked*: liveness (`RequestsEnd`, `ButtonComesBack`, `ServesInTheEnd`,
`ServedAgain`), since TLAPS proves nothing from fairness. `OnlyUnreceivedReturned`,
`StockMatchesLedger` and `StockMatchesJournal` without their conditions,
`RepetitionTakesEffectOnce` and `OneLimitInAnyWindow` are false (section 5).

## 5. Where code and documentation disagree

1. **Cancel returns what was received** (`cancel_race`). Cancel takes the quantity to
   return from a row it read before it claims the status, and the claim compares
   only the status. A partial receipt in between leaves the status `shipped`; the units
   are then at both stores. `NothingLost`, and `CancelShipped` of TransferBook, state
   what does hold: at least the part not received goes back.
2. **A second inventory row** (`duplicate_row`). Two first receipts at a store insert
   two rows, and each later movement is applied to both.
3. **A threshold edit takes back a movement** (`safety_edit`): SetSafetyStock saves the
   quantity it read earlier.
4. **A repeated receipt is received twice** (`receive_repeated`). The test at
   `service/transfer_order_service_test.go:332` says that a request that arrives
   repeatedly takes effect once, and tries it with a request that fills the order. With
   room left, a submission that the client gives up after 15 s, that is received all the
   same, and that the user repeats, is received twice. The same happens where the receipt
   is committed and the read for the answer fails (`transfer_order_service.go:173`).
5. **The rate limiter's window does not slide** (`limiter_slides`). `rate_limiter.go:19`
   calls it a sliding window (滑动窗口). The buckets are fixed windows, and a burst on each
   side of a seam puts two limits into one window, with no crash involved.
   `AtMostTwoLimits` states what does hold.

Read in the code while modelling it, and checked by no run:

- `Transfers.vue:223` stores an answer of `listTransferReceipts` whichever order the dialog
  shows by then, so the receipts listed can be those of the order opened before.
- `Transfers.vue:257` reads the form again after the await; its message names the edited
  quantity rather than the one received.
- A crash of the first start after the users and before the last INSERT leaves a partial
  seed that no later start completes; one between stores and users makes every later
  start fail (`seed.go:30`). The deployment of the compose file runs init.sql first.
- `replenish_calculator.go:29` calls slow moving what has ample stock and few sales, but
  only rows below their threshold are ever asked (`stock_record_service.go:157`).
- Saving a store or a profile cannot change a manager or a store that is already
  set: FindByID preloads the row referred to, and gorm's `Save` points the foreign key back at
  it (`store_repository.go:45`, `user_repository.go:58`). The request is answered with success
  (`Profile.vue:63`); only an empty reference can be filled.
- A SKU or a store deleted between the read and the save of an edit comes back, after the
  deletion was answered with success (`sku_service.go:105`); `DeletionSettles` states when it
  is gone for good. In the same way an edit of a user can bring its store back.
- Two edits of different fields overwrite each other, since each saves every column.
- An edit of a store to a code that is taken is answered as an internal error: `Update` of
  `store_repository.go:88` does not map the index violation as `Create` and the SKUs do.
- A restart empties the limiter, and each instance of the server has its own.

## 6. Not modelled, and the plan

Done: the transfer order service, the inventory rows, the stock services and their
composition, SKUs, stores and users, boot with the rate limiter, the receive dialog,
replenishment; theorems for every safety property of the passing runs, the refinement of
TransferBook.

Next, in this order:

1. The session state of the frontend (`authStore.ts`, `guards.ts`, `request.ts`): a late
   answer of getMe after another login, a late 401 that removes a new token, two tabs that
   share localStorage.
2. The rest of the transfers page: creating, confirming, shipping and cancelling.

Login, tokens and roles (`middleware/auth.go`, `rbac.go`, `util/jwt.go`) keep no state on
the server: a token is checked by computing, and a change of role or store shows with the
next login. They are left out of MasterData for that reason.

Left out for good: error texts, logging, formatting, configuration, the pages that are
forms over the API without state of their own, and the growth of the limiter's map,
about which the code promises nothing.
