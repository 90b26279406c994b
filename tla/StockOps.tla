------------------------------ MODULE StockOps ------------------------------
(***************************************************************************)
(* The writes to store_inventories that no transfer order makes:           *)
(* stock records and stocktakes (stock_record_service.go), and the         *)
(* endpoints Ensure and SetSafetyStock (store_inventory_service.go). As in *)
(* Transfers, one action per SQL statement, and a request arrives together *)
(* with its handler's first read.                                          *)
(***************************************************************************)
EXTENDS Inventory

CONSTANTS
    Moved,         \* the quantities a stock record may carry
    Counted,       \* the quantities a stocktake may count
    Opening,       \* the quantities a row may be opened with
    Thresholds,    \* the safety stocks that may be set
    JournalBound,  \* how far the movements may take a store from its start
    HeldBound      \* the quantity above which no movement takes a store

ASSUME OpsAssumption ==
    /\ Moved \subseteq Nat \ {0}
    /\ Counted \subseteq Nat
    /\ Opening \subseteq Nat
    /\ Thresholds \subseteq Nat
    /\ JournalBound \in Nat /\ HeldBound \in Nat

VARIABLES
    op,        \* op[c]: the statement session c executes next
    place,     \* place[c]: the store its request names, or Nil
    delta,     \* delta[c]: the change of quantity its transaction makes
    copy,      \* copy[c]: the row SetSafetyStock read, changed and its key, or Nil
    journal    \* journal[s]: the sum of the committed stock records, stocktake
               \* differences and opening quantities of store s

opsVars == <<op, place, delta, copy, journal>>

OpLabels == {"idle", "record.adjust", "record.insert", "stocktake.insert",
             "stocktake.adjust", "commit", "ensure.insert", "safety.save"}

OpsTypeOK ==
    /\ InvTypeOK
    /\ op \in [Sessions -> OpLabels]
    /\ place \in [Sessions -> Stores \cup {Nil}]
    /\ delta \in [Sessions -> Int]
    /\ copy \in [Sessions -> [key : InvKeys, row : InvRow] \cup {Nil}]
    /\ journal \in [Stores -> Int]

OpsInit ==
    /\ op = [c \in Sessions |-> "idle"]
    /\ place = [c \in Sessions |-> Nil]
    /\ delta = [c \in Sessions |-> 0]
    /\ copy = [c \in Sessions |-> Nil]
    /\ journal = [s \in Stores |-> 0]

-----------------------------------------------------------------------------
At(c, label) == op' = [op EXCEPT ![c] = label]

\* A request about store s gets past its first read.
Begin(c, s, d, label) ==
    /\ op[c] = "idle"
    /\ journal[s] + d \in -JournalBound..JournalBound
    /\ Held(s) + d <= HeldBound
    /\ At(c, label)
    /\ place' = [place EXCEPT ![c] = s]
    /\ delta' = [delta EXCEPT ![c] = d]
    /\ UNCHANGED <<inv, wrote, copy, journal>>

End(c) ==
    /\ At(c, "idle")
    /\ place' = [place EXCEPT ![c] = Nil]
    /\ delta' = [delta EXCEPT ![c] = 0]
    /\ copy' = [copy EXCEPT ![c] = Nil]

\* An error: the transaction, if there is one, is rolled back.
Abort(c) ==
    /\ End(c)
    /\ RollbackRows(c)
    /\ journal' = journal

OpFail(c) == op[c] # "idle" /\ Abort(c)

\* The INSERT of a stock record or a stocktake. It shows with the commit.
InsertDocument(c, label) ==
    /\ At(c, label)
    /\ UNCHANGED <<inv, wrote, place, delta, copy, journal>>

\* AdjustQuantityTx of the repository; no row affected is ErrNotFound.
Adjust(c, label) ==
    \/ /\ Adjusted(c, place[c], delta[c]) # {}
       /\ AdjustRows(c, place[c], delta[c])
       /\ At(c, label)
       /\ UNCHANGED <<place, delta, copy, journal>>
    \/ Adjusted(c, place[c], delta[c]) = {} /\ Abort(c)

-----------------------------------------------------------------------------
\* Create: the service's AdjustQuantityTx reads and checks, the repository's
\* updates, then the record is inserted.
Record(c, s, type, q) ==
    /\ AdjustAllowed(c, s, StockDirection(type) * q)
    /\ Begin(c, s, StockDirection(type) * q, "record.adjust")

RecordAdjust(c) == op[c] = "record.adjust" /\ Adjust(c, "record.insert")

RecordInsert(c) == op[c] = "record.insert" /\ InsertDocument(c, "commit")

\* CreateStocktake: the difference is taken from the row as read.
Stocktake(c, s, actual) ==
    /\ RowsOf(c, s) # {}
    /\ Begin(c, s, actual - View(c, FindByStoreAndSKU(c, s)).qty, "stocktake.insert")

StocktakeInsert(c) ==
    /\ op[c] = "stocktake.insert"
    /\ InsertDocument(c, IF delta[c] # 0 THEN "stocktake.adjust" ELSE "commit")

StocktakeAdjust(c) == op[c] = "stocktake.adjust" /\ Adjust(c, "commit")

OpCommit(c) ==
    /\ op[c] = "commit"
    /\ CommitRows(c)
    /\ journal' = [journal EXCEPT ![place[c]] = @ + delta[c]]
    /\ End(c)

-----------------------------------------------------------------------------
\* Ensure outside a transaction: only a store without a row gets past the read.
Ensure(c, s, q) ==
    /\ RowsOf(c, s) = {}
    /\ Begin(c, s, q, "ensure.insert")

EnsureInsert(c) ==
    /\ op[c] = "ensure.insert"
    /\ FreeSlots(place[c]) # {}
    /\ inv' = [inv EXCEPT ![<<place[c], Min(FreeSlots(place[c]))>>] =
                              [qty |-> delta[c], safety |-> 0]]
    /\ journal' = [journal EXCEPT ![place[c]] = @ + delta[c]]
    /\ End(c)
    /\ UNCHANGED wrote

\* SetSafetyStock reads the row by its id, outside a transaction, and saves
\* every column of what it read.
SetSafetyStock(c, k, v) ==
    /\ op[c] = "idle"
    /\ inv[k] # Nil
    /\ At(c, "safety.save")
    /\ copy' = [copy EXCEPT ![c] = [key |-> k, row |-> [inv[k] EXCEPT !.safety = v]]]
    /\ UNCHANGED <<inv, wrote, place, delta, journal>>

SafetySave(c) ==
    /\ op[c] = "safety.save"
    /\ InvFree(c, {copy[c].key})
    /\ inv' = [inv EXCEPT ![copy[c].key] = copy[c].row]
    /\ End(c)
    /\ UNCHANGED <<wrote, journal>>

-----------------------------------------------------------------------------
OpRequest(c) ==
    \/ \E s \in Stores :
        \/ \E type \in StockRecordTypes, q \in Moved : Record(c, s, type, q)
        \/ \E actual \in Counted : Stocktake(c, s, actual)
        \/ \E q \in Opening : Ensure(c, s, q)
    \/ \E k \in InvKeys, v \in Thresholds : SetSafetyStock(c, k, v)

OpStep(c) ==
    \/ RecordAdjust(c) \/ RecordInsert(c)
    \/ StocktakeInsert(c) \/ StocktakeAdjust(c)
    \/ OpCommit(c)
    \/ EnsureInsert(c) \/ SafetySave(c)

OpsNext == \E c \in Sessions : OpRequest(c) \/ OpStep(c) \/ OpFail(c)

StockOpsInit == InvInit /\ OpsInit

OpsSpec == StockOpsInit /\ [][OpsNext]_<<inv, wrote, opsVars>>
=============================================================================
