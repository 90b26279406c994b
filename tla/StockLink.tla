------------------------------ MODULE StockLink ------------------------------
(***************************************************************************)
(* Transfers and StockOps over one store_inventories table: the requests   *)
(* of the transfer order service and those of the stock services share the *)
(* rows and their locks. A session serves one request at a time, of either *)
(* service.                                                                *)
(***************************************************************************)
EXTENDS TransferProperties, StockOpsProperties

allVars == <<inv, wrote, order, ledger, pc, target, amount, seen, draft, work, opsVars>>

StockLinkInit == Init /\ OpsInit

TransferStep(c) ==
    /\ op[c] = "idle"
    /\ Request(c) \/ Step(c) \/ Fail(c)
    /\ UNCHANGED opsVars

StockStep(c) ==
    /\ pc[c] = "idle"
    /\ OpRequest(c) \/ OpStep(c) \/ OpFail(c)
    /\ UNCHANGED <<order, ledger, pc, target, amount, seen, draft, work>>

StockLinkNext == \E c \in Sessions : TransferStep(c) \/ StockStep(c)

StockLinkSpec == StockLinkInit /\ [][StockLinkNext]_allVars

-----------------------------------------------------------------------------
\* What the documents of both services make of a store's first quantity: the
\* ledger of the transfer orders, and the journal of the records, stocktakes and
\* opening quantities.
Accounted(s) == Initially(s) - Charged(s) + Delivered(s) + Returned(s) + journal[s]

AllStockAccounted == \A s \in Stores : Held(s) = Accounted(s)

\* SetSafetyStock saves a row of store s in this step, or gives up saving it.
SavesThreshold(c, s) == op[c] = "safety.save" /\ copy[c].key[1] = s /\ op'[c] = "idle"

\* Every step of either service moves the quantity a store holds by exactly what
\* it adds to the documents: shipping, receiving and cancelling lose or repeat
\* nothing when sales and stocktakes hit the same rows. Two things alone break
\* this, a second row of a store, to which movements apply as well, and a save of
\* SetSafetyStock, which writes back the quantity it read.
StockMovesWithDocuments ==
    [][<<inv, order, ledger, journal>>' # <<inv, order, ledger, journal>> /\ SingleRow' =>
        \A s \in Stores :
            \/ Held(s)' - Held(s) = Accounted(s)' - Accounted(s)
            \/ \E c \in Sessions : SavesThreshold(c, s)]_allVars

\* The rows the next statement of a stock request must lock.
OpWantedRows(c) ==
    CASE op[c] \in {"record.adjust", "stocktake.adjust"} ->
            Adjusted(c, place[c], delta[c])
      [] op[c] = "safety.save" -> {copy[c].key}
      [] OTHER -> {}

Waits(c, d) ==
    \/ WaitsFor(c, d)
    \/ c # d /\ \E k \in OpWantedRows(c) : wrote[d][k] # Nil

\* The two services never wait for each other in a circle.
NoDeadlockAcross ==
    \A D \in SUBSET Sessions : D # {} => \E c \in D : \A d \in D : ~Waits(c, d)
=============================================================================
