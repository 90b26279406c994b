------------------------- MODULE StockOpsProperties -------------------------
(***************************************************************************)
(* What the stock operations promise about the committed quantities.       *)
(***************************************************************************)
EXTENDS StockOps

\* The quantity of a store is what its stock records, stocktakes and opening
\* quantities add up to: concurrent movements are neither lost nor applied
\* twice, and a stocktake applies the difference it recorded even when the
\* quantity moved after it was read.
StockMatchesJournal == \A s \in Stores : Held(s) = Initially(s) + journal[s]

\* Only SetSafetyStock changes a threshold: a movement that read or locked the
\* row before the threshold was set does not bring the old threshold back.
MovesKeepThreshold ==
    [][\A k \in InvKeys :
            inv[k] # Nil /\ inv'[k].safety # inv[k].safety
                => \E c \in Sessions : op[c] = "safety.save" /\ copy[c].key = k
                                       /\ op'[c] = "idle"]_<<inv, wrote, opsVars>>

\* SetSafetyStock saves the quantity that the row has at that moment: no movement
\* committed between its read and its save. The code does not ensure this; what
\* relies on it says so.
SavesAreFresh ==
    [][\A c \in Sessions :
            SafetySave(c) => inv'[copy[c].key].qty = inv[copy[c].key].qty]_<<inv, wrote, opsVars>>
=============================================================================
