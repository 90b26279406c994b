------------------------------- MODULE Replenish -------------------------------
(***************************************************************************)
(* Low stock: the alerts, the statistics, the badges of the client and the *)
(* replenishment report (replenish_calculator.go, stock_record_service.go, *)
(* store_inventory_repository.go, replenishCalculator.ts), for one row of  *)
(* store_inventories. The report reads the row and then the row's sales of *)
(* the last 30 days, and is acted on later; the row moves meanwhile.       *)
(***************************************************************************)
EXTENDS Integers

CONSTANTS
    MaxQuantity, MaxSafety,   \* bounds on the row
    MaxSales                  \* bound on the sales of 30 days

ASSUME BoundsAssumption ==
    MaxQuantity \in Nat /\ MaxSafety \in Nat /\ MaxSales \in Nat

VARIABLES
    row,      \* the row of store_inventories
    sales,    \* what was sold of it in the last 30 days
    reading,  \* a report half read: the alerts it found so far
    report    \* the report a manager holds

replenishVars == <<row, sales, reading, report>>

Rows == [quantity : 0..MaxQuantity, safety_stock : 0..MaxSafety]

Suggestions ==
    [quantity : 0..MaxQuantity, safety_stock : 0..MaxSafety,
     suggest_qty : Nat, slow_moving : BOOLEAN]

-----------------------------------------------------------------------------
\* Integer division before the factor: the target of an odd threshold is low.
BugCalculateSuggestQty(quantity, safetyStock) ==
    IF quantity >= safetyStock THEN 0 ELSE (safetyStock \div 2) * 3 - quantity

\* The server's suggestion; its second clause is idle for thresholds above 0.
CalculateSuggestQty(quantity, safetyStock) ==
    IF quantity >= safetyStock THEN 0
    ELSE LET target == (safetyStock * 3) \div 2
         IN  (IF target < safetyStock THEN safetyStock ELSE target) - quantity

\* The browser's, with Math.floor and Math.max.
calculateSuggestQty(quantity, safetyStock) ==
    LET larger(a, b) == IF a > b THEN a ELSE b
    IN  IF quantity >= safetyStock THEN 0
        ELSE larger(larger((safetyStock * 3) \div 2, safetyStock) - quantity, 0)

IsSlowMoving(quantity, monthlySales) == quantity > 0 /\ monthlySales * 10 < quantity

\* The server's status text, and the colour of the badge in the browser.
InventoryStatusText(quantity, safetyStock) ==
    CASE quantity <= 0 -> "out"
      [] quantity > 0 /\ quantity < safetyStock -> "low"
      [] OTHER -> "normal"

inventoryStatusType(quantity, safetyStock) ==
    CASE quantity <= 0 -> "danger"
      [] quantity > 0 /\ quantity < safetyStock -> "warning"
      [] OTHER -> "success"

-----------------------------------------------------------------------------
\* The threshold itself is alerted.
BugListAlerts(r) == r.quantity <= r.safety_stock

\* The alerts: the WHERE of ListAlerts.
ListAlerts(r) == r.quantity < r.safety_stock

\* How Stats counts a row.
LowStock(r) == r.quantity < r.safety_stock /\ r.quantity > 0
OutOfStock(r) == r.quantity <= 0

ReplenishInit ==
    /\ row \in [quantity : 0..MaxQuantity, safety_stock : {0}]
    /\ sales = 0
    /\ reading = {}
    /\ report = {}

\* A sale is not checked against the stock.
BugSell(n) ==
    /\ sales + n <= MaxSales
    /\ row' = [row EXCEPT !.quantity = @ - n]
    /\ sales' = sales + n
    /\ UNCHANGED <<reading, report>>

\* Movements of the row, of which the report knows nothing.
Sell(n) ==
    /\ n <= row.quantity
    /\ sales + n <= MaxSales
    /\ row' = [row EXCEPT !.quantity = @ - n]
    /\ sales' = sales + n
    /\ UNCHANGED <<reading, report>>

Purchase(n) ==
    /\ row.quantity + n <= MaxQuantity
    /\ row' = [row EXCEPT !.quantity = @ + n]
    /\ UNCHANGED <<sales, reading, report>>

\* Sales leave the window of 30 days.
Age(n) ==
    /\ n <= sales
    /\ sales' = sales - n
    /\ UNCHANGED <<row, reading, report>>

SetSafetyStock(s) ==
    /\ row' = [row EXCEPT !.safety_stock = s]
    /\ UNCHANGED <<sales, reading, report>>

\* ReplenishSuggestions reads the alerts and then, one by one, their sales. An
\* alert whose SKU is gone, or cannot be read, is left out.
ReadAlerts ==
    /\ reading = {}
    /\ reading' = {r \in {row} : ListAlerts(r)}
    /\ report' = {}
    /\ UNCHANGED <<row, sales>>

\* A sum that cannot be read counts as 0: its error is dropped.
Suggest(r) ==
    /\ \E monthlySales \in {sales, 0} :
          report' = {[quantity |-> r.quantity, safety_stock |-> r.safety_stock,
                      suggest_qty |-> CalculateSuggestQty(r.quantity, r.safety_stock),
                      slow_moving |-> IsSlowMoving(r.quantity, monthlySales)]}
    /\ reading' = {}
    /\ UNCHANGED <<row, sales>>

LeaveOut(r) ==
    /\ reading' = reading \ {r}
    /\ UNCHANGED <<row, sales, report>>

\* The manager has the suggested quantity delivered and records the purchase.
Follow(s) ==
    /\ row' = [row EXCEPT !.quantity = @ + s.suggest_qty]
    /\ report' = {}
    /\ row.quantity + s.suggest_qty <= MaxQuantity
    /\ UNCHANGED <<sales, reading>>

ReplenishNext ==
    \/ \E n \in 1..MaxQuantity : Sell(n) \/ Purchase(n)
    \/ \E n \in 1..MaxSales : Age(n)
    \/ \E s \in 0..MaxSafety : SetSafetyStock(s)
    \/ ReadAlerts
    \/ \E r \in reading : Suggest(r) \/ LeaveOut(r)
    \/ \E s \in report : Follow(s)

ReplenishSpec == ReplenishInit /\ [][ReplenishNext]_replenishVars

-----------------------------------------------------------------------------
ReplenishTypeOK ==
    /\ row \in Rows
    /\ sales \in 0..MaxSales
    /\ reading \in SUBSET Rows
    /\ report \in SUBSET Suggestions

\* replenish_calculator.go: 建议补至安全库存的 1.5 倍，至少补齐缺口 (up to 1.5 times the
\* threshold, at least the gap). A suggestion closes the gap of the row it was
\* made for, goes at most half a threshold above it, and orders something.
SuggestionClosesGap ==
    \A s \in report :
        /\ s.suggest_qty > 0
        /\ s.quantity + s.suggest_qty >= s.safety_stock
        /\ 2 * (s.quantity + s.suggest_qty) <= 3 * s.safety_stock
        /\ 2 * (s.quantity + s.suggest_qty) >= 3 * s.safety_stock - 1

\* Five places decide on their own whether a row is low: the query of the
\* alerts, the statistics, the report, the browser's suggestion and its badge.
\* They agree on every row; a row without stock is out rather than low.
LowStockAgreed ==
    /\ ListAlerts(row) <=> CalculateSuggestQty(row.quantity, row.safety_stock) > 0
    /\ CalculateSuggestQty(row.quantity, row.safety_stock)
          = calculateSuggestQty(row.quantity, row.safety_stock)
    /\ LowStock(row) <=> inventoryStatusType(row.quantity, row.safety_stock) = "warning"
    /\ OutOfStock(row) <=> inventoryStatusType(row.quantity, row.safety_stock) = "danger"
    /\ ListAlerts(row) => LowStock(row) \/ OutOfStock(row)
    /\ LowStock(row) <=> InventoryStatusText(row.quantity, row.safety_stock) = "low"

\* What a report does not know of the row it was made for.
Excess(a, b) == IF a > b THEN a - b ELSE 0
LostSince(s)   == Excess(s.quantity, row.quantity)
GainedSince(s) == Excess(row.quantity, s.quantity)
RaisedSince(s) == Excess(row.safety_stock, s.safety_stock)

\* A suggestion followed late misses its aim by no more than the row drifted since
\* ReplenishSuggestions read it: the row stays short of its threshold by at most
\* what it lost and what the threshold was raised by, so a row that lost nothing
\* and whose threshold was not raised leaves the alerts; and it ends at most half
\* the old threshold above it, and what it gained.
FollowingMissesByDrift ==
    [][\A s \in report :
          Follow(s) =>
              /\ row'.quantity + LostSince(s) + RaisedSince(s) >= row'.safety_stock
              /\ 2 * row'.quantity <= 3 * s.safety_stock + 2 * GainedSince(s)]_replenishVars
==============================================================================
