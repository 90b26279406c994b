---------------------------- MODULE ReplenishProof ----------------------------
(***************************************************************************)
(* The replenishment report, for every quantity and threshold. Each claim  *)
(* about a suggestion rests on one lemma about the integer division.       *)
(***************************************************************************)
EXTENDS Replenish, TLAPS

\* The target of a low row is half a threshold above it, rounded down.
LEMMA TargetBounds ==
    ASSUME NEW s \in Nat
    PROVE  /\ (s * 3) \div 2 \in Nat
           /\ 2 * ((s * 3) \div 2) <= 3 * s
           /\ 2 * ((s * 3) \div 2) >= 3 * s - 1
  OBVIOUS

\* A target is never below its threshold, so the clause that raises it is idle.
LEMMA TargetCoversThreshold ==
    ASSUME NEW s \in Nat
    PROVE  (s * 3) \div 2 >= s
  BY TargetBounds

\* The server's suggestion, in one line.
LEMMA SuggestionOfLowRow ==
    ASSUME NEW q \in Nat, NEW s \in Nat, q < s
    PROVE  /\ CalculateSuggestQty(q, s) = (s * 3) \div 2 - q
           /\ CalculateSuggestQty(q, s) \in Nat
           /\ CalculateSuggestQty(q, s) > 0
  BY TargetBounds, TargetCoversThreshold DEF CalculateSuggestQty

\* Server and browser (replenish_calculator.go, replenishCalculator.ts) suggest
\* the same quantity for every row, and one above 0 exactly for a row that the
\* query of the alerts finds.
THEOREM SuggestionsAgree ==
    ASSUME NEW q \in Nat, NEW s \in Nat
    PROVE  /\ CalculateSuggestQty(q, s) = calculateSuggestQty(q, s)
           /\ q < s <=> CalculateSuggestQty(q, s) > 0
<1>1. CASE q < s
  BY <1>1, TargetBounds, TargetCoversThreshold, SuggestionOfLowRow
  DEF CalculateSuggestQty, calculateSuggestQty
<1>2. CASE q >= s
  BY <1>2 DEF CalculateSuggestQty, calculateSuggestQty
<1> QED BY <1>1, <1>2

-----------------------------------------------------------------------------
\* What is half read was low when it was read: nothing else is suggested.
ReadingIsLow == \A r \in reading : ListAlerts(r)

ReportInv == ReplenishTypeOK /\ ReadingIsLow /\ SuggestionClosesGap

\* The steps of other requests leave the report alone.
LEMMA OthersKeepReport ==
    ASSUME ReportInv, ReplenishTypeOK', UNCHANGED <<reading, report>>
    PROVE  ReportInv'
  BY DEF ReportInv, ReadingIsLow, SuggestionClosesGap

\* A suggestion made from a low row closes its gap.
LEMMA SuggestClosesGap ==
    ASSUME ReportInv, NEW r \in reading, Suggest(r)
    PROVE  ReportInv'
<1>1. r \in Rows /\ r.quantity \in Nat /\ r.safety_stock \in Nat /\ r.quantity < r.safety_stock
  BY BoundsAssumption DEF ReportInv, ReplenishTypeOK, ReadingIsLow, ListAlerts, Rows
<1>2. PICK monthlySales \in {sales, 0} :
         report' = {[quantity |-> r.quantity, safety_stock |-> r.safety_stock,
                     suggest_qty |-> CalculateSuggestQty(r.quantity, r.safety_stock),
                     slow_moving |-> IsSlowMoving(r.quantity, monthlySales)]}
  BY DEF Suggest
<1>3. IsSlowMoving(r.quantity, monthlySales) \in BOOLEAN
  BY DEF IsSlowMoving
<1> DEFINE suggest == CalculateSuggestQty(r.quantity, r.safety_stock)
<1>4. /\ suggest \in Nat /\ suggest > 0
      /\ suggest = (r.safety_stock * 3) \div 2 - r.quantity
  BY <1>1, SuggestionOfLowRow
<1>5. /\ r.quantity + suggest >= r.safety_stock
      /\ 2 * (r.quantity + suggest) <= 3 * r.safety_stock
      /\ 2 * (r.quantity + suggest) >= 3 * r.safety_stock - 1
  BY <1>1, <1>4, TargetBounds, TargetCoversThreshold
<1>6. report' \in SUBSET Suggestions
  BY <1>1, <1>2, <1>3, <1>4 DEF Suggestions, Rows
<1>7. ReplenishTypeOK' /\ ReadingIsLow'
  BY <1>6 DEF Suggest, ReportInv, ReplenishTypeOK, ReadingIsLow
<1>8. SuggestionClosesGap'
  BY <1>2, <1>4, <1>5 DEF SuggestionClosesGap
<1> QED BY <1>7, <1>8 DEF ReportInv

\* Every step keeps the invariant.
LEMMA ReportInvStep == ReportInv /\ [ReplenishNext]_replenishVars => ReportInv'
<1> SUFFICES ASSUME ReportInv, [ReplenishNext]_replenishVars PROVE ReportInv'
  OBVIOUS
<1> USE BoundsAssumption
<1>1. row.quantity \in 0..MaxQuantity /\ row.safety_stock \in 0..MaxSafety
  BY DEF ReportInv, ReplenishTypeOK, Rows
<1>2. ASSUME NEW n \in 1..MaxQuantity, Sell(n) PROVE ReportInv'
  <2>1. ReplenishTypeOK'
    BY <1>1, <1>2 DEF Sell, ReportInv, ReplenishTypeOK, Rows
  <2> QED BY <1>2, <2>1, OthersKeepReport DEF Sell
<1>3. ASSUME NEW n \in 1..MaxQuantity, Purchase(n) PROVE ReportInv'
  <2>1. ReplenishTypeOK'
    BY <1>1, <1>3 DEF Purchase, ReportInv, ReplenishTypeOK, Rows
  <2> QED BY <1>3, <2>1, OthersKeepReport DEF Purchase
<1>4. ASSUME NEW n \in 1..MaxSales, Age(n) PROVE ReportInv'
  <2>1. ReplenishTypeOK'
    BY <1>4 DEF Age, ReportInv, ReplenishTypeOK
  <2> QED BY <1>4, <2>1, OthersKeepReport DEF Age
<1>5. ASSUME NEW s \in 0..MaxSafety, SetSafetyStock(s) PROVE ReportInv'
  <2>1. ReplenishTypeOK'
    BY <1>1, <1>5 DEF SetSafetyStock, ReportInv, ReplenishTypeOK, Rows
  <2> QED BY <1>5, <2>1, OthersKeepReport DEF SetSafetyStock
<1>6. CASE ReadAlerts
  BY <1>6 DEF ReadAlerts, ReportInv, ReplenishTypeOK, ReadingIsLow, SuggestionClosesGap
<1>7. ASSUME NEW r \in reading, Suggest(r) PROVE ReportInv'
  BY <1>7, SuggestClosesGap
<1>8. ASSUME NEW r \in reading, LeaveOut(r) PROVE ReportInv'
  BY <1>8 DEF LeaveOut, ReportInv, ReplenishTypeOK, ReadingIsLow, SuggestionClosesGap
<1>9. ASSUME NEW s \in report, Follow(s) PROVE ReportInv'
  <2>1. s.suggest_qty \in Nat
    BY DEF ReportInv, ReplenishTypeOK, Suggestions
  <2>2. row' \in Rows
    BY <1>1, <1>9, <2>1 DEF Follow, ReportInv, ReplenishTypeOK, Rows
  <2> QED BY <1>9, <2>2
          DEF Follow, ReportInv, ReplenishTypeOK, ReadingIsLow, SuggestionClosesGap
<1>10. CASE UNCHANGED replenishVars
  BY <1>10 DEF replenishVars, ReportInv, ReplenishTypeOK, ReadingIsLow, SuggestionClosesGap
<1> QED
  BY <1>2, <1>3, <1>4, <1>5, <1>6, <1>7, <1>8, <1>9, <1>10 DEF ReplenishNext

\* The invariant holds at the start, when nothing has been read.
LEMMA ReportInvInit == ReplenishInit => ReportInv
  BY BoundsAssumption
  DEF ReplenishInit, ReportInv, ReplenishTypeOK, Rows, ReadingIsLow, SuggestionClosesGap

\* Every suggestion a manager can hold closes the gap of the row it was made for
\* and goes at most half a threshold above it (CalculateSuggestQty).
THEOREM ReportCorrect == ReplenishSpec => []SuggestionClosesGap
<1>1. ReportInv => SuggestionClosesGap
  BY DEF ReportInv
<1> QED BY <1>1, ReportInvInit, ReportInvStep, PTL DEF ReplenishSpec

\* A suggestion followed late misses the threshold by no more than the row drifted
\* since it was read, for every quantity and threshold (ReplenishSuggestions).
THEOREM FollowingCorrect == ReplenishSpec => FollowingMissesByDrift
<1> DEFINE Aimed(s) ==
              /\ row'.quantity + LostSince(s) + RaisedSince(s) >= row'.safety_stock
              /\ 2 * row'.quantity <= 3 * s.safety_stock + 2 * GainedSince(s)
<1>1. ReportInv => \A s \in report : Follow(s) => Aimed(s)
  <2> SUFFICES ASSUME ReportInv, NEW s \in report, Follow(s)
               PROVE  Aimed(s)
    OBVIOUS
  <2>1. /\ row.quantity \in Nat /\ row.safety_stock \in Nat
        /\ s.quantity \in Nat /\ s.safety_stock \in Nat /\ s.suggest_qty \in Nat
    BY BoundsAssumption DEF ReportInv, ReplenishTypeOK, Rows, Suggestions
  <2>2. /\ s.quantity + s.suggest_qty >= s.safety_stock
        /\ 2 * (s.quantity + s.suggest_qty) <= 3 * s.safety_stock
    BY DEF ReportInv, SuggestionClosesGap
  <2>3. /\ row'.quantity = row.quantity + s.suggest_qty
        /\ row'.safety_stock = row.safety_stock
    BY DEF Follow, ReportInv, ReplenishTypeOK, Rows
  <2>4. /\ LostSince(s) \in Nat /\ s.quantity <= row.quantity + LostSince(s)
        /\ GainedSince(s) \in Nat /\ row.quantity <= s.quantity + GainedSince(s)
        /\ RaisedSince(s) \in Nat /\ row.safety_stock <= s.safety_stock + RaisedSince(s)
    BY <2>1 DEF LostSince, GainedSince, RaisedSince, Excess
  <2>5. row'.quantity + LostSince(s) + RaisedSince(s) >= row'.safety_stock
    BY <2>1, <2>2, <2>3, <2>4
  <2>6. 2 * row'.quantity <= 3 * s.safety_stock + 2 * GainedSince(s)
    BY <2>1, <2>2, <2>3, <2>4
  <2> QED BY <2>5, <2>6
<1>2. ReplenishSpec => []ReportInv
  BY ReportInvInit, ReportInvStep, PTL DEF ReplenishSpec
<1> QED BY <1>1, <1>2, PTL DEF FollowingMissesByDrift

\* The row, what was sold and every report keep their types: in particular no
\* sale and no followed suggestion takes the row out of its bounds.
THEOREM ReplenishTypeCorrect == ReplenishSpec => []ReplenishTypeOK
<1>1. ReportInv => ReplenishTypeOK
  BY DEF ReportInv
<1> QED BY <1>1, ReportInvInit, ReportInvStep, PTL DEF ReplenishSpec

\* Whatever moves the row, the places that decide what low stock is agree about
\* it (ListAlerts, Stats, CalculateSuggestQty, InventoryStatusText and their
\* twins in the browser).
THEOREM LowStockCorrect == ReplenishSpec => []LowStockAgreed
<1>1. ReportInv => LowStockAgreed
  <2> SUFFICES ASSUME ReportInv PROVE LowStockAgreed
    OBVIOUS
  <2>1. row.quantity \in Nat /\ row.safety_stock \in Nat
    BY BoundsAssumption DEF ReportInv, ReplenishTypeOK, Rows
  <2> DEFINE q == row.quantity
             s == row.safety_stock
  <2>2. /\ CalculateSuggestQty(q, s) = calculateSuggestQty(q, s)
        /\ ListAlerts(row) <=> CalculateSuggestQty(q, s) > 0
    BY <2>1, SuggestionsAgree DEF ListAlerts
  <2>3. /\ inventoryStatusType(q, s) = "danger" <=> q <= 0
        /\ inventoryStatusType(q, s) = "warning" <=> q > 0 /\ q < s
        /\ InventoryStatusText(q, s) = "low" <=> q > 0 /\ q < s
    <3>1. CASE q <= 0
      BY <3>1, <2>1 DEF inventoryStatusType, InventoryStatusText
    <3>2. CASE q > 0 /\ q < s
      BY <3>2, <2>1 DEF inventoryStatusType, InventoryStatusText
    <3>3. CASE q > 0 /\ ~(q < s)
      BY <3>3, <2>1 DEF inventoryStatusType, InventoryStatusText
    <3> QED BY <2>1, <3>1, <3>2, <3>3
  <2> QED BY <2>1, <2>2, <2>3 DEF LowStockAgreed, ListAlerts, LowStock, OutOfStock
<1> QED BY <1>1, ReportInvInit, ReportInvStep, PTL DEF ReplenishSpec
=============================================================================
