---------------------------- MODULE InventoryProof ----------------------------
(***************************************************************************)
(* Lemmas about the statements on store_inventories, for the proofs about  *)
(* the services that use them: the table keeps its type, and a row is      *)
(* written by one open transaction at a time.                              *)
(***************************************************************************)
EXTENDS Inventory, SumLemmas

\* The row inserted has one of the free ids.
LEMMA MinIsFree ==
    ASSUME NEW s \in Stores, FreeSlots(s) # {}
    PROVE  Min(FreeSlots(s)) \in FreeSlots(s)
<1>1. \E x \in FreeSlots(s) : \A y \in FreeSlots(s) : x <= y
  BY LeastExists, SlotsAssumption DEF FreeSlots
<1> QED BY <1>1 DEF Min

\* The row that First finds is one of the rows there are.
LEMMA FoundIsThere ==
    ASSUME NEW c \in Sessions, NEW s \in Stores, RowsOf(c, s) # {}
    PROVE  FindByStoreAndSKU(c, s) \in RowsOf(c, s)
<1> DEFINE S == {n \in Slots : <<s, n>> \in RowsOf(c, s)}
<1>0. \A k \in RowsOf(c, s) : k[2] \in Slots /\ k = <<s, k[2]>>
  BY DEF RowsOf, InvKeys
<1>1. S # {} /\ S \in SUBSET Nat
  BY <1>0, SlotsAssumption
<1>2. PICK n \in S : \A m \in S : n <= m
  BY <1>1, LeastExists
<1>3. <<s, n>> \in RowsOf(c, s)
  OBVIOUS
<1>4. \A j \in RowsOf(c, s) : j[2] \in S
  BY <1>0
<1>5. \A j \in RowsOf(c, s) : <<s, n>>[2] <= j[2]
  BY <1>2, <1>4
<1> QED BY <1>3, <1>5 DEF FindByStoreAndSKU

-----------------------------------------------------------------------------
\* A row is written by one open transaction at a time.
Exclusive ==
    \A c, d \in Sessions, k \in InvKeys : c # d /\ wrote[c][k] # Nil => wrote[d][k] = Nil

InventoryInv == InvTypeOK /\ Exclusive

\* A step of session c: rows do not vanish, and it takes no row that another
\* open transaction has written, neither for itself nor from the other.
RowStep(c) ==
    /\ InventoryInv'
    /\ \A d \in Sessions \ {c} : wrote'[d] = wrote[d]
    /\ \A k \in InvKeys : inv[k] # Nil => inv'[k] # Nil
    /\ \A d \in Sessions \ {c}, k \in InvKeys : wrote[d][k] # Nil => inv'[k] = inv[k]

LEMMA QuietRows ==
    ASSUME InventoryInv, NEW c \in Sessions, UNCHANGED <<inv, wrote>>
    PROVE  RowStep(c)
BY DEF RowStep, InventoryInv, InvTypeOK, Exclusive

\* The rows that the conditional UPDATE selects, and what it makes of them.
LEMMA AdjustResult ==
    ASSUME InventoryInv, NEW c \in Sessions, NEW s \in Stores, NEW n \in Int,
           AdjustRows(c, s, n)
    PROVE  /\ RowStep(c) /\ inv' = inv
           /\ \A k \in InvKeys :
                 wrote'[c][k] = IF k \in Adjusted(c, s, n)
                                THEN [View(c, k) EXCEPT !.qty = @ + n] ELSE wrote[c][k]
           /\ \A k \in InvKeys :
                 \/ wrote'[c][k] = wrote[c][k]
                 \/ /\ View(c, k) # Nil
                    /\ wrote'[c][k] \in InvRow
                    /\ wrote'[c][k].safety = View(c, k).safety
<1>1. ASSUME NEW k \in Adjusted(c, s, n)
      PROVE  /\ k \in InvKeys /\ View(c, k) # Nil
             /\ [View(c, k) EXCEPT !.qty = @ + n] \in InvRow
             /\ [View(c, k) EXCEPT !.qty = @ + n].safety = View(c, k).safety
  <2>1. k \in InvKeys /\ View(c, k) # Nil /\ View(c, k) \in InvRow \cup {Nil}
    BY DEF Adjusted, RowsOf, InventoryInv, InvTypeOK, View
  <2>2. View(c, k).qty + n \in Nat
    BY <2>1 DEF Adjusted, InvRow
  <2> QED BY <2>1, <2>2 DEF InvRow
<1>2. /\ wrote' \in [Sessions -> [InvKeys -> InvRow \cup {Nil}]]
      /\ \A d \in Sessions : d # c => wrote'[d] = wrote[d]
      /\ \A k \in InvKeys :
            wrote'[c][k] = IF k \in Adjusted(c, s, n)
                           THEN [View(c, k) EXCEPT !.qty = @ + n] ELSE wrote[c][k]
  <2>1. [k \in InvKeys |-> IF k \in Adjusted(c, s, n)
                           THEN [View(c, k) EXCEPT !.qty = @ + n]
                           ELSE wrote[c][k]] \in [InvKeys -> InvRow \cup {Nil}]
    BY <1>1 DEF InventoryInv, InvTypeOK
  <2> QED BY <2>1 DEF AdjustRows, InventoryInv, InvTypeOK
<1>3. Exclusive'
  <2> SUFFICES ASSUME NEW d \in Sessions, NEW e \in Sessions, NEW k \in InvKeys,
                      d # e, wrote'[d][k] # Nil
               PROVE  wrote'[e][k] = Nil
    BY DEF Exclusive
  <2>1. k \in Adjusted(c, s, n) => \A f \in Sessions \ {c} : wrote[f][k] = Nil
    BY DEF AdjustRows, InvFree
  <2>2. wrote[d][k] # Nil => wrote[e][k] = Nil
    BY DEF InventoryInv, Exclusive
  <2>3. CASE d = c
    <3>1. wrote'[e] = wrote[e]
      BY <2>3, <1>2
    <3>2. wrote'[c][k] = wrote[c][k] \/ k \in Adjusted(c, s, n)
      BY <1>2
    <3> QED BY <2>1, <2>2, <2>3, <3>1, <3>2
  <2>4. CASE e = c
    <3>1. wrote[d][k] # Nil /\ wrote[c][k] = Nil
      BY <2>2, <2>4, <1>2
    <3>2. k \notin Adjusted(c, s, n)
      BY <2>1, <2>4, <3>1
    <3> QED BY <2>4, <3>1, <3>2, <1>2
  <2>5. CASE d # c /\ e # c
    BY <2>2, <2>5, <1>2
  <2> QED BY <2>3, <2>4, <2>5
<1>4. inv' = inv
  BY DEF AdjustRows
<1>5. RowStep(c)
  BY <1>2, <1>3, <1>4 DEF RowStep, InventoryInv, InvTypeOK
<1> QED BY <1>1, <1>2, <1>4, <1>5

\* The uncommitted INSERT takes an id that no version of a row has.
LEMMA InsertResult ==
    ASSUME InventoryInv, NEW c \in Sessions, NEW s \in Stores, NEW q \in Nat,
           InsertRow(c, s, q)
    PROVE  /\ RowStep(c) /\ inv' = inv
           /\ \E new \in InvKeys :
                 /\ inv[new] = Nil /\ wrote[c][new] = Nil
                 /\ wrote'[c][new] = [qty |-> q, safety |-> 0]
                 /\ \A k \in InvKeys : k # new => wrote'[c][k] = wrote[c][k]
<1> DEFINE new == <<s, Min(FreeSlots(s))>>
<1>1. /\ new \in InvKeys /\ inv[new] = Nil
      /\ \A d \in Sessions : wrote[d][new] = Nil
  BY MinIsFree DEF InsertRow, FreeSlots, InvKeys
<1>2. [qty |-> q, safety |-> 0] \in InvRow
  BY DEF InvRow
<1> HIDE DEF new
<1>3. /\ inv' = inv
      /\ wrote' = [wrote EXCEPT ![c][new] = [qty |-> q, safety |-> 0]]
  BY DEF InsertRow, new
<1>4. /\ wrote' \in [Sessions -> [InvKeys -> InvRow \cup {Nil}]]
      /\ \A d \in Sessions : d # c => wrote'[d] = wrote[d]
      /\ \A k \in InvKeys : k # new => wrote'[c][k] = wrote[c][k]
      /\ wrote'[c][new] = [qty |-> q, safety |-> 0]
  BY <1>1, <1>2, <1>3 DEF InventoryInv, InvTypeOK
<1>5. Exclusive'
  BY <1>1, <1>4 DEF InventoryInv, Exclusive
<1>6. RowStep(c)
  BY <1>3, <1>4, <1>5 DEF RowStep, InventoryInv, InvTypeOK
<1> QED BY <1>1, <1>3, <1>4, <1>6

\* The end of a transaction: the rows show what it wrote, or what they showed.
LEMMA EndResult ==
    ASSUME InventoryInv, NEW c \in Sessions, CommitRows(c) \/ RollbackRows(c)
    PROVE  /\ RowStep(c)
           /\ wrote'[c] = NoWrites
           /\ \A k \in InvKeys : inv'[k] # inv[k] => inv'[k] = wrote[c][k] /\ wrote[c][k] # Nil
<1>1. NoWrites \in [InvKeys -> InvRow \cup {Nil}] /\ \A k \in InvKeys : NoWrites[k] = Nil
  BY DEF NoWrites
<1>2. [k \in InvKeys |-> View(c, k)] \in [InvKeys -> InvRow \cup {Nil}]
  BY DEF View, InventoryInv, InvTypeOK
<1>3. /\ wrote' = [wrote EXCEPT ![c] = NoWrites]
      /\ inv' \in [InvKeys -> InvRow \cup {Nil}]
      /\ \A k \in InvKeys : inv'[k] \in {inv[k], View(c, k)}
  BY <1>2 DEF CommitRows, RollbackRows, InventoryInv, InvTypeOK
<1>4. /\ wrote' \in [Sessions -> [InvKeys -> InvRow \cup {Nil}]]
      /\ wrote'[c] = NoWrites
      /\ \A d \in Sessions : d # c => wrote'[d] = wrote[d]
  BY <1>1, <1>3 DEF InventoryInv, InvTypeOK
<1>5. Exclusive'
  BY <1>1, <1>4 DEF InventoryInv, Exclusive
<1>6. \A k \in InvKeys : inv'[k] # inv[k] => inv'[k] = wrote[c][k] /\ wrote[c][k] # Nil
  BY <1>3 DEF View
<1>7. RowStep(c)
  BY <1>3, <1>4, <1>5, <1>6 DEF RowStep, InventoryInv, InvTypeOK, Exclusive
<1> QED BY <1>4, <1>6, <1>7

-----------------------------------------------------------------------------
\* Quantities. What a store holds is the sum over its rows; what a transaction
\* is about to add to it is the sum over the rows that it wrote.
KeysOf(s) == {k \in InvKeys : k[1] = s}
Amount(row) == IF row = Nil THEN 0 ELSE row.qty
Change(c, k) == IF wrote[c][k] = Nil THEN 0 ELSE wrote[c][k].qty - Amount(inv[k])
Carried(c, s) == SumFunctionOnSet([k \in InvKeys |-> Change(c, k)], KeysOf(s))

\* The statements of session c see one row per store.
Single(c) ==
    \A j, k \in InvKeys : View(c, j) # Nil /\ View(c, k) # Nil /\ j[1] = k[1] => j = k

LEMMA KeysFinite ==
    ASSUME NEW s \in Stores
    PROVE  IsFiniteSet(KeysOf(s))
<1> DEFINE id == [k \in KeysOf(s) |-> k[2]]
<1>1. id \in [KeysOf(s) -> Slots]
  BY DEF KeysOf, InvKeys
<1>2. \A j, k \in KeysOf(s) : id[j] = id[k] => j = k
  BY DEF KeysOf, InvKeys
<1>3. id \in Injection(KeysOf(s), Slots)
  BY <1>1, <1>2 DEF Injection, IsInjective
<1> QED BY <1>3, SlotsAssumption, FS_Injection

LEMMA HeldIsSum ==
    ASSUME NEW s \in Stores
    PROVE  /\ Held(s) = SumFunctionOnSet([k \in InvKeys |-> Amount(inv[k])], KeysOf(s))
           /\ Held(s)' = SumFunctionOnSet([k \in InvKeys |-> Amount(inv'[k])], KeysOf(s))
<1>1. Held(s) = SumFunctionOnSet([k \in KeysOf(s) |-> Amount(inv[k])], KeysOf(s))
  BY ZenonT(40) DEF Held, MapThenSumSet, SumFunctionOnSet, FoldFunctionOnSet, MapThenFoldSet,
     KeysOf, Amount
<1>3. Held(s)' = SumFunctionOnSet([k \in KeysOf(s) |-> Amount(inv'[k])], KeysOf(s))
  BY ZenonT(40) DEF Held, MapThenSumSet, SumFunctionOnSet, FoldFunctionOnSet, MapThenFoldSet,
     KeysOf, Amount
<1>2. ASSUME NEW rows
      PROVE  SumFunctionOnSet([k \in KeysOf(s) |-> Amount(rows[k])], KeysOf(s))
             = SumFunctionOnSet([k \in InvKeys |-> Amount(rows[k])], KeysOf(s))
  <2>1. \A k \in KeysOf(s) :
           [j \in KeysOf(s) |-> Amount(rows[j])][k] = [j \in InvKeys |-> Amount(rows[j])][k]
    BY DEF KeysOf
  <2> QED BY <2>1, KeysFinite, SumSame
<1> QED BY <1>1, <1>2, <1>3

LEMMA AmountTypes ==
    ASSUME InvTypeOK, NEW c \in Sessions, NEW k \in InvKeys
    PROVE  Amount(inv[k]) \in Int /\ Change(c, k) \in Int /\ Amount(inv[k]) >= 0
BY DEF InvTypeOK, Amount, Change, InvRow

\* The transaction carries on what it carried.
LEMMA CarriedSame ==
    ASSUME NEW c \in Sessions, NEW s \in Stores, wrote'[c] = wrote[c],
           \A k \in InvKeys : wrote[c][k] # Nil => inv'[k] = inv[k]
    PROVE  Carried(c, s)' = Carried(c, s)
<1>1. \A k \in InvKeys : Change(c, k)' = Change(c, k)
  BY DEF Change, Amount
<1>2. [k \in InvKeys |-> Change(c, k)]' = [k \in InvKeys |-> Change(c, k)]
  BY <1>1
<1> QED BY <1>2 DEF Carried

\* Without writes it carries nothing, now and in the next state.
LEMMA CarriedNone ==
    ASSUME NEW c \in Sessions, NEW s \in Stores
    PROVE  /\ (\A k \in InvKeys : wrote[c][k] = Nil) => Carried(c, s) = 0
           /\ (\A k \in InvKeys : wrote'[c][k] = Nil) => Carried(c, s)' = 0
<1>1. ASSUME \A k \in InvKeys : wrote[c][k] = Nil PROVE Carried(c, s) = 0
  <2>1. \A k \in KeysOf(s) : [j \in InvKeys |-> Change(c, j)][k] = 0
    BY <1>1 DEF KeysOf, Change
  <2> QED BY <2>1, KeysFinite, SumZero DEF Carried
<1>2. ASSUME \A k \in InvKeys : wrote'[c][k] = Nil PROVE Carried(c, s)' = 0
  <2>1. \A k \in KeysOf(s) : [j \in InvKeys |-> Change(c, j)'][k] = 0
    BY <1>2 DEF KeysOf, Change
  <2>2. Carried(c, s)' = SumFunctionOnSet([j \in InvKeys |-> Change(c, j)'], KeysOf(s))
    BY DEF Carried, KeysOf
  <2> QED BY <2>1, <2>2, KeysFinite, SumZero
<1> QED BY <1>1, <1>2

\* An UPDATE that finds one row adds its amount, once.
LEMMA AdjustCarries ==
    ASSUME InventoryInv, NEW c \in Sessions, NEW s \in Stores, NEW n \in Int,
           Single(c), Adjusted(c, s, n) # {}, AdjustRows(c, s, n), NEW t \in Stores
    PROVE  Carried(c, t)' = Carried(c, t) + IF t = s THEN n ELSE 0
<1> DEFINE f == [k \in InvKeys |-> Change(c, k)]
           g == [k \in InvKeys |-> Change(c, k)']
<1>1. PICK x : Adjusted(c, s, n) = {x}
  BY DEF Single, Adjusted, RowsOf
<1>2. /\ x \in InvKeys /\ x[1] = s /\ View(c, x) # Nil
  BY <1>1 DEF Adjusted, RowsOf
<1>3. /\ InvTypeOK /\ InvTypeOK' /\ inv' = inv
      /\ wrote'[c][x] = [View(c, x) EXCEPT !.qty = @ + n]
      /\ \A k \in InvKeys : k # x => wrote'[c][k] = wrote[c][k]
  BY <1>1, <1>2, AdjustResult DEF RowStep, InventoryInv
<1>4. \A k \in InvKeys : k # x => Change(c, k)' = Change(c, k)
  BY <1>3 DEF Change, Amount
<1>5. Change(c, x)' = Change(c, x) + n
  <2>1. View(c, x) \in InvRow
    BY <1>2, <1>3 DEF View, InvTypeOK
  <2>2. wrote'[c][x].qty = View(c, x).qty + n /\ wrote'[c][x] \in InvRow \cup {Nil}
    BY <1>2, <1>3, <2>1 DEF InvRow, InvTypeOK
  <2>3. wrote'[c][x] # Nil
    <3>1. [View(c, x) EXCEPT !.qty = @ + n] = [qty |-> View(c, x).qty + n, safety |-> View(c, x).safety]
      BY <2>1 DEF InvRow
    <3>2. View(c, x).qty + n \in Nat
      BY <1>1, <2>1 DEF Adjusted, InvRow
    <3>3. wrote'[c][x] \in InvRow
      BY <1>3, <2>1, <3>1, <3>2 DEF InvRow
    <3> QED BY <3>3, NilInvAssumption
  <2>4. Change(c, x)' = wrote'[c][x].qty - Amount(inv[x])
    BY <1>3, <2>3 DEF Change, Amount
  <2>5. Change(c, x) = View(c, x).qty - Amount(inv[x])
    BY <1>2, <1>3, <2>1 DEF Change, View, Amount, InvRow
  <2>6. View(c, x).qty \in Int /\ Amount(inv[x]) \in Int
    BY <1>2, <1>3, <2>1, AmountTypes DEF InvRow
  <2> DEFINE v == View(c, x).qty
             a == Amount(inv[x])
             w == wrote'[c][x].qty
  <2>7. w = v + n /\ Change(c, x)' = w - a /\ Change(c, x) = v - a /\ v \in Int /\ a \in Int
    BY <2>2, <2>4, <2>5, <2>6
  <2> HIDE DEF v, a, w
  <2> QED BY <2>7
<1>6. \A k \in KeysOf(t) : f[k] \in Int /\ g[k] \in Int
  BY <1>3 DEF KeysOf, Change, Amount, InvTypeOK, InvRow
<1>7. \A k \in KeysOf(t) : k # x => g[k] = f[k]
  BY <1>4 DEF KeysOf
<1>8. Carried(c, t) = SumFunctionOnSet(f, KeysOf(t)) /\ Carried(c, t)' = SumFunctionOnSet(g, KeysOf(t))
  BY DEF Carried, KeysOf
<1>9. IsFiniteSet(KeysOf(t)) /\ SumFunctionOnSet(f, KeysOf(t)) \in Int
  <2> HIDE DEF f
  <2> QED BY <1>6, KeysFinite, SumType
<1>10. CASE t = s
  <2>1. x \in KeysOf(t) /\ \A k \in KeysOf(t) : g[k] = IF k = x THEN f[k] + n ELSE f[k]
    BY <1>2, <1>5, <1>7, <1>10 DEF KeysOf
  <2> HIDE DEF f, g
  <2>2. SumFunctionOnSet(g, KeysOf(t)) = SumFunctionOnSet(f, KeysOf(t)) + n
    BY <1>6, <1>9, <2>1, SumChange
  <2> QED BY <1>8, <1>9, <1>10, <2>2
<1>11. CASE t # s
  <2>1. \A k \in KeysOf(t) : f[k] = g[k]
    BY <1>2, <1>7, <1>11 DEF KeysOf
  <2> HIDE DEF f, g
  <2>2. SumFunctionOnSet(f, KeysOf(t)) = SumFunctionOnSet(g, KeysOf(t))
    BY <1>9, <2>1, SumSame
  <2> QED BY <1>8, <1>9, <1>11, <2>2
<1> QED BY <1>10, <1>11

\* An empty row inserted adds nothing.
LEMMA InsertCarries ==
    ASSUME InventoryInv, NEW c \in Sessions, NEW s \in Stores, InsertRow(c, s, 0),
           NEW t \in Stores
    PROVE  Carried(c, t)' = Carried(c, t)
<1>1. PICK new \in InvKeys :
         /\ inv[new] = Nil /\ wrote[c][new] = Nil
         /\ wrote'[c][new] = [qty |-> 0, safety |-> 0]
         /\ \A k \in InvKeys : k # new => wrote'[c][k] = wrote[c][k]
  BY InsertResult
<1>2. inv' = inv
  BY InsertResult
<1>3. Change(c, new) = 0 /\ Change(c, new)' = 0
  BY <1>1, <1>2 DEF Change, Amount
<1>4. \A k \in InvKeys : Change(c, k)' = Change(c, k)
  BY <1>1, <1>2, <1>3 DEF Change, Amount
<1> QED BY <1>4 DEF Carried

\* The commit adds to the store what the transaction carried.
LEMMA CommitHeld ==
    ASSUME InventoryInv, NEW c \in Sessions, CommitRows(c), NEW s \in Stores
    PROVE  Held(s)' = Held(s) + Carried(c, s)
<1> DEFINE f == [k \in InvKeys |-> Amount(inv[k])]
           g == [k \in InvKeys |-> Change(c, k)]
           h == [k \in InvKeys |-> Amount(inv'[k])]
<1>1. \A k \in InvKeys : Amount(inv'[k]) = Amount(inv[k]) + Change(c, k)
  BY DEF InventoryInv, InvTypeOK, CommitRows, View, Amount, Change, InvRow
<1>2. \A k \in KeysOf(s) : f[k] \in Int /\ g[k] \in Int /\ h[k] = f[k] + g[k]
  BY <1>1, AmountTypes DEF KeysOf, InventoryInv
<1>3. IsFiniteSet(KeysOf(s))
  BY KeysFinite
<1>4. /\ Held(s) = SumFunctionOnSet(f, KeysOf(s))
      /\ Carried(c, s) = SumFunctionOnSet(g, KeysOf(s))
  BY HeldIsSum DEF Carried
<1>5. Held(s)' = SumFunctionOnSet(h, KeysOf(s))
  BY HeldIsSum
<1> HIDE DEF f, g, h
<1> QED BY <1>2, <1>3, <1>4, <1>5, SumPlus

\* A session whose statements see single rows saw single rows before: rows do
\* not vanish.
LEMMA SingleBefore ==
    ASSUME InventoryInv, NEW c \in Sessions, NEW d \in Sessions, RowStep(c), Single(d)',
           d = c => \A k \in InvKeys : wrote[c][k] # Nil => wrote'[c][k] # Nil
    PROVE  Single(d)
<1>1. \A k \in InvKeys : View(d, k) # Nil => View(d, k)' # Nil
  BY DEF View, RowStep
<1> QED BY <1>1 DEF Single

\* Who publishes rows without doubling one has seen single rows.
LEMMA CommitSingle ==
    ASSUME NEW c \in Sessions, CommitRows(c), SingleRow'
    PROVE  Single(c)
BY DEF CommitRows, SingleRow, Single

\* What a store holds at first is its one row's quantity, if it has one.
LEMMA HeldAtFirst ==
    ASSUME InvInit, NEW s \in Stores
    PROVE  Held(s) = Initially(s)
<1> DEFINE f == [k \in InvKeys |-> 0]
           g == [k \in InvKeys |-> Amount(inv[k])]
           x == <<s, Min(Slots)>>
<1>1. Min(Slots) \in Slots
  <2>1. \E n \in Slots : \A m \in Slots : n <= m
    BY LeastExists, SlotsAssumption
  <2> QED BY <2>1 DEF Min
<1>2. x \in KeysOf(s) /\ KeysOf(s) \subseteq InvKeys
  BY <1>1 DEF KeysOf, InvKeys
<1>3. Initially(s) \in Int
  BY InitStockAssumption DEF Initially
<1>4. ASSUME NEW k \in KeysOf(s) PROVE g[k] = IF k = x THEN f[k] + Initially(s) ELSE f[k]
  <2>1. k \in InvKeys /\ k[1] = s /\ k = <<k[1], k[2]>>
    BY DEF KeysOf, InvKeys
  <2>2. inv[k] = IF k[2] = Min(Slots) /\ InitStock[s] # Nil
                 THEN [qty |-> InitStock[s], safety |-> 0] ELSE Nil
    BY <2>1 DEF InvInit
  <2>3. CASE k = x /\ InitStock[s] # Nil
    <3>1. inv[k] = [qty |-> InitStock[s], safety |-> 0]
      BY <2>2, <2>3
    <3>2. InitStock[s] \in Nat
      BY <2>3, InitStockAssumption
    <3>3. inv[k] \in InvRow
      BY <3>1, <3>2 DEF InvRow
    <3>4. inv[k] # Nil
      BY <3>3, NilInvAssumption
    <3> QED BY <2>1, <2>3, <3>1, <3>2, <3>4 DEF Amount, Initially
  <2>4. CASE ~(k = x /\ InitStock[s] # Nil)
    BY <2>1, <2>2, <2>4 DEF Amount, Initially
  <2> QED BY <2>3, <2>4
<1>5. \A k \in KeysOf(s) : f[k] \in Int /\ f[k] = 0
  BY <1>2
<1>6. Held(s) = SumFunctionOnSet(g, KeysOf(s)) /\ IsFiniteSet(KeysOf(s))
  BY HeldIsSum, KeysFinite
<1> HIDE DEF f, g, x
<1>7. SumFunctionOnSet(g, KeysOf(s)) = SumFunctionOnSet(f, KeysOf(s)) + Initially(s)
  BY <1>2, <1>3, <1>4, <1>5, <1>6, SumChange
<1>8. SumFunctionOnSet(f, KeysOf(s)) = 0
  BY <1>5, <1>6, SumZero
<1> QED BY <1>3, <1>6, <1>7, <1>8

\* Rows that keep their quantities keep what a store holds.
LEMMA HeldKept ==
    ASSUME NEW s \in Stores, \A k \in InvKeys : Amount(inv'[k]) = Amount(inv[k])
    PROVE  Held(s)' = Held(s)
<1> DEFINE f == [k \in InvKeys |-> Amount(inv[k])]
           g == [k \in InvKeys |-> Amount(inv'[k])]
<1>1. f = g
  OBVIOUS
<1>2. Held(s) = SumFunctionOnSet(f, KeysOf(s)) /\ Held(s)' = SumFunctionOnSet(g, KeysOf(s))
  BY HeldIsSum
<1> HIDE DEF f, g
<1> QED BY <1>1, <1>2

LEMMA HeldSame ==
    ASSUME NEW s \in Stores, inv' = inv
    PROVE  Held(s)' = Held(s)
BY HeldKept

\* One row's quantity changes by n.
LEMMA HeldChange ==
    ASSUME InvTypeOK, NEW s \in Stores, NEW n \in Int, NEW x \in InvKeys,
           \A k \in InvKeys : Amount(inv'[k]) = IF k = x THEN Amount(inv[k]) + n ELSE Amount(inv[k])
    PROVE  Held(s)' = Held(s) + IF x[1] = s THEN n ELSE 0
<1> DEFINE f == [k \in InvKeys |-> Amount(inv[k])]
           g == [k \in InvKeys |-> Amount(inv'[k])]
<1>1. Held(s) = SumFunctionOnSet(f, KeysOf(s)) /\ Held(s)' = SumFunctionOnSet(g, KeysOf(s))
  BY HeldIsSum
<1>2. IsFiniteSet(KeysOf(s)) /\ KeysOf(s) \subseteq InvKeys /\ (x \in KeysOf(s) <=> x[1] = s)
  BY KeysFinite DEF KeysOf
<1>3. \A k \in KeysOf(s) : f[k] \in Int
  BY <1>2 DEF InvTypeOK, InvRow, Amount
<1>4. \A k \in KeysOf(s) : g[k] = IF k = x THEN f[k] + n ELSE f[k]
  BY <1>2
<1> HIDE DEF f, g
<1>5. SumFunctionOnSet(f, KeysOf(s)) \in Int
  BY <1>2, <1>3, SumType
<1>6. CASE x[1] = s
  <2>1. x \in KeysOf(s)
    BY <1>2, <1>6
  <2>2. SumFunctionOnSet(g, KeysOf(s)) = SumFunctionOnSet(f, KeysOf(s)) + n
    BY <1>2, <1>3, <1>4, <2>1, SumChange
  <2> QED BY <1>1, <1>6, <2>2
<1>7. CASE x[1] # s
  <2>1. \A k \in KeysOf(s) : f[k] = g[k]
    BY <1>2, <1>4, <1>7
  <2>2. SumFunctionOnSet(f, KeysOf(s)) = SumFunctionOnSet(g, KeysOf(s))
    BY <1>2, <2>1, SumSame
  <2> QED BY <1>1, <1>5, <1>7, <2>2
<1> QED BY <1>6, <1>7

LEMMA HeldType ==
    ASSUME InvTypeOK, NEW s \in Stores
    PROVE  Held(s) \in Int
<1> DEFINE f == [k \in InvKeys |-> Amount(inv[k])]
<1>1. Held(s) = SumFunctionOnSet(f, KeysOf(s)) /\ IsFiniteSet(KeysOf(s))
  BY HeldIsSum, KeysFinite
<1>2. \A k \in KeysOf(s) : f[k] \in Int
  BY DEF KeysOf, InvTypeOK, InvRow, Amount
<1> HIDE DEF f
<1> QED BY <1>1, <1>2, SumType

\* The committed INSERT of Ensure, and the save of a whole row.
LEMMA RowCommitted ==
    ASSUME InventoryInv, NEW c \in Sessions, NEW k \in InvKeys, NEW row \in InvRow,
           inv' = [inv EXCEPT ![k] = row], wrote' = wrote, InvFree(c, {k})
    PROVE  RowStep(c) /\ \A j \in InvKeys : j # k => inv'[j] = inv[j]
<1>1. inv'[k] = row /\ row # Nil /\ \A j \in InvKeys : j # k => inv'[j] = inv[j]
  BY NilInvAssumption DEF InventoryInv, InvTypeOK
<1>2. InventoryInv'
  BY DEF InventoryInv, InvTypeOK, Exclusive
<1>3. \A d \in Sessions \ {c} : wrote[d][k] = Nil
  BY DEF InvFree
<1> QED BY <1>1, <1>2, <1>3 DEF RowStep
=============================================================================
