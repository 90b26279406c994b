------------------------------ MODULE Inventory ------------------------------
(***************************************************************************)
(* The store_inventories table as the SQL statements of                    *)
(* store_inventory_repository.go see it, for the rows of one SKU (no       *)
(* statement of the program touches rows of two SKUs).                     *)
(*                                                                         *)
(* PostgreSQL (external) runs every transaction at READ COMMITTED: a read  *)
(* returns the last committed version of a row, or the transaction's own;  *)
(* an UPDATE waits until no other open transaction has written a row it    *)
(* selects, and then works on the newest committed version; the rows a     *)
(* transaction wrote stay locked until it commits or rolls back.           *)
(*                                                                         *)
(* The table has no unique index on (store_id, sku_id), so one store may   *)
(* hold several rows: a row is named <<store, slot>>, and the slot plays   *)
(* the part of the primary key.                                            *)
(***************************************************************************)
EXTENDS TransferStatus, FiniteSets, FiniteSetsExt

CONSTANTS
    Stores,     \* the stores
    Slots,      \* the row ids one store's rows may take
    Sessions,   \* the requests in flight, each with its database connection
    Nil,        \* no row, no order, nothing written
    InitStock   \* InitStock[s]: the quantity in store s's row at first, or
                \* Nil where the store has no row yet

VARIABLES
    inv,        \* inv[k]: the committed version of row k, or Nil
    wrote       \* wrote[c][k]: the version of row k that session c's open
                \* transaction wrote (c then holds k's lock), or Nil

InvKeys == Stores \X Slots
InvRow  == [qty : Nat, safety : Nat]

ASSUME SlotsAssumption == Slots \subseteq Nat /\ IsFiniteSet(Slots) /\ Slots # {}
ASSUME NilInvAssumption == Nil \notin InvRow
ASSUME InitStockAssumption == InitStock \in [Stores -> Nat \cup {Nil}]

NoWrites == [k \in InvKeys |-> Nil]

InvTypeOK ==
    /\ inv \in [InvKeys -> InvRow \cup {Nil}]
    /\ wrote \in [Sessions -> [InvKeys -> InvRow \cup {Nil}]]

InvInit ==
    /\ inv = [k \in InvKeys |->
                IF k[2] = Min(Slots) /\ InitStock[k[1]] # Nil
                THEN [qty |-> InitStock[k[1]], safety |-> 0] ELSE Nil]
    /\ wrote = [c \in Sessions |-> NoWrites]

-----------------------------------------------------------------------------
\* What a statement of session c reads in row k.
View(c, k) == IF wrote[c][k] # Nil THEN wrote[c][k] ELSE inv[k]

\* The rows of store s that session c's statements find.
RowsOf(c, s) == {k \in InvKeys : k[1] = s /\ View(c, k) # Nil}

\* First(&inv): ORDER BY id LIMIT 1.
FindByStoreAndSKU(c, s) ==
    CHOOSE k \in RowsOf(c, s) : \A j \in RowsOf(c, s) : k[2] <= j[2]

\* No other open transaction has written a row of K.
InvFree(c, K) == \A k \in K, d \in Sessions \ {c} : wrote[d][k] = Nil

\* Faulty variants of the definitions that follow them are named Bug...: a run
\* whose property passes must fail with the variant in place of the definition.
\* Here: the decrement has lost its condition.
BugAdjusted(c, s, delta) == RowsOf(c, s)

\* The rows the conditional UPDATE of AdjustQuantityTx selects: every row of
\* the store; a decrement leaves out the rows it would drive below zero.
Adjusted(c, s, delta) ==
    {k \in RowsOf(c, s) : delta < 0 => View(c, k).qty + delta >= 0}

\* The new quantity is computed from the one read, before the lock is free.
BugAdjustRowsStale(c, s, delta) ==
    /\ wrote' = [wrote EXCEPT ![c] =
                    [k \in InvKeys |->
                        IF k \in Adjusted(c, s, delta)
                        THEN [View(c, k) EXCEPT !.qty = @ + delta]
                        ELSE wrote[c][k]]]
    /\ inv' = inv

\* The UPDATE runs outside the transaction, on a connection of its own.
BugAdjustRowsOutside(c, s, delta) ==
    /\ InvFree(c, Adjusted(c, s, delta))
    /\ inv' = [k \in InvKeys |-> IF k \in Adjusted(c, s, delta)
                                  THEN [inv[k] EXCEPT !.qty = @ + delta] ELSE inv[k]]
    /\ wrote' = wrote

\* The UPDATE saves a row that carries no threshold.
BugAdjustRowsSave(c, s, delta) ==
    /\ InvFree(c, Adjusted(c, s, delta))
    /\ wrote' = [wrote EXCEPT ![c] =
                    [k \in InvKeys |->
                        IF k \in Adjusted(c, s, delta)
                        THEN [qty |-> View(c, k).qty + delta, safety |-> 0]
                        ELSE wrote[c][k]]]
    /\ inv' = inv

\* The UPDATE itself, for a nonempty selection. Every selected row changes.
AdjustRows(c, s, delta) ==
    /\ InvFree(c, Adjusted(c, s, delta))
    /\ wrote' = [wrote EXCEPT ![c] =
                    [k \in InvKeys |->
                        IF k \in Adjusted(c, s, delta)
                        THEN [View(c, k) EXCEPT !.qty = @ + delta]
                        ELSE wrote[c][k]]]
    /\ inv' = inv

\* The ids no committed or uncommitted row of store s has taken.
FreeSlots(s) ==
    {n \in Slots : inv[<<s, n>>] = Nil /\ \A c \in Sessions : wrote[c][<<s, n>>] = Nil}

\* INSERT of a row by session c. The id of a rolled-back insert is reused.
InsertRow(c, s, q) ==
    /\ FreeSlots(s) # {}
    /\ wrote' = [wrote EXCEPT ![c][<<s, Min(FreeSlots(s))>>] =
                                    [qty |-> q, safety |-> 0]]
    /\ inv' = inv

\* COMMIT publishes the session's writes, ROLLBACK drops them; both unlock.
CommitRows(c) ==
    /\ inv' = [k \in InvKeys |-> View(c, k)]
    /\ wrote' = [wrote EXCEPT ![c] = NoWrites]

RollbackRows(c) ==
    /\ inv' = inv
    /\ wrote' = [wrote EXCEPT ![c] = NoWrites]

-----------------------------------------------------------------------------
\* store_inventory_service.go: the reads that guard a movement of stock. Both
\* read the first row only. A missing row is ErrNotFound.
CheckSufficient(c, s, q) ==
    /\ RowsOf(c, s) # {}
    /\ View(c, FindByStoreAndSKU(c, s)).qty >= q

AdjustAllowed(c, s, delta) ==
    /\ RowsOf(c, s) # {}
    /\ View(c, FindByStoreAndSKU(c, s)).qty + delta >= 0

\* The quantity a store holds, over all its committed rows, and held at first.
Held(s) == MapThenSumSet(LAMBDA k : IF inv[k] = Nil THEN 0 ELSE inv[k].qty,
                         {k \in InvKeys : k[1] = s})
Initially(s) == IF InitStock[s] = Nil THEN 0 ELSE InitStock[s]

\* No store has two rows: what a unique index on (store_id, sku_id) would
\* ensure. The statements alone do not: EnsureTx reads before it inserts.
SingleRow ==
    \A j, k \in InvKeys : inv[j] # Nil /\ inv[k] # Nil /\ j[1] = k[1] => j = k
=============================================================================
