------------------------------ MODULE MasterData ------------------------------
(***************************************************************************)
(* SKUs, stores and users (sku_service.go, store_service.go,               *)
(* user_service.go and their repositories). One action per SQL statement;  *)
(* a request that is one statement is one action without a session. Each   *)
(* statement commits by itself.                                            *)
(*                                                                         *)
(* An update reads the row, with the row its foreign key refers to, and    *)
(* saves every column later. gorm's Save (external) first inserts that     *)
(* second row where it is missing and points the foreign key at it; and    *)
(* where its UPDATE finds no row, it inserts one.                          *)
(*                                                                         *)
(* A row keeps its unique column (code, or username) and its foreign key   *)
(* (a store's manager, a user's store). The other columns are saved like   *)
(* the code and are left out.                                              *)
(***************************************************************************)
EXTENDS Naturals

CONSTANTS
    Sessions,   \* the requests in flight
    Codes,      \* the codes of SKUs and stores
    Usernames,
    Nil,        \* no row, no reference; in a request, an empty field
    Room,       \* Room[t]: how many ids table t may hand out
    IdBound,    \* the largest id
    BatchSize,  \* how many rows an import has
    Stocked     \* the pairs <<store, SKU>> that may get an inventory row

ASSUME MasterAssumption ==
    /\ IdBound \in Nat /\ BatchSize \in Nat
    /\ Room \in [{"skus", "stores", "users"} -> 0..IdBound]
    /\ Nil \notin Codes \cup Usernames /\ Nil \notin Nat

Tables == {"skus", "stores", "users"}
Ids    == 1..IdBound

\* The table that the foreign key of t refers to; skus have none.
Referred(t) == IF t = "users" THEN "stores" ELSE "users"

Row == [code : Codes \cup Usernames, ref : Ids \cup {Nil}]

ASSUME NilRowAssumption == Nil \notin Row

\* What an update knows: its row as read, the fields the client sent, and the
\* row preloaded with it.
Edit == [table : Tables, id : Ids, read : Row,
         ask : [code : Codes \cup {Nil}, ref : Ids \cup {Nil}], kin : Row \cup {Nil}]

ASSUME NilEditAssumption == Nil \notin Edit

VARIABLES
    rows,    \* rows[t][i]: row i of table t, or Nil
    next,    \* next[t]: the id that t's sequence hands out next
    stock,   \* the inventory rows, by their foreign keys <<store, SKU>>
    pc,      \* pc[c]: the statement session c executes next
    work     \* work[c]: the Edit of an update, the row of a store to be
             \* inserted, or Nil

masterVars == <<rows, next, stock, pc, work>>

MasterTypeOK ==
    /\ rows \in [Tables -> [Ids -> Row \cup {Nil}]]
    /\ next \in [Tables -> 1..(IdBound + 1)]
    /\ stock \subseteq Ids \X Ids
    /\ pc \in [Sessions -> {"idle", "insert", "preload", "save", "reinsert"}]
    /\ work \in [Sessions -> Edit \cup Row \cup {Nil}]
    /\ \A c \in Sessions :
          /\ pc[c] = "insert" => work[c] \in Row
          /\ pc[c] \in {"preload", "save", "reinsert"} => work[c] \in Edit

MasterInit ==
    /\ rows = [t \in Tables |-> [i \in Ids |-> Nil]]
    /\ next = [t \in Tables |-> 1]
    /\ stock = {}
    /\ pc = [c \in Sessions |-> "idle"]
    /\ work = [c \in Sessions |-> Nil]

-----------------------------------------------------------------------------
\* A row of t other than row i has the code.
Taken(db, t, i, code) ==
    \E j \in Ids \ {i} : db[t][j] # Nil /\ db[t][j].code = code

\* Without a unique index, the service's own look at the code must do.
BugFits(db, t, i, row) ==
    row.ref # Nil => db[Referred(t)][row.ref] # Nil

\* The unique index and the foreign key let the row be stored.
Fits(db, t, i, row) ==
    /\ ~Taken(db, t, i, row.code)
    /\ row.ref # Nil => db[Referred(t)][row.ref] # Nil

Put(db, t, i, row) == [db EXCEPT ![t][i] = row]

\* INSERT with an id of the sequence.
Insert(t, row) ==
    /\ next[t] <= Room[t]
    /\ Fits(rows, t, next[t], row)
    /\ rows' = Put(rows, t, next[t], row)
    /\ next' = [next EXCEPT ![t] = @ + 1]
    /\ stock' = stock

Go(c, label, w) ==
    /\ pc' = [pc EXCEPT ![c] = label]
    /\ work' = [work EXCEPT ![c] = w]

Done(c) == Go(c, "idle", Nil)

-----------------------------------------------------------------------------
\* SKU Create and Register: the INSERT is the request.
CreateSKU(code) == Insert("skus", [code |-> code, ref |-> Nil]) /\ UNCHANGED <<pc, work>>

Register(username, store) ==
    Insert("users", [code |-> username, ref |-> store]) /\ UNCHANGED <<pc, work>>

\* BatchImport: one INSERT of all rows.
BatchImport(codes) ==
    LET first == next["skus"]
    IN  /\ first + BatchSize <= Room["skus"] + 1
        /\ \A n \in 1..BatchSize :
              /\ ~Taken(rows, "skus", first, codes[n])
              /\ \A m \in 1..BatchSize : m # n => codes[m] # codes[n]
        /\ rows' = [rows EXCEPT !["skus"] =
                       [i \in Ids |-> IF i \in first..(first + BatchSize - 1)
                                      THEN [code |-> codes[i - first + 1], ref |-> Nil]
                                      ELSE rows["skus"][i]]]
        /\ next' = [next EXCEPT !["skus"] = first + BatchSize]
        /\ UNCHANGED <<stock, pc, work>>

\* Store Create looks for the code and inserts in a second statement.
CreateStore(c, code, manager) ==
    /\ pc[c] = "idle"
    /\ ~Taken(rows, "stores", next["stores"], code)
    /\ Go(c, "insert", [code |-> code, ref |-> manager])
    /\ UNCHANGED <<rows, next, stock>>

StoreInsert(c) ==
    /\ pc[c] = "insert"
    /\ Insert("stores", work[c])
    /\ Done(c)

-----------------------------------------------------------------------------
\* A missing row is built from the request.
BugUpdate(c, t, i, ask) ==
    /\ pc[c] = "idle"
    /\ t = "skus" => ask.ref = Nil
    /\ t = "users" => ask.code = Nil
    /\ LET read == IF rows[t][i] # Nil \/ ask.code = Nil THEN rows[t][i]
                   ELSE [code |-> ask.code, ref |-> Nil]
       IN  /\ read # Nil
           /\ Go(c, IF read.ref = Nil THEN "save" ELSE "preload",
                 [table |-> t, id |-> i, read |-> read, ask |-> ask, kin |-> Nil])
    /\ UNCHANGED <<rows, next, stock>>

\* FindByID of an update; a missing row is ErrNotFound. A username cannot be
\* changed, and a SKU has no foreign key.
Update(c, t, i, ask) ==
    /\ pc[c] = "idle"
    /\ rows[t][i] # Nil
    /\ t = "skus" => ask.ref = Nil
    /\ t = "users" => ask.code = Nil
    /\ Go(c, IF rows[t][i].ref = Nil THEN "save" ELSE "preload",
          [table |-> t, id |-> i, read |-> rows[t][i], ask |-> ask, kin |-> Nil])
    /\ UNCHANGED <<rows, next, stock>>

\* Preload: the second SELECT of FindByID.
Preload(c) ==
    /\ pc[c] = "preload"
    /\ Go(c, "save", [work[c] EXCEPT !.kin = rows[Referred(work[c].table)][work[c].read.ref]])
    /\ UNCHANGED <<rows, next, stock>>

\* The code of the request is taken even when it is empty.
BugMerged(w) ==
    [code |-> w.ask.code,
     ref |-> IF w.ask.ref = Nil \/ w.kin # Nil THEN w.read.ref ELSE w.ask.ref]

\* The fields that are not empty replace those read; the foreign key follows
\* the preloaded row, if there is one.
Merged(w) ==
    [code |-> IF w.ask.code = Nil THEN w.read.code ELSE w.ask.code,
     ref |-> IF w.ask.ref = Nil \/ w.kin # Nil THEN w.read.ref ELSE w.ask.ref]

\* Save inserts the preloaded row unless its id or code is there.
Restored(w) ==
    IF /\ w.kin # Nil
       /\ rows[Referred(w.table)][w.read.ref] = Nil
       /\ ~Taken(rows, Referred(w.table), w.read.ref, w.kin.code)
    THEN Put(rows, Referred(w.table), w.read.ref, w.kin)
    ELSE rows

\* The UPDATE of every column of the row, in a transaction with that INSERT.
Save(c) ==
    /\ pc[c] = "save"
    /\ LET w == work[c]
       IN  \/ /\ rows[w.table][w.id] # Nil
              /\ Fits(Restored(w), w.table, w.id, Merged(w))
              /\ rows' = Put(Restored(w), w.table, w.id, Merged(w))
              /\ Done(c)
           \/ /\ rows[w.table][w.id] = Nil
              /\ rows' = Restored(w)
              /\ Go(c, "reinsert", w)
    /\ UNCHANGED <<next, stock>>

\* INSERT ... ON CONFLICT (id) DO UPDATE, where the UPDATE found no row.
Reinsert(c) ==
    /\ pc[c] = "reinsert"
    /\ LET w == work[c]
       IN  /\ Fits(Restored(w), w.table, w.id, Merged(w))
           /\ rows' = Put(Restored(w), w.table, w.id, Merged(w))
    /\ Done(c)
    /\ UNCHANGED <<next, stock>>

\* A statement is refused by an index or a foreign key, or fails otherwise.
Fail(c) ==
    /\ pc[c] # "idle"
    /\ Done(c)
    /\ UNCHANGED <<rows, next, stock>>

-----------------------------------------------------------------------------
\* Stores are checked against the inventory, and users are forgotten.
BugDeletable(t, i) == \A k \in stock : k[IF t = "stores" THEN 1 ELSE 2] # i

\* No row refers to row i of t.
Deletable(t, i) ==
    /\ \A k \in stock : k[IF t = "stores" THEN 1 ELSE 2] # i
    /\ t = "stores" => \A u \in Ids : rows["users"][u] # Nil => rows["users"][u].ref # i

\* Delete: SKUs and stores only; a missing row is ErrNotFound.
Delete(t, i) ==
    /\ t \in {"skus", "stores"}
    /\ rows[t][i] # Nil
    /\ Deletable(t, i)
    /\ rows' = Put(rows, t, i, Nil)
    /\ UNCHANGED <<next, stock, pc, work>>

\* Somebody inserts a row for the SKU in the store, which is never deleted.
Ensure(s, k) ==
    /\ rows["stores"][s] # Nil
    /\ rows["skus"][k] # Nil
    /\ <<s, k>> \in Stocked
    /\ stock' = stock \cup {<<s, k>>}
    /\ UNCHANGED <<rows, next, pc, work>>

-----------------------------------------------------------------------------
\* The references a request for t may name. (An id that the sequence has not
\* handed out only fails.)
Refs(t) == 1..Room[Referred(t)] \cup {Nil}

MasterNext ==
    \/ \E code \in Codes : CreateSKU(code)
    \/ \E username \in Usernames, r \in Refs("users") : Register(username, r)
    \/ \E codes \in [1..BatchSize -> Codes] : BatchImport(codes)
    \/ \E t \in Tables, i \in Ids : Delete(t, i)
    \/ \E s, k \in Ids : Ensure(s, k)
    \/ \E c \in Sessions :
          \/ \E code \in Codes, r \in Refs("stores") : CreateStore(c, code, r)
          \/ StoreInsert(c)
          \/ \E t \in Tables, i \in Ids, code \in Codes \cup {Nil} :
                \E r \in Refs(t) : Update(c, t, i, [code |-> code, ref |-> r])
          \/ Preload(c) \/ Save(c) \/ Reinsert(c) \/ Fail(c)

MasterSpec == MasterInit /\ [][MasterNext]_masterVars

-----------------------------------------------------------------------------
\* No two rows of a table share a code, though stores are looked up and then
\* inserted, edits bring codes back that were given up since, and a deleted row
\* returns when its code may have a new owner.
CodesDistinct ==
    \A t \in Tables, i, j \in Ids :
        /\ rows[t][i] # Nil
        /\ rows[t][j] # Nil
        /\ rows[t][i].code = rows[t][j].code
        => i = j

\* What a row refers to is there: no order of deletions, saves of rows read
\* before a deletion, and new references leaves a reference dangling.
ReferencesHold ==
    /\ \A t \in {"stores", "users"}, i \in Ids :
          rows[t][i] # Nil /\ rows[t][i].ref # Nil => rows[Referred(t)][rows[t][i].ref] # Nil
    /\ \A k \in stock : rows["stores"][k[1]] # Nil /\ rows["skus"][k[2]] # Nil

\* Row i of t was there and has been deleted.
Gone(t, i) == i < next[t] /\ rows[t][i] = Nil

\* Session c can bring row i of t back: it read it, for itself or as the row
\* that its own row refers to.
Holds(c, t, i) ==
    /\ pc[c] \in {"preload", "save", "reinsert"}
    /\ \/ work[c].table = t /\ work[c].id = i
       \/ work[c].kin # Nil /\ Referred(work[c].table) = t /\ work[c].read.ref = i

\* A deleted row comes back only through a request that read it before: once no
\* such request is in flight, no new one gets hold of the row, and it stays
\* deleted for good.
DeletionSettles ==
    [][\A t \in Tables, i \in Ids :
          Gone(t, i) /\ (\A c \in Sessions : ~Holds(c, t, i))
              => Gone(t, i)' /\ \A c \in Sessions : ~Holds(c, t, i)']_masterVars

\* A code changes only by an update of its row that asked for the new code, or
\* that read the row before the code was last changed: an update that saw the
\* current code and does not mention it leaves it alone.
UnaskedChangeIsStale ==
    [][\A t \in Tables, i \in Ids :
          /\ rows[t][i] # Nil
          /\ rows'[t][i] # Nil
          /\ rows'[t][i].code # rows[t][i].code
          => \E c \in Sessions :
                /\ Holds(c, t, i)
                /\ work[c].table = t
                /\ \/ work[c].ask.code # Nil /\ work[c].ask.code = rows'[t][i].code
                   \/ work[c].read.code # rows[t][i].code]_masterVars
=============================================================================
