--------------------------- MODULE MasterDataProof ---------------------------
(***************************************************************************)
(* Proofs about MasterData. The invariant adds to the promises what an     *)
(* update knows about the row preloaded with its own: users are never      *)
(* deleted, so neither a preloaded manager nor the manager of a preloaded  *)
(* store is missing when the row is inserted again.                        *)
(***************************************************************************)
EXTENDS MasterData, TLAPS

Editing(c) == pc[c] \in {"preload", "save", "reinsert"}

\* The tables hold rows, with distinct codes, that refer to rows of the tables.
DbInv(db) ==
    /\ db \in [Tables -> [Ids -> Row \cup {Nil}]]
    /\ \A t \in Tables, i, j \in Ids :
          db[t][i] # Nil /\ db[t][j] # Nil /\ db[t][i].code = db[t][j].code => i = j
    /\ \A t \in {"stores", "users"}, i \in Ids :
          db[t][i] # Nil /\ db[t][i].ref # Nil => db[Referred(t)][db[t][i].ref] # Nil
    /\ \A i \in Ids : db["skus"][i] # Nil => db["skus"][i].ref = Nil

\* What holds of the Edit w of a session at label l.
EditInv(l, w, users, nx) ==
    /\ w \in Edit
    /\ w.id < nx[w.table]
    /\ w.table = "skus" => w.read.ref = Nil /\ w.ask.ref = Nil
    /\ l = "preload" => w.read.ref # Nil
    /\ w.kin # Nil =>
          /\ w.read.ref # Nil
          /\ w.read.ref < nx[Referred(w.table)]
          /\ w.table = "stores" => users[w.read.ref] # Nil
          /\ w.table = "users" /\ w.kin.ref # Nil => users[w.kin.ref] # Nil

StockInv(db) == \A k \in stock : db["stores"][k[1]] # Nil /\ db["skus"][k[2]] # Nil

\* The ids not handed out yet name no row.
FreshInv == \A t \in Tables, i \in Ids : i >= next[t] => rows[t][i] = Nil

EditsInv == \A c \in Sessions : Editing(c) => EditInv(pc[c], work[c], rows["users"], next)

MasterInv == MasterTypeOK /\ DbInv(rows) /\ FreshInv /\ StockInv(rows) /\ EditsInv

\* A step loses no user and takes no id back.
Grows ==
    /\ next' \in [Tables -> 1..(IdBound + 1)]
    /\ \A t \in Tables : next[t] <= next'[t]
    /\ \A i \in Ids : rows["users"][i] # Nil => rows'["users"][i] # Nil

USE MasterAssumption, NilRowAssumption, NilEditAssumption

\* Storing a row that fits keeps the tables in order and loses no row.
LEMMA PutFits ==
    ASSUME NEW db, DbInv(db), NEW t \in Tables, NEW i \in Ids, NEW row \in Row,
           Fits(db, t, i, row), t = "skus" => row.ref = Nil
    PROVE  /\ DbInv(Put(db, t, i, row))
           /\ Put(db, t, i, row)[t][i] = row
           /\ \A s \in Tables, j \in Ids :
                 s # t \/ j # i => Put(db, t, i, row)[s][j] = db[s][j]
  <1> DEFINE new == Put(db, t, i, row)
  <1>1. new \in [Tables -> [Ids -> Row \cup {Nil}]]
    BY DEF DbInv, Put
  <1>2. new[t][i] = row
    BY DEF DbInv, Put
  <1>3. \A s \in Tables, j \in Ids : s # t \/ j # i => new[s][j] = db[s][j]
    BY DEF DbInv, Put
  <1> HIDE DEF new
  <1>4. \A s \in Tables, j \in Ids : db[s][j] # Nil => new[s][j] # Nil
    BY <1>2, <1>3
  <1>5. \A s \in Tables, j, k \in Ids :
           new[s][j] # Nil /\ new[s][k] # Nil /\ new[s][j].code = new[s][k].code => j = k
    BY <1>2, <1>3 DEF DbInv, Fits, Taken
  <1>6. \A s \in {"stores", "users"}, j \in Ids :
           new[s][j] # Nil /\ new[s][j].ref # Nil => new[Referred(s)][new[s][j].ref] # Nil
    BY <1>2, <1>3, <1>4 DEF DbInv, Fits, Referred, Tables, Row
  <1>7. \A j \in Ids : new["skus"][j] # Nil => new["skus"][j].ref = Nil
    BY <1>2, <1>3 DEF DbInv, Tables
  <1> QED
    BY <1>1, <1>2, <1>3, <1>5, <1>6, <1>7 DEF DbInv, new

\* So does an import, which takes ids that are free.
LEMMA ImportFits ==
    ASSUME MasterTypeOK, DbInv(rows), NEW codes \in [1..BatchSize -> Codes],
           BatchImport(codes), FreshInv
    PROVE  /\ DbInv(rows')
           /\ FreshInv'
           /\ next' \in [Tables -> 1..(IdBound + 1)]
           /\ \A s \in Tables, j \in Ids : j < next[s] => rows'[s][j] = rows[s][j]
           /\ \A s \in Tables : next[s] <= next'[s]
  <1> DEFINE first == next["skus"]
  <1> DEFINE new == first..(first + BatchSize - 1)
  <1>1. /\ first \in 1..(IdBound + 1)
        /\ first + BatchSize <= IdBound + 1
    BY DEF MasterTypeOK, Tables, BatchImport
  <1>2. \A i \in Ids : i \in new => i - first + 1 \in 1..BatchSize
    BY <1>1 DEF Ids
  <1>3. \A s \in Tables, j \in Ids :
           rows'[s][j] = IF s = "skus" /\ j \in new
                         THEN [code |-> codes[j - first + 1], ref |-> Nil] ELSE rows[s][j]
    BY DEF BatchImport, DbInv, Tables
  <1>3a. ASSUME NEW j \in Ids, j \in new
        PROVE  /\ rows'["skus"][j].code = codes[j - first + 1]
               /\ rows'["skus"][j].ref = Nil
    <2>1. rows'["skus"][j] = [code |-> codes[j - first + 1], ref |-> Nil]
      BY <1>3a, <1>3 DEF Tables
    <2> QED
      BY <2>1
  <1>3b. \A s \in Tables, j \in Ids : s # "skus" \/ j \notin new => rows'[s][j] = rows[s][j]
    BY <1>3
  <1> HIDE DEF new
  <1>4. rows' \in [Tables -> [Ids -> Row \cup {Nil}]]
    <2>1. \A i \in Ids : i \in new => [code |-> codes[i - first + 1], ref |-> Nil] \in Row
      BY <1>2 DEF Row
    <2>2. [i \in Ids |-> IF i \in new THEN [code |-> codes[i - first + 1], ref |-> Nil]
                         ELSE rows["skus"][i]] \in [Ids -> Row \cup {Nil}]
      BY <2>1 DEF DbInv, Tables
    <2> QED
      BY <2>2 DEF BatchImport, DbInv, new
  <1>5. \A j \in Ids : j \in new => rows["skus"][j] = Nil
    BY <1>1 DEF FreshInv, Tables, Ids, new
  <1>6. \A s \in Tables, j \in Ids : rows[s][j] # Nil => rows'[s][j] = rows[s][j]
    BY <1>3b, <1>5
  <1>7. \A s \in Tables, i, j \in Ids :
           /\ rows'[s][i] # Nil
           /\ rows'[s][j] # Nil
           /\ rows'[s][i].code = rows'[s][j].code
           => i = j
    <2> SUFFICES ASSUME NEW i \in Ids, NEW j \in Ids, rows'["skus"][i] # Nil,
                        rows'["skus"][j] # Nil,
                        rows'["skus"][i].code = rows'["skus"][j].code
                 PROVE  i = j
      BY <1>3 DEF DbInv, Tables
    <2>1. /\ first \notin Ids \/ rows["skus"][first] = Nil
          /\ \A n \in 1..BatchSize : ~Taken(rows, "skus", first, codes[n])
          /\ \A n, m \in 1..BatchSize : m # n => codes[m] # codes[n]
      BY <1>1 DEF BatchImport, FreshInv, Tables
    <2>2. \A k \in Ids, n \in 1..BatchSize :
             rows["skus"][k] # Nil => rows["skus"][k].code # codes[n]
      BY <2>1 DEF Taken
    <2>3. CASE i \in new /\ j \in new
      <3>1. codes[i - first + 1] = codes[j - first + 1]
        BY <2>3, <1>3a
      <3>2. i - first + 1 = j - first + 1
        BY <3>1, <2>1, <2>3, <1>2
      <3> QED
        BY <3>2, <1>1 DEF Ids
    <2>4. CASE i \in new /\ j \notin new
      BY <2>4, <2>2, <1>2, <1>3a, <1>3b DEF Tables
    <2>5. CASE i \notin new /\ j \in new
      BY <2>5, <2>2, <1>2, <1>3a, <1>3b DEF Tables
    <2>6. CASE i \notin new /\ j \notin new
      BY <2>6, <1>3b DEF Tables, DbInv
    <2> QED
      BY <2>3, <2>4, <2>5, <2>6
  <1>8. \A t \in {"stores", "users"}, i \in Ids :
           rows'[t][i] # Nil /\ rows'[t][i].ref # Nil
               => rows'[Referred(t)][rows'[t][i].ref] # Nil
    BY <1>3 DEF DbInv, Tables, Referred, Row
  <1>9. \A i \in Ids : rows'["skus"][i] # Nil => rows'["skus"][i].ref = Nil
    BY <1>3a, <1>3b DEF DbInv, Tables
  <1>10. /\ next' \in [Tables -> 1..(IdBound + 1)]
         /\ \A s \in Tables : next'[s] = IF s = "skus" THEN first + BatchSize ELSE next[s]
    BY <1>1 DEF BatchImport, MasterTypeOK, Tables
  <1>11. FreshInv'
    <2> SUFFICES ASSUME NEW s \in Tables, NEW j \in Ids, j >= next'[s]
                 PROVE  rows'[s][j] = Nil
      BY DEF FreshInv
    <2>1. CASE s = "skus"
      <3>1. j >= first + BatchSize
        BY <2>1, <1>10
      <3>2. j >= first /\ j \notin new
        BY <3>1, <1>1 DEF Ids, new
      <3> QED
        BY <2>1, <3>2, <1>3 DEF FreshInv, Tables
    <2>2. CASE s # "skus"
      BY <2>2, <1>3, <1>10 DEF FreshInv
    <2> QED
      BY <2>1, <2>2
  <1>12. \A s \in Tables, j \in Ids : j < next[s] => rows'[s][j] = rows[s][j]
    <2> SUFFICES ASSUME NEW j \in Ids, j < next["skus"]
                 PROVE  j \notin new
      BY <1>3
    <2> QED
      BY <1>1 DEF Ids, new
  <1>13. \A s \in Tables : next[s] <= next'[s]
    BY <1>1, <1>10 DEF MasterTypeOK
  <1> QED
    BY <1>4, <1>7, <1>8, <1>9, <1>10, <1>11, <1>12, <1>13 DEF DbInv

\* So does one INSERT.
LEMMA InsertFits ==
    ASSUME MasterInv, NEW t \in Tables, NEW row \in Row, t = "skus" => row.ref = Nil,
           Insert(t, row)
    PROVE  DbInv(rows') /\ FreshInv' /\ StockInv(rows)' /\ Grows
  <1>1. next[t] \in Ids /\ rows[t][next[t]] = Nil
    BY DEF Insert, MasterInv, MasterTypeOK, FreshInv, Ids, Tables
  <1>2. /\ DbInv(rows')
        /\ rows'[t][next[t]] = row
        /\ \A s \in Tables, j \in Ids : s # t \/ j # next[t] => rows'[s][j] = rows[s][j]
    BY <1>1, PutFits DEF Insert, MasterInv
  <1>3. \A s \in Tables, j \in Ids : rows[s][j] # Nil => rows'[s][j] = rows[s][j]
    BY <1>1, <1>2
  <1>4. /\ next' \in [Tables -> 1..(IdBound + 1)]
        /\ \A s \in Tables : next'[s] = IF s = t THEN next[s] + 1 ELSE next[s]
    BY <1>1 DEF Insert, MasterInv, MasterTypeOK, Ids
  <1>5. FreshInv'
    <2> SUFFICES ASSUME NEW s \in Tables, NEW j \in Ids, j >= next'[s]
                 PROVE  rows'[s][j] = Nil
      BY DEF FreshInv
    <2>1. next[s] \in Nat /\ j \in Nat
      BY DEF MasterInv, MasterTypeOK, Ids
    <2>2. j >= next[s] /\ (s # t \/ j # next[t])
      BY <2>1, <1>4
    <2> QED
      BY <2>2, <1>2 DEF FreshInv, MasterInv
  <1>6. StockInv(rows)'
    BY <1>3 DEF Insert, StockInv, MasterInv, MasterTypeOK, Tables
  <1>7. Grows
    BY <1>3, <1>4 DEF Grows, MasterInv, MasterTypeOK, Tables
  <1> QED
    BY <1>2, <1>5, <1>6, <1>7

-----------------------------------------------------------------------------
\* What Save stores is a row, and a SKU's has no foreign key.
LEMMA MergedRow ==
    ASSUME NEW l, NEW w, NEW users, NEW nx, EditInv(l, w, users, nx)
    PROVE  Merged(w) \in Row /\ (w.table = "skus" => Merged(w).ref = Nil)
  BY DEF EditInv, Edit, Merged, Row

\* Inserting the preloaded row again keeps the tables in order. The only row it
\* adds is that one, and users are never added.
LEMMA RestoredFits ==
    ASSUME DbInv(rows), NEW l, NEW w, NEW nx, EditInv(l, w, rows["users"], nx)
    PROVE  /\ DbInv(Restored(w))
           /\ Restored(w)["users"] = rows["users"]
           /\ \A s \in Tables, j \in Ids : rows[s][j] # Nil => Restored(w)[s][j] = rows[s][j]
           /\ \A s \in Tables, j \in Ids :
                 Restored(w)[s][j] # rows[s][j]
                     => w.kin # Nil /\ s = Referred(w.table) /\ j = w.read.ref
  <1>1. CASE Restored(w) = rows
    BY <1>1
  <1>2. CASE Restored(w) # rows
    <2>1. /\ w.kin # Nil
          /\ rows[Referred(w.table)][w.read.ref] = Nil
          /\ ~Taken(rows, Referred(w.table), w.read.ref, w.kin.code)
          /\ Restored(w) = Put(rows, Referred(w.table), w.read.ref, w.kin)
      BY <1>2 DEF Restored
    <2>2. w.table = "users" /\ w.kin \in Row /\ w.read.ref \in Ids
      BY <2>1 DEF EditInv, Edit, Referred, Tables, Row
    <2>3. Fits(rows, "stores", w.read.ref, w.kin)
      BY <2>1, <2>2 DEF EditInv, Fits, Referred
    <2>4. /\ DbInv(Put(rows, "stores", w.read.ref, w.kin))
          /\ \A s \in Tables, j \in Ids :
                s # "stores" \/ j # w.read.ref
                    => Put(rows, "stores", w.read.ref, w.kin)[s][j] = rows[s][j]
      BY <2>2, <2>3, PutFits DEF Tables
    <2>5. Restored(w) = Put(rows, "stores", w.read.ref, w.kin)
      BY <2>1, <2>2 DEF Referred
    <2>6. Restored(w)["users"] = rows["users"]
      BY <2>5, <2>2 DEF Put, DbInv, Tables
    <2> QED
      BY <2>1, <2>2, <2>4, <2>5, <2>6 DEF Referred
  <1> QED
    BY <1>1, <1>2

-----------------------------------------------------------------------------
\* What an update knows stays true while users and ids grow.
LEMMA EditStays ==
    ASSUME MasterInv, Grows, NEW l, NEW w, EditInv(l, w, rows["users"], next)
    PROVE  EditInv(l, w, rows'["users"], next')
  <1>1. w.table \in Tables /\ Referred(w.table) \in Tables /\ w.id \in Ids
    BY DEF EditInv, Edit, Referred, Tables
  <1>2. next[w.table] <= next'[w.table] /\ next[Referred(w.table)] <= next'[Referred(w.table)]
    BY <1>1 DEF Grows
  <1>3. /\ next[w.table] \in Nat /\ next'[w.table] \in Nat
        /\ next[Referred(w.table)] \in Nat /\ next'[Referred(w.table)] \in Nat
    BY <1>1 DEF Grows, MasterInv, MasterTypeOK
  <1>4. w.id < next'[w.table]
    BY <1>1, <1>2, <1>3 DEF EditInv, Ids
  <1>5. ASSUME w.kin # Nil
        PROVE  /\ w.read.ref \in Ids
               /\ w.read.ref < next'[Referred(w.table)]
               /\ w.table = "stores" => rows'["users"][w.read.ref] # Nil
               /\ w.table = "users" /\ w.kin.ref # Nil => rows'["users"][w.kin.ref] # Nil
    <2>1. w.read.ref \in Ids /\ w.read.ref < next[Referred(w.table)]
      BY <1>5 DEF EditInv, Edit, Row
    <2>2. w.kin.ref # Nil => w.kin.ref \in Ids
      BY <1>5 DEF EditInv, Edit, Row
    <2>3. w.read.ref < next'[Referred(w.table)]
      BY <2>1, <1>2, <1>3 DEF Ids
    <2> QED
      BY <1>5, <2>1, <2>2, <2>3 DEF EditInv, Grows
  <1> QED
    BY <1>4, <1>5 DEF EditInv

\* The sessions' part of the invariant, where no session moves.
LEMMA SessionsStay ==
    ASSUME MasterInv, Grows, UNCHANGED <<pc, work>>
    PROVE  EditsInv'
  BY EditStays DEF EditsInv, MasterInv, Editing

\* The sessions' part of the invariant, where session c moves.
LEMMA SessionGoes ==
    ASSUME MasterInv, Grows, NEW c \in Sessions, NEW l, NEW w, Go(c, l, w),
           l \in {"idle", "insert", "preload", "save", "reinsert"},
           w \in Edit \cup Row \cup {Nil},
           l = "insert" => w \in Row,
           l \in {"preload", "save", "reinsert"} => EditInv(l, w, rows'["users"], next')
    PROVE  /\ pc' \in [Sessions -> {"idle", "insert", "preload", "save", "reinsert"}]
           /\ work' \in [Sessions -> Edit \cup Row \cup {Nil}]
           /\ \A d \in Sessions :
                 /\ pc'[d] = "insert" => work'[d] \in Row
                 /\ pc'[d] \in {"preload", "save", "reinsert"} => work'[d] \in Edit
           /\ EditsInv'
  <1>1. /\ pc' = [pc EXCEPT ![c] = l]
        /\ work' = [work EXCEPT ![c] = w]
        /\ pc \in [Sessions -> {"idle", "insert", "preload", "save", "reinsert"}]
        /\ work \in [Sessions -> Edit \cup Row \cup {Nil}]
    BY DEF Go, MasterInv, MasterTypeOK
  <1>2. /\ pc' \in [Sessions -> {"idle", "insert", "preload", "save", "reinsert"}]
        /\ work' \in [Sessions -> Edit \cup Row \cup {Nil}]
        /\ pc'[c] = l /\ work'[c] = w
        /\ \A d \in Sessions : d # c => pc'[d] = pc[d] /\ work'[d] = work[d]
    BY <1>1
  <1>3. EditsInv'
    BY <1>2, EditStays DEF EditsInv, MasterInv, Editing
  <1>4. \A d \in Sessions : pc'[d] = "insert" => work'[d] \in Row
    BY <1>2 DEF MasterInv, MasterTypeOK
  <1>5. \A d \in Sessions : pc'[d] \in {"preload", "save", "reinsert"} => work'[d] \in Edit
    BY <1>3 DEF EditsInv, Editing, EditInv
  <1> QED
    BY <1>2, <1>3, <1>4, <1>5

\* Writing some ids below next, and no Nil, keeps what depends on the tables.
LEMMA WritesKeep ==
    ASSUME MasterInv, UNCHANGED <<next, stock>>,
           \A s \in Tables, j \in Ids : rows[s][j] # Nil => rows'[s][j] # Nil,
           \A s \in Tables, j \in Ids : rows'[s][j] # rows[s][j] => j < next[s]
    PROVE  FreshInv' /\ StockInv(rows)' /\ Grows
  <1>1. FreshInv'
    <2> SUFFICES ASSUME NEW s \in Tables, NEW j \in Ids, j >= next[s]
                 PROVE  rows'[s][j] = Nil
      BY DEF FreshInv
    <2>1. next[s] \in Nat /\ j \in Nat
      BY DEF MasterInv, MasterTypeOK, Ids
    <2> QED
      BY <2>1 DEF MasterInv, FreshInv
  <1>2. StockInv(rows)'
    BY DEF StockInv, MasterInv, MasterTypeOK, Tables
  <1>3. Grows
    BY DEF Grows, MasterInv, MasterTypeOK, Tables
  <1> QED
    BY <1>1, <1>2, <1>3

\* Saving the merged row, with the preloaded one inserted first.
LEMMA SaveFits ==
    ASSUME MasterInv, UNCHANGED <<next, stock>>, NEW l, NEW w,
           EditInv(l, w, rows["users"], next),
           \/ rows' = Restored(w)
           \/ /\ Fits(Restored(w), w.table, w.id, Merged(w))
              /\ rows' = Put(Restored(w), w.table, w.id, Merged(w))
    PROVE  /\ DbInv(rows') /\ FreshInv' /\ StockInv(rows)' /\ Grows
           /\ \A s \in Tables, j \in Ids :
                 rows'[s][j] # rows[s][j]
                     => \/ s = w.table /\ j = w.id
                        \/ w.kin # Nil /\ s = Referred(w.table) /\ j = w.read.ref
  <1> DEFINE db == Restored(w)
  <1>1. /\ DbInv(db)
        /\ \A s \in Tables, j \in Ids : rows[s][j] # Nil => db[s][j] = rows[s][j]
        /\ \A s \in Tables, j \in Ids :
              db[s][j] # rows[s][j]
                  => w.kin # Nil /\ s = Referred(w.table) /\ j = w.read.ref
    BY RestoredFits DEF MasterInv
  <1>2. /\ w.table \in Tables /\ w.id \in Ids
        /\ Merged(w) \in Row /\ Merged(w) # Nil
        /\ w.table = "skus" => Merged(w).ref = Nil
    BY MergedRow DEF EditInv, Edit
  <1> HIDE DEF db
  <1>3. /\ DbInv(rows')
        /\ \A s \in Tables, j \in Ids : rows[s][j] # Nil => rows'[s][j] # Nil
        /\ \A s \in Tables, j \in Ids :
              rows'[s][j] # rows[s][j]
                  => \/ s = w.table /\ j = w.id
                     \/ w.kin # Nil /\ s = Referred(w.table) /\ j = w.read.ref
    <2>1. CASE rows' = db
      BY <2>1, <1>1
    <2>2. CASE /\ Fits(db, w.table, w.id, Merged(w))
               /\ rows' = Put(db, w.table, w.id, Merged(w))
      <3>1. /\ DbInv(rows')
            /\ rows'[w.table][w.id] = Merged(w)
            /\ \A s \in Tables, j \in Ids :
                  s # w.table \/ j # w.id => rows'[s][j] = db[s][j]
        BY <2>2, <1>1, <1>2, PutFits
      <3> QED
        BY <3>1, <1>1, <1>2
    <2> QED
      BY <2>1, <2>2 DEF db
  <1>4. \A s \in Tables, j \in Ids : rows'[s][j] # rows[s][j] => j < next[s]
    BY <1>3 DEF EditInv
  <1> QED
    BY <1>3, <1>4, WritesKeep

-----------------------------------------------------------------------------
\* Deleting a row that nothing refers to keeps every reference.
LEMMA DeleteKeeps ==
    ASSUME MasterInv, NEW t \in {"skus", "stores"}, NEW i \in Ids, Delete(t, i)
    PROVE  DbInv(rows') /\ FreshInv' /\ StockInv(rows)' /\ Grows
  <1>1. /\ rows' \in [Tables -> [Ids -> Row \cup {Nil}]]
        /\ rows'[t][i] = Nil
        /\ \A s \in Tables, j \in Ids : s # t \/ j # i => rows'[s][j] = rows[s][j]
    BY DEF Delete, Put, MasterInv, DbInv, Tables
  <1>2. \A s \in Tables, j, k \in Ids :
           rows'[s][j] # Nil /\ rows'[s][k] # Nil /\ rows'[s][j].code = rows'[s][k].code => j = k
    BY <1>1 DEF MasterInv, DbInv
  <1>3. \A s \in {"stores", "users"}, j \in Ids :
           rows'[s][j] # Nil /\ rows'[s][j].ref # Nil
               => rows'[Referred(s)][rows'[s][j].ref] # Nil
    <2> SUFFICES ASSUME NEW s \in {"stores", "users"}, NEW j \in Ids,
                        rows'[s][j] # Nil, rows'[s][j].ref # Nil
                 PROVE  rows'[Referred(s)][rows'[s][j].ref] # Nil
      OBVIOUS
    <2>1. /\ rows'[s][j] = rows[s][j]
          /\ rows[s][j].ref \in Ids
          /\ rows[Referred(s)][rows[s][j].ref] # Nil
      BY <1>1 DEF MasterInv, DbInv, Tables, Row
    <2>2. ~(t = Referred(s) /\ i = rows[s][j].ref)
      BY <2>1, <1>1 DEF Delete, Deletable, Referred
    <2> QED
      BY <2>1, <2>2, <1>1 DEF Referred, Tables
  <1>4. \A j \in Ids : rows'["skus"][j] # Nil => rows'["skus"][j].ref = Nil
    BY <1>1 DEF MasterInv, DbInv, Tables
  <1>5. FreshInv'
    BY <1>1 DEF Delete, FreshInv, MasterInv
  <1>6. StockInv(rows)'
    <2> SUFFICES ASSUME NEW k \in stock
                 PROVE  rows'["stores"][k[1]] # Nil /\ rows'["skus"][k[2]] # Nil
      BY DEF Delete, StockInv
    <2>1. /\ k[1] \in Ids /\ k[2] \in Ids
          /\ rows["stores"][k[1]] # Nil /\ rows["skus"][k[2]] # Nil
      BY DEF MasterInv, MasterTypeOK, StockInv
    <2>2. (t = "stores" => k[1] # i) /\ (t = "skus" => k[2] # i)
      BY DEF Delete, Deletable
    <2> QED
      BY <2>1, <2>2, <1>1 DEF Tables
  <1>7. Grows
    BY <1>1 DEF Delete, Grows, MasterInv, MasterTypeOK, Tables
  <1> QED
    BY <1>1, <1>2, <1>3, <1>4, <1>5, <1>6, <1>7 DEF DbInv

\* What Update reads is an Edit.
LEMMA UpdateReads ==
    ASSUME MasterInv, NEW c \in Sessions, NEW t \in Tables, NEW i \in Ids,
           NEW code \in Codes \cup {Nil}, NEW r \in Refs(t),
           Update(c, t, i, [code |-> code, ref |-> r])
    PROVE  LET l == IF rows[t][i].ref = Nil THEN "save" ELSE "preload"
               w == [table |-> t, id |-> i, read |-> rows[t][i],
                     ask |-> [code |-> code, ref |-> r], kin |-> Nil]
           IN  Go(c, l, w) /\ w \in Edit /\ EditInv(l, w, rows["users"], next)
  <1> DEFINE l == IF rows[t][i].ref = Nil THEN "save" ELSE "preload"
             w == [table |-> t, id |-> i, read |-> rows[t][i],
                   ask |-> [code |-> code, ref |-> r], kin |-> Nil]
  <1>1. Go(c, l, w) /\ rows[t][i] # Nil /\ (t = "skus" => r = Nil)
    BY DEF Update
  <1>2. r \in Ids \cup {Nil}
    BY DEF Refs, Referred, Ids
  <1>3. rows[t][i] \in Row
    BY <1>1 DEF MasterInv, MasterTypeOK
  <1>4. w \in Edit
    BY <1>2, <1>3 DEF Edit
  <1>5. i < next[t]
    BY <1>1 DEF MasterInv, FreshInv, MasterTypeOK, Ids
  <1>6. EditInv(l, w, rows["users"], next)
    BY <1>1, <1>4, <1>5 DEF EditInv, MasterInv, DbInv
  <1> QED
    BY <1>1, <1>4, <1>6

\* What Preload adds to it is there now.
LEMMA PreloadReads ==
    ASSUME MasterInv, NEW c \in Sessions, Preload(c)
    PROVE  LET w == [work[c] EXCEPT !.kin = rows[Referred(work[c].table)][work[c].read.ref]]
           IN  Go(c, "save", w) /\ w \in Edit /\ EditInv("save", w, rows["users"], next)
  <1> DEFINE t == Referred(work[c].table)
             r == work[c].read.ref
             w == [work[c] EXCEPT !.kin = rows[t][r]]
  <1>1. Go(c, "save", w) /\ EditInv("preload", work[c], rows["users"], next)
    BY DEF Preload, MasterInv, EditsInv, Editing
  <1>2. r # Nil /\ r \in Ids /\ work[c].table # "skus" /\ t \in Tables
    BY <1>1 DEF EditInv, Edit, Row, Referred, Tables
  <1>3. rows[t][r] \in Row \cup {Nil}
    BY <1>2 DEF MasterInv, MasterTypeOK
  <1>4. /\ w \in Edit
        /\ w.table = work[c].table /\ w.id = work[c].id /\ w.read = work[c].read
        /\ w.ask = work[c].ask /\ w.kin = rows[t][r]
    BY <1>1, <1>3 DEF EditInv, Edit
  <1>5. rows[t][r] # Nil => r < next[t]
    BY <1>2 DEF MasterInv, FreshInv, MasterTypeOK, Ids
  <1>6. work[c].table = "stores" => t = "users"
    BY DEF Referred
  <1>7. work[c].table = "users" /\ rows[t][r] # Nil /\ rows[t][r].ref # Nil
            => rows["users"][rows[t][r].ref] # Nil
    BY <1>2 DEF Referred, MasterInv, DbInv
  <1>8. EditInv("save", w, rows["users"], next)
    BY <1>1, <1>2, <1>4, <1>5, <1>6, <1>7 DEF EditInv
  <1> QED
    BY <1>1, <1>4, <1>8

-----------------------------------------------------------------------------
\* The invariant from its parts.
LEMMA InvFromParts ==
    ASSUME DbInv(rows'), FreshInv', StockInv(rows)', Grows, EditsInv',
           stock' \subseteq Ids \X Ids,
           pc' \in [Sessions -> {"idle", "insert", "preload", "save", "reinsert"}],
           work' \in [Sessions -> Edit \cup Row \cup {Nil}],
           \A d \in Sessions :
              /\ pc'[d] = "insert" => work'[d] \in Row
              /\ pc'[d] \in {"preload", "save", "reinsert"} => work'[d] \in Edit
    PROVE  MasterInv'
  BY DEF MasterInv, MasterTypeOK, DbInv, Grows

\* The invariant after an action that moves no session.
LEMMA RequestStep ==
    ASSUME MasterInv, DbInv(rows'), FreshInv', StockInv(rows)', Grows, UNCHANGED <<pc, work>>,
           stock' \subseteq Ids \X Ids
    PROVE  MasterInv'
  BY SessionsStay, InvFromParts DEF MasterInv, MasterTypeOK

\* The invariant after an action of session c.
LEMMA SessionStep ==
    ASSUME MasterInv, DbInv(rows'), FreshInv', StockInv(rows)', Grows, stock' = stock,
           NEW c \in Sessions, NEW l, NEW w, Go(c, l, w),
           l \in {"idle", "insert", "preload", "save", "reinsert"},
           w \in Edit \cup Row \cup {Nil},
           l = "insert" => w \in Row,
           l \in {"preload", "save", "reinsert"} => EditInv(l, w, rows'["users"], next')
    PROVE  MasterInv'
  <1>1. stock' \subseteq Ids \X Ids
    BY DEF MasterInv, MasterTypeOK
  <1> QED
    BY <1>1, SessionGoes, InvFromParts

LEMMA MasterStarts == MasterInit => MasterInv
  <1> SUFFICES ASSUME MasterInit
               PROVE  MasterInv
    OBVIOUS
  <1>1. MasterTypeOK
    BY DEF MasterInit, MasterTypeOK, Tables
  <1>2. \A t \in Tables, i \in Ids : rows[t][i] = Nil
    BY DEF MasterInit
  <1>3. DbInv(rows) /\ FreshInv
    BY <1>1, <1>2 DEF DbInv, FreshInv, MasterTypeOK, Tables
  <1>4. StockInv(rows) /\ EditsInv
    BY DEF MasterInit, StockInv, EditsInv, Editing
  <1> QED
    BY <1>1, <1>3, <1>4 DEF MasterInv

LEMMA MasterStep == MasterInv /\ [MasterNext]_masterVars => MasterInv'
  <1> SUFFICES ASSUME MasterInv, [MasterNext]_masterVars
               PROVE  MasterInv'
    OBVIOUS
  <1>0. ASSUME rows' = rows, next' = next
        PROVE  DbInv(rows') /\ FreshInv' /\ Grows /\ (stock' = stock => StockInv(rows)')
    BY <1>0 DEF MasterInv, MasterTypeOK, FreshInv, StockInv, Grows
  <1>1. ASSUME NEW code \in Codes, CreateSKU(code)
        PROVE  MasterInv'
    <2>1. [code |-> code, ref |-> Nil] \in Row
      BY DEF Row
    <2> QED
      BY <1>1, <2>1, InsertFits, RequestStep
      DEF CreateSKU, Insert, MasterInv, MasterTypeOK, Tables
  <1>2. ASSUME NEW name \in Usernames, NEW r \in Refs("users"), Register(name, r)
        PROVE  MasterInv'
    <2>1. [code |-> name, ref |-> r] \in Row
      BY DEF Row, Refs, Referred, Ids
    <2> QED
      BY <1>2, <2>1, InsertFits, RequestStep
      DEF Register, Insert, MasterInv, MasterTypeOK, Tables
  <1>3. ASSUME NEW codes \in [1..BatchSize -> Codes], BatchImport(codes)
        PROVE  MasterInv'
    <2>1. /\ DbInv(rows') /\ FreshInv' /\ next' \in [Tables -> 1..(IdBound + 1)]
          /\ \A s \in Tables, j \in Ids : j < next[s] => rows'[s][j] = rows[s][j]
          /\ \A s \in Tables : next[s] <= next'[s]
      BY <1>3, ImportFits DEF MasterInv
    <2>2. \A s \in Tables, j \in Ids : rows[s][j] # Nil => rows'[s][j] = rows[s][j]
      BY <2>1 DEF MasterInv, MasterTypeOK, FreshInv, Ids
    <2>3. Grows
      BY <2>1, <2>2 DEF Grows, Tables
    <2>4. StockInv(rows)'
      BY <1>3, <2>2 DEF BatchImport, StockInv, MasterInv, MasterTypeOK, Tables
    <2> QED
      BY <1>3, <2>1, <2>3, <2>4, RequestStep DEF BatchImport, MasterInv, MasterTypeOK
  <1>4. ASSUME NEW t \in Tables, NEW i \in Ids, Delete(t, i)
        PROVE  MasterInv'
    BY <1>4, DeleteKeeps, RequestStep DEF Delete, MasterInv, MasterTypeOK
  <1>5. ASSUME NEW s \in Ids, NEW k \in Ids, Ensure(s, k)
        PROVE  MasterInv'
    <2>1. stock' \subseteq Ids \X Ids
      BY <1>5 DEF Ensure, MasterInv, MasterTypeOK
    <2>2. StockInv(rows)'
      BY <1>5 DEF Ensure, StockInv, MasterInv
    <2> QED
      BY <1>5, <1>0, <2>1, <2>2, RequestStep DEF Ensure
  <1>6. ASSUME NEW c \in Sessions, NEW code \in Codes, NEW r \in Refs("stores"),
               CreateStore(c, code, r)
        PROVE  MasterInv'
    <2>1. [code |-> code, ref |-> r] \in Row
      BY DEF Row, Refs, Referred, Ids
    <2> QED
      BY <1>6, <1>0, <2>1, SessionStep DEF CreateStore
  <1>7. ASSUME NEW c \in Sessions, StoreInsert(c)
        PROVE  MasterInv'
    <2>1. work[c] \in Row /\ Insert("stores", work[c]) /\ Go(c, "idle", Nil)
      BY <1>7 DEF StoreInsert, Done, MasterInv, MasterTypeOK
    <2> QED
      BY <2>1, InsertFits, SessionStep DEF Insert, Tables
  <1>8. ASSUME NEW c \in Sessions, NEW t \in Tables, NEW i \in Ids,
               NEW code \in Codes \cup {Nil}, NEW r \in Refs(t),
               Update(c, t, i, [code |-> code, ref |-> r])
        PROVE  MasterInv'
    BY <1>8, <1>0, UpdateReads, SessionStep DEF Update
  <1>9. ASSUME NEW c \in Sessions, Preload(c)
        PROVE  MasterInv'
    BY <1>9, <1>0, PreloadReads, SessionStep DEF Preload
  <1>10. ASSUME NEW c \in Sessions, Save(c)
         PROVE  MasterInv'
    <2> DEFINE w == work[c]
    <2>1. EditInv("save", w, rows["users"], next)
      BY <1>10 DEF Save, MasterInv, EditsInv, Editing
    <2>2. DbInv(rows') /\ FreshInv' /\ StockInv(rows)' /\ Grows
      BY <1>10, <2>1, SaveFits DEF Save
    <2>3. EditInv("reinsert", w, rows'["users"], next')
      <3>1. EditInv("save", w, rows'["users"], next')
        BY <2>1, <2>2, EditStays
      <3> QED
        BY <3>1 DEF EditInv
    <2>4. w \in Edit
      BY <2>1 DEF EditInv
    <2>5. Go(c, "idle", Nil) \/ Go(c, "reinsert", w)
      BY <1>10 DEF Save, Done
    <2> QED
      BY <1>10, <2>2, <2>3, <2>4, <2>5, SessionStep DEF Save
  <1>11. ASSUME NEW c \in Sessions, Reinsert(c)
         PROVE  MasterInv'
    <2>1. EditInv("reinsert", work[c], rows["users"], next)
      BY <1>11 DEF Reinsert, MasterInv, EditsInv, Editing
    <2>2. DbInv(rows') /\ FreshInv' /\ StockInv(rows)' /\ Grows
      BY <1>11, <2>1, SaveFits DEF Reinsert
    <2> QED
      BY <1>11, <2>2, SessionStep DEF Reinsert, Done
  <1>12. ASSUME NEW c \in Sessions, Fail(c)
         PROVE  MasterInv'
    BY <1>12, <1>0, SessionStep DEF Fail, Done
  <1>13. CASE UNCHANGED masterVars
    BY <1>13, <1>0, RequestStep DEF masterVars, MasterInv, MasterTypeOK
  <1> QED
    BY <1>1, <1>2, <1>3, <1>4, <1>5, <1>6, <1>7, <1>8, <1>9, <1>10, <1>11, <1>12, <1>13
    DEF MasterNext

-----------------------------------------------------------------------------
\* For every number of requests and every size of the tables: rows, sequences
\* and sessions keep their types.
THEOREM MasterTypeCorrect == MasterSpec => []MasterTypeOK
  <1>1. MasterInv => MasterTypeOK
    BY DEF MasterInv
  <1> QED
    BY <1>1, MasterStarts, MasterStep, PTL DEF MasterSpec

\* No two rows of a table ever share a code.
THEOREM CodesDistinctCorrect == MasterSpec => []CodesDistinct
  <1>1. MasterInv => CodesDistinct
    BY DEF MasterInv, DbInv, CodesDistinct
  <1> QED
    BY <1>1, MasterStarts, MasterStep, PTL DEF MasterSpec

\* No reference ever dangles, though saves insert deleted rows again.
THEOREM ReferencesCorrect == MasterSpec => []ReferencesHold
  <1>1. MasterInv => ReferencesHold
    BY DEF MasterInv, DbInv, StockInv, ReferencesHold
  <1> QED
    BY <1>1, MasterStarts, MasterStep, PTL DEF MasterSpec

\* A row whose id was handed out changes, without being deleted, only by the
\* save of a session that has it.
LEMMA OnlyHoldersWrite ==
    ASSUME MasterInv, MasterNext, NEW t \in Tables, NEW i \in Ids,
           i < next[t], rows'[t][i] # rows[t][i], rows'[t][i] # Nil
    PROVE  \E c \in Sessions : (Save(c) \/ Reinsert(c)) /\ Holds(c, t, i)
  <1>0. /\ next \in [Tables -> 1..(IdBound + 1)]
        /\ rows \in [Tables -> [Ids -> Row \cup {Nil}]]
    BY DEF MasterInv, MasterTypeOK
  <1>1. ASSUME NEW s, NEW row, Insert(s, row)
        PROVE  FALSE
    BY <1>0, <1>1 DEF Insert, Put, Ids, Tables
  <1>2. ASSUME NEW codes \in [1..BatchSize -> Codes], BatchImport(codes)
        PROVE  FALSE
    BY <1>2, ImportFits DEF MasterInv
  <1>3. ASSUME NEW s \in Tables, NEW j \in Ids, Delete(s, j)
        PROVE  FALSE
    BY <1>0, <1>3 DEF Delete, Put
  <1>4. ASSUME NEW c \in Sessions, Save(c) \/ Reinsert(c)
        PROVE  Holds(c, t, i)
    <2> DEFINE w == work[c]
    <2>1. pc[c] \in {"save", "reinsert"} /\ EditInv(pc[c], w, rows["users"], next)
      BY <1>4 DEF Save, Reinsert, MasterInv, EditsInv, Editing
    <2>2. \/ t = w.table /\ i = w.id
          \/ w.kin # Nil /\ t = Referred(w.table) /\ i = w.read.ref
      BY <1>4, <2>1, SaveFits DEF Save, Reinsert
    <2> QED
      BY <2>1, <2>2 DEF Holds
  <1> QED
    BY <1>1, <1>2, <1>3, <1>4
    DEF MasterNext, CreateSKU, Register, CreateStore, StoreInsert, Update, Preload, Fail, Ensure

\* A session that has a row after a step had it before, or read it while it
\* was there.
LEMMA HoldersRead ==
    ASSUME MasterInv, MasterNext, NEW t \in Tables, NEW i \in Ids, NEW d \in Sessions,
           Holds(d, t, i)'
    PROVE  Holds(d, t, i) \/ rows[t][i] # Nil
  <1>0. /\ pc \in [Sessions -> {"idle", "insert", "preload", "save", "reinsert"}]
        /\ work \in [Sessions -> Edit \cup Row \cup {Nil}]
    BY DEF MasterInv, MasterTypeOK
  <1>1. CASE pc' = pc /\ work' = work
    BY <1>1 DEF Holds
  <1>2. ASSUME NEW c \in Sessions, NEW l \in {"idle", "insert"}, NEW w, Go(c, l, w)
        PROVE  Holds(d, t, i)
    BY <1>0, <1>2 DEF Go, Holds
  <1>3. ASSUME NEW c \in Sessions, NEW s \in Tables, NEW j \in Ids,
               NEW code \in Codes \cup {Nil}, NEW r \in Refs(s),
               Update(c, s, j, [code |-> code, ref |-> r])
        PROVE  Holds(d, t, i) \/ rows[t][i] # Nil
    <2>1. CASE d = c
      <3> DEFINE l == IF rows[s][j].ref = Nil THEN "save" ELSE "preload"
                 w == [table |-> s, id |-> j, read |-> rows[s][j],
                       ask |-> [code |-> code, ref |-> r], kin |-> Nil]
      <3>1. Go(c, l, w) /\ rows[s][j] # Nil
        BY <1>3 DEF Update
      <3>2. work'[c] = w /\ w.table = s /\ w.id = j /\ w.kin = Nil
        BY <3>1, <1>0 DEF Go
      <3> QED
        BY <2>1, <3>1, <3>2 DEF Holds
    <2>2. CASE d # c
      BY <1>0, <1>3, <2>2 DEF Update, Go, Holds
    <2> QED
      BY <2>1, <2>2
  <1>4. ASSUME NEW c \in Sessions, Preload(c)
        PROVE  Holds(d, t, i) \/ rows[t][i] # Nil
    <2>1. CASE d = c
      <3> DEFINE kin == rows[Referred(work[c].table)][work[c].read.ref]
      <3>1. pc[c] = "preload" /\ work[c] \in Edit
        BY <1>4 DEF Preload, MasterInv, MasterTypeOK
      <3>2. /\ work'[c].table = work[c].table /\ work'[c].id = work[c].id
            /\ work'[c].read = work[c].read /\ work'[c].kin = kin
        <4>1. work'[c] = [work[c] EXCEPT !.kin = kin]
          BY <1>0, <1>4 DEF Preload, Go
        <4> QED
          BY <3>1, <4>1 DEF Edit
      <3> QED
        BY <2>1, <3>1, <3>2 DEF Holds
    <2>2. CASE d # c
      BY <1>0, <1>4, <2>2 DEF Preload, Go, Holds
    <2> QED
      BY <2>1, <2>2
  <1>5. ASSUME NEW c \in Sessions, Save(c)
        PROVE  Holds(d, t, i)
    <2>1. Go(c, "idle", Nil) \/ (pc[c] = "save" /\ Go(c, "reinsert", work[c]))
      BY <1>5 DEF Save, Done
    <2>2. ASSUME pc[c] = "save", Go(c, "reinsert", work[c])
          PROVE  Holds(d, t, i)
      BY <1>0, <2>2 DEF Go, Holds
    <2> QED
      BY <1>2, <2>1, <2>2
  <1> QED
    BY <1>1, <1>2, <1>3, <1>4, <1>5
    DEF MasterNext, CreateSKU, Register, BatchImport, Delete, Ensure, CreateStore, StoreInsert,
        Reinsert, Fail, Done

\* Sequences never go back.
LEMMA NextGrows ==
    ASSUME MasterInv, MasterNext, NEW t \in Tables
    PROVE  next[t] <= next'[t]
  <1>0. next \in [Tables -> 1..(IdBound + 1)]
    BY DEF MasterInv, MasterTypeOK
  <1>1. ASSUME NEW s, NEW row, Insert(s, row)
        PROVE  next[t] <= next'[t]
    BY <1>0, <1>1 DEF Insert
  <1>2. ASSUME NEW codes \in [1..BatchSize -> Codes], BatchImport(codes)
        PROVE  next[t] <= next'[t]
    BY <1>0, <1>2, ImportFits DEF MasterInv
  <1>3. CASE next' = next
    BY <1>0, <1>3
  <1> QED
    BY <1>1, <1>2, <1>3
    DEF MasterNext, CreateSKU, Register, Delete, Ensure, CreateStore, StoreInsert, Update,
        Preload, Save, Reinsert, Fail

\* A deleted row that nobody read before its deletion stays deleted for good.
THEOREM DeletionSettlesCorrect == MasterSpec => DeletionSettles
  <1>1. MasterInv /\ MasterInv' /\ [MasterNext]_masterVars
        => \A t \in Tables, i \in Ids :
              Gone(t, i) /\ (\A c \in Sessions : ~Holds(c, t, i))
                  => Gone(t, i)' /\ \A c \in Sessions : ~Holds(c, t, i)'
    <2> SUFFICES ASSUME MasterInv, MasterInv', [MasterNext]_masterVars,
                        NEW t \in Tables, NEW i \in Ids,
                        Gone(t, i), \A c \in Sessions : ~Holds(c, t, i)
                 PROVE  Gone(t, i)' /\ \A c \in Sessions : ~Holds(c, t, i)'
      OBVIOUS
    <2>1. CASE UNCHANGED masterVars
      BY <2>1 DEF masterVars, Gone, Holds
    <2>2. CASE MasterNext
      <3>1. rows'[t][i] = Nil
        BY <2>2, OnlyHoldersWrite DEF Gone
      <3>2. \A c \in Sessions : ~Holds(c, t, i)'
        BY <2>2, HoldersRead DEF Gone
      <3>3. i < next'[t]
        <4>1. next[t] <= next'[t]
          BY <2>2, NextGrows
        <4> QED
          BY <4>1 DEF Gone, MasterInv, MasterTypeOK, Ids
      <3> QED
        BY <3>1, <3>2, <3>3 DEF Gone
    <2> QED
      BY <2>1, <2>2
  <1> QED
    BY <1>1, MasterStarts, MasterStep, PTL DEF MasterSpec, DeletionSettles

\* A code that nobody asked to change changes only by an update that read an
\* older one.
THEOREM UnaskedCorrect == MasterSpec => UnaskedChangeIsStale
  <1> DEFINE A == \A t \in Tables, i \in Ids :
                     /\ rows[t][i] # Nil
                     /\ rows'[t][i] # Nil
                     /\ rows'[t][i].code # rows[t][i].code
                     => \E c \in Sessions :
                           /\ Holds(c, t, i)
                           /\ work[c].table = t
                           /\ \/ work[c].ask.code # Nil /\ work[c].ask.code = rows'[t][i].code
                              \/ work[c].read.code # rows[t][i].code
  <1>1. MasterInv /\ [MasterNext]_masterVars => A
    <2> SUFFICES ASSUME MasterInv, [MasterNext]_masterVars, NEW t \in Tables, NEW i \in Ids,
                        rows[t][i] # Nil, rows'[t][i] # Nil,
                        rows'[t][i].code # rows[t][i].code
                 PROVE  \E c \in Sessions :
                           /\ Holds(c, t, i)
                           /\ work[c].table = t
                           /\ \/ work[c].ask.code # Nil /\ work[c].ask.code = rows'[t][i].code
                              \/ work[c].read.code # rows[t][i].code
      OBVIOUS
    <2>1. MasterNext
      BY DEF masterVars
    <2>2. i < next[t]
      BY DEF MasterInv, MasterTypeOK, FreshInv, Ids
    <2>3. PICK c \in Sessions : (Save(c) \/ Reinsert(c)) /\ Holds(c, t, i)
      BY <2>1, <2>2, OnlyHoldersWrite
    <2> DEFINE w == work[c]
    <2>4. EditInv(pc[c], w, rows["users"], next)
      BY <2>3 DEF Holds, MasterInv, EditsInv, Editing
    <2>5. /\ DbInv(Restored(w))
          /\ \A s \in Tables, j \in Ids : rows[s][j] # Nil => Restored(w)[s][j] = rows[s][j]
      BY <2>4, RestoredFits DEF MasterInv
    <2>6. /\ rows' = Put(Restored(w), w.table, w.id, Merged(w))
          /\ Fits(Restored(w), w.table, w.id, Merged(w))
      BY <2>3, <2>5 DEF Save, Reinsert
    <2>7. w.table \in Tables /\ w.id \in Ids
      BY <2>4 DEF EditInv, Edit
    <2>8. t = w.table /\ i = w.id /\ rows'[t][i] = Merged(w)
      BY <2>4, <2>5, <2>6, <2>7, PutFits, MergedRow
    <2>9. w.ask.code = Nil => rows'[t][i].code = w.read.code
      BY <2>8 DEF Merged
    <2>10. w.ask.code # Nil => rows'[t][i].code = w.ask.code
      BY <2>8 DEF Merged
    <2> QED
      BY <2>3, <2>8, <2>9, <2>10
  <1> QED
    BY <1>1, MasterStarts, MasterStep, PTL DEF MasterSpec, UnaskedChangeIsStale

=============================================================================
