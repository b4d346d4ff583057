-------------------------- MODULE ContractDBProofs --------------------------
(***************************************************************************)
(* Proofs about ContractDB for every set of keys, columns and values,      *)
(* every clean-up interval and every bound.                                *)
(***************************************************************************)
EXTENDS ContractDB, TLAPS

-----------------------------------------------------------------------------
(* The inductive invariant *)

(* Ids order the queries of a database the way their blocks do; none is    *)
(* of a block above top.                                                   *)
Ordered(Q, top) ==
  /\ \A q \in Q : q.id < nextId /\ q.block <= top
  /\ \A p, q \in Q : p.id < q.id => p.block <= q.block
  /\ \A p, q \in Q : p.id = q.id => p = q

Reverts(q, t) == Executable(q, t) /\ Undo(q, t) = q.before

(* Each query above floor fl reverts the table in which the next one was   *)
(* recorded, the last one reverts the current table t.                     *)
Revertible(t, Q, fl) ==
  \A q \in Q : q.block > fl =>
    /\ (\A p \in Q : p.id <= q.id) => Reverts(q, t)
    /\ \A p \in Q :
         p.id > q.id /\ (\A r \in Q : r.id <= q.id \/ r.id >= p.id)
           => Reverts(q, p.before)

(* image[n] is the table the first query of a block >= n was recorded in.  *)
Imaged(t, Q, img, fl, top) ==
  \A n \in Blocks : fl < n /\ n <= top =>
    /\ (\A q \in Q : q.block < n) => img[n] = t
    /\ \A q \in Q :
         q.block >= n /\ (\A p \in Q : p.block >= n => p.id >= q.id)
           => img[n] = q.before

(* reversible_blocks has the blocks of Q, and all above the last           *)
(* irreversible one.                                                       *)
Registered(Q, B, top) ==
  /\ \A q \in Q : q.block \in B
  /\ \A n \in B : n <= top
  /\ \A n \in Blocks : lib < n /\ n <= top => n \in B

Good(t, Q, B, img, fl, top) ==
  /\ Ordered(Q, top)
  /\ Revertible(t, Q, fl)
  /\ Imaged(t, Q, img, fl, top)
  /\ Registered(Q, B, top)

(* The queries that are still to be undone in a rollback, and the others.  *)
Live == IF phase = "rollback" THEN {q \in queries : q.block < block} \cup todo
                              ELSE queries

SavedGood ==
  /\ Good(saved.table, saved.queries, saved.blocks, saved.image, saved.floor,
          saved.position)
  /\ saved.floor <= lib

IdleInv ==
  /\ block = 0 /\ currentBlock = 0 /\ todo = {}
  /\ saved = [table |-> table, queries |-> queries, blocks |-> blocks,
              position |-> position, image |-> image, floor |-> floor]

RollbackInv ==
  /\ block \in Blocks /\ block <= position /\ floor < block
  /\ todo \subseteq {q \in queries : q.block >= block}
  /\ Ordered(queries, position)
  /\ Registered(queries, blocks, position)
  /\ Revertible(table, Live, floor)
  /\ Imaged(table, Live, image, floor, block)
  /\ currentBlock = 0 => block <= lib
  /\ currentBlock # 0 => block > lib

(* Between the rollback, if any, and the commit. *)
ApplyInv ==
  /\ block \in Blocks /\ position = block - 1 /\ todo = {}
  /\ Ordered(queries, block)
  /\ Revertible(table, queries, floor)
  /\ Imaged(table, queries, image, floor, block)
  /\ currentBlock = 0 => floor = block
  /\ currentBlock # 0 => floor < block /\ block > lib

Inv ==
  /\ TypeOK
  /\ SavedGood
  /\ floor <= lib
  /\ phase = "idle" => IdleInv
  /\ phase = "rollback" => RollbackInv
  /\ phase = "register" => ApplyInv /\ Registered(queries, blocks, block - 1)
  /\ phase = "execute" => ApplyInv /\ Registered(queries, blocks, block)
-----------------------------------------------------------------------------
(* Statements and their rollback queries *)

(* What a rollback query with this operation and these rows does to t.     *)
Undone(op, rows, t) ==
  /\ Executable([op |-> op, rows |-> rows], t)
  /\ Undo([op |-> op, rows |-> rows], t) = table

(* A partial row: a function from some of the columns to values.           *)
LEMMA PartialRowIntro ==
  ASSUME NEW r, NEW D \in SUBSET Cols, r \in [D -> Vals]
  PROVE  r \in PartialRow
BY DEF PartialRow

LEMMA RowMapIntro ==
  ASSUME NEW m, NEW K \in SUBSET Keys, m \in [K -> PartialRow]
  PROVE  m \in RowMap
BY DEF RowMap

LEMMA RowIsPartialRow ==
  ASSUME NEW r \in Row
  PROVE  r \in PartialRow
BY PartialRowIntro DEF Row

LEMMA PartialRowElim ==
  ASSUME NEW v \in PartialRow
  PROVE  DOMAIN v \in SUBSET Cols /\ v \in [DOMAIN v -> Vals]
BY DEF PartialRow

LEMMA NoColsIsPartialRow == NoCols \in PartialRow
<1>1. {} \in SUBSET Cols /\ NoCols \in [{} -> Vals]
  BY DEF NoCols
<1>2. QED
  BY <1>1, PartialRowIntro

(* The old values that an assignment of v overwrites, put back, give the   *)
(* old row.                                                                *)
LEMMA OverlayChanged ==
  ASSUME NEW r \in Row, NEW v \in PartialRow, NEW C \in SUBSET Cols,
         DOMAIN v \subseteq C
  PROVE  /\ Overlay(r, v) \in Row
         /\ Changed(r, v, C) \in PartialRow
         /\ Overlay(Overlay(r, v), Changed(r, v, C)) = r
         /\ DOMAIN Changed(r, v, C) = {} => Overlay(r, v) = r
<1> DEFINE D == {c \in C : ~ (c \in DOMAIN v /\ v[c] = r[c])}
<1>1. DOMAIN v \in SUBSET Cols /\ v \in [DOMAIN v -> Vals]
  BY PartialRowElim
<1>2. r \in [Cols -> Vals]
  BY DEF Row
<1>3. Overlay(r, v) \in [Cols -> Vals]
  BY <1>1, <1>2 DEF Overlay
<1>4. Changed(r, v, C) = [c \in D |-> r[c]]
  BY DEF Changed
<1>5. D \in SUBSET Cols /\ [c \in D |-> r[c]] \in [D -> Vals]
  BY <1>2
<1>6. Changed(r, v, C) \in PartialRow
  BY <1>4, <1>5, PartialRowIntro
<1>7. \A c \in Cols : Overlay(Overlay(r, v), Changed(r, v, C))[c] = r[c]
  BY <1>1, <1>2, <1>3, <1>4 DEF Overlay
<1>8. Overlay(Overlay(r, v), Changed(r, v, C)) = r
  BY <1>2, <1>7 DEF Overlay
<1>9. ASSUME DOMAIN Changed(r, v, C) = {} PROVE Overlay(r, v) = r
  <2>1. \A c \in DOMAIN v : v[c] = r[c]
    BY <1>1, <1>4, <1>9
  <2>2. QED
    BY <1>2, <2>1 DEF Overlay
<1>10. QED
  BY <1>3, <1>6, <1>8, <1>9 DEF Row

LEMMA InsertUndone ==
  ASSUME TypeOK, NEW K \in SUBSET Keys, NEW new \in [K -> Row], Insert(new)
  PROVE  \E t \in Table, rows \in RowMap :
            Statement(t, "delete", rows) /\ Undone("delete", rows, t)
<1> DEFINE t == [k \in Keys |-> IF k \in DOMAIN new THEN new[k] ELSE table[k]]
           rows == [k \in DOMAIN new |-> NoCols]
<1>1. table \in [Keys -> Row \cup {NoRow}] /\ DOMAIN new = K
  BY DEF TypeOK, Table
<1>2. t \in Table
  BY <1>1 DEF Table
<1>3. rows \in RowMap
  BY <1>1, NoColsIsPartialRow, RowMapIntro
<1>4. \A k \in K : table[k] = NoRow
  BY <1>1 DEF Insert
<1>5. Undo([op |-> "delete", rows |-> rows], t) = table
  BY <1>1, <1>4 DEF Undo
<1>6. Undone("delete", rows, t)
  BY <1>5 DEF Undone, Executable
<1>7. Statement(t, "delete", rows)
  BY DEF Insert
<1>8. QED
  BY <1>2, <1>3, <1>6, <1>7

LEMMA DeleteUndone ==
  ASSUME TypeOK, NEW K \in SUBSET Keys, Delete(K)
  PROVE  \E t \in Table, rows \in RowMap :
            Statement(t, "insert", rows) /\ Undone("insert", rows, t)
<1> DEFINE t == [k \in Keys |-> IF k \in K THEN NoRow ELSE table[k]]
           rows == [k \in K |-> table[k]]
<1>1. table \in [Keys -> Row \cup {NoRow}]
  BY DEF TypeOK, Table
<1>2. t \in Table
  BY <1>1 DEF Table
<1>3. \A k \in K : table[k] \in PartialRow
  BY <1>1, RowIsPartialRow DEF Delete
<1>4. rows \in RowMap
  BY <1>3, RowMapIntro
<1>5. Undo([op |-> "insert", rows |-> rows], t) = table
  BY <1>1 DEF Undo
<1>6. Undone("insert", rows, t)
  BY <1>5 DEF Undone, Executable
<1>7. Statement(t, "insert", rows)
  BY DEF Delete
<1>8. QED
  BY <1>2, <1>4, <1>6, <1>7
(* Rows K are overwritten by over; old has the values to put back.         *)
LEMMA OverwriteUndone ==
  ASSUME TypeOK, NEW K \in SUBSET Keys,
         NEW over \in [K -> Row], NEW old \in [K -> PartialRow],
         \A k \in K : table[k] # NoRow,
         \A k \in K : Overlay(over[k], old[k]) = table[k],
         \A k \in K : DOMAIN old[k] = {} => over[k] = table[k],
         NEW D, D = {k \in K : DOMAIN old[k] # {}},
         NEW t, t = [k \in Keys |-> IF k \in K THEN over[k] ELSE table[k]],
         NEW rows, rows = [k \in D |-> old[k]]
  PROVE  t \in Table /\ rows \in RowMap /\ Undone("update", rows, t)
<1>1. table \in [Keys -> Row \cup {NoRow}]
  BY DEF TypeOK, Table
<1>2. t \in Table
  BY <1>1 DEF Table
<1>3. D \in SUBSET Keys /\ rows \in [D -> PartialRow]
  OBVIOUS
<1>4. rows \in RowMap
  BY <1>3, RowMapIntro
<1>5. ASSUME NEW k \in Keys
      PROVE  (IF k \notin DOMAIN rows THEN t[k] ELSE Overlay(t[k], rows[k]))
               = table[k]
  <2>1. CASE k \in D
    <3>1. t[k] = over[k] /\ rows[k] = old[k] /\ k \in DOMAIN rows /\ k \in K
      BY <2>1
    <3>2. QED
      BY <3>1
  <2>2. CASE k \notin D
    BY <2>2
  <2>3. QED
    BY <2>1, <2>2
<1>6. Undo([op |-> "update", rows |-> rows], t) = table
  BY <1>1, <1>5 DEF Undo
<1>7. \A k \in D : t[k] # NoRow
  BY NoRowAssumption DEF Row
<1>8. Undone("update", rows, t)
  BY <1>6, <1>7 DEF Undone, Executable
<1>9. QED
  BY <1>2, <1>4, <1>8

LEMMA UpdateUndone ==
  ASSUME TypeOK, NEW K \in SUBSET Keys, NEW v \in PartialRow, Update(K, v)
  PROVE  \E t \in Table, rows \in RowMap :
            Statement(t, "update", rows) /\ Undone("update", rows, t)
<1>2. PICK C \in SUBSET Cols : C = DOMAIN v
  BY PartialRowElim
<1> DEFINE old  == [k \in K |-> Changed(table[k], v, C)]
           over == [k \in K |-> Overlay(table[k], v)]
           D    == {k \in K : DOMAIN old[k] # {}}
           t    == [k \in Keys |-> IF k \in K THEN over[k] ELSE table[k]]
           rows == [k \in D |-> old[k]]
<1>1. \A k \in K : table[k] \in Row /\ table[k] # NoRow
  BY DEF TypeOK, Table, Update
<1>3. ASSUME NEW k \in K
      PROVE  /\ over[k] \in Row
             /\ old[k] \in PartialRow
             /\ Overlay(over[k], old[k]) = table[k]
             /\ DOMAIN old[k] = {} => over[k] = table[k]
  BY <1>1, <1>2, OverlayChanged
<1>4. over \in [K -> Row] /\ old \in [K -> PartialRow]
  BY <1>3
<1>5. Statement(t, "update", rows)
  <2>1. t = [k \in Keys |-> IF k \in K THEN Overlay(table[k], v) ELSE table[k]]
    OBVIOUS
  <2>2. rows = [k \in {k \in K : DOMAIN Changed(table[k], v, DOMAIN v) # {}}
                  |-> Changed(table[k], v, DOMAIN v)]
    BY <1>2
  <2>3. QED
    BY <2>1, <2>2 DEF Update
<1>6. t \in Table /\ rows \in RowMap /\ Undone("update", rows, t)
  <2> HIDE DEF old, over
  <2>1. QED
    BY ZenonT(30), <1>1, <1>3, <1>4, OverwriteUndone
<1>7. QED
  BY <1>5, <1>6

LEMMA ReplaceUndone ==
  ASSUME TypeOK, NEW key \in Keys, NEW row \in Row,
         NEW blacklist \in SUBSET Cols, Replace(key, row, blacklist)
  PROVE  \E t \in Table, rows \in RowMap, op \in {"delete", "update"} :
            Statement(t, op, rows) /\ Undone(op, rows, t)
<1>1. CASE table[key] = NoRow
  <2>1. Insert([k \in {key} |-> row])
    BY <1>1 DEF Replace
  <2>2. {key} \in SUBSET Keys /\ [k \in {key} |-> row] \in [{key} -> Row]
    OBVIOUS
  <2>3. \E s \in Table, r \in RowMap :
           Statement(s, "delete", r) /\ Undone("delete", r, s)
    BY <2>1, <2>2, InsertUndone
  <2>4. QED
    BY <2>3
<1>2. CASE table[key] # NoRow
  <2> DEFINE v    == [c \in Cols \ blacklist |-> row[c]]
             old1 == Changed(table[key], v, Cols)
             over == [k \in {key} |-> Overlay(table[key], v)]
             old  == [k \in {key} |-> old1]
             D    == {k \in {key} : DOMAIN old[k] # {}}
             t    == [k \in Keys |-> IF k \in {key} THEN over[k] ELSE table[k]]
             rows == [k \in D |-> old[k]]
  <2>1. table[key] \in Row /\ table \in Table
    BY <1>2 DEF TypeOK, Table
  <2>2. v \in PartialRow /\ DOMAIN v \subseteq Cols
    <3>1. Cols \ blacklist \in SUBSET Cols /\ v \in [Cols \ blacklist -> Vals]
      BY DEF Row
    <3>2. QED
      BY <3>1, PartialRowIntro
  <2>3. Statement(t, "update", rows)
    <3>1. t = [table EXCEPT ![key] = Overlay(table[key], v)]
      BY <2>1 DEF Table
    <3>2. D = (IF DOMAIN old1 = {} THEN {} ELSE {key})
      OBVIOUS
    <3>3. rows = [k \in IF DOMAIN old1 = {} THEN {} ELSE {key} |-> old1]
      BY <3>2
    <3>4. QED
      BY <1>2, <3>1, <3>3 DEF Replace
  <2> HIDE DEF v
  <2>4. \A k \in {key} : /\ over[k] \in Row
                         /\ old[k] \in PartialRow
                         /\ Overlay(over[k], old[k]) = table[k]
                         /\ DOMAIN old[k] = {} => over[k] = table[k]
    BY <2>1, <2>2, OverlayChanged
  <2>5. over \in [{key} -> Row] /\ old \in [{key} -> PartialRow]
    BY <2>4
  <2>6. t \in Table /\ rows \in RowMap /\ Undone("update", rows, t)
    <3> HIDE DEF old, over
    <3>1. {key} \in SUBSET Keys /\ \A k \in {key} : table[k] # NoRow
      BY <1>2
    <3>2. QED
      BY <3>1, <2>4, <2>5, OverwriteUndone
  <2>7. QED
    BY <2>3, <2>6
<1>3. QED
  BY <1>1, <1>2
-----------------------------------------------------------------------------
(* The log of rollback queries: recording, undoing and forgetting *)

(* A statement records the query e on top of the log.                      *)
LEMMA RecordedLog ==
  ASSUME NEW Q \in SUBSET Query, NEW t, NEW t2, NEW img, NEW fl \in Nat,
         NEW top \in Nat, NEW e \in Query,
         \A q \in Q : q.id < e.id, e.before = t, Reverts(e, t2),
         e.block = top,
         Revertible(t, Q, fl), Imaged(t, Q, img, fl, top)
  PROVE  /\ Revertible(t2, Q \cup {e}, fl)
         /\ Imaged(t2, Q \cup {e}, img, fl, top)
<1>1. \A q \in Q : q.id \in Nat /\ q.block \in Nat
  BY DEF Query, Blocks
<1>2. e.id \in Nat
  BY DEF Query
<1>3. Revertible(t2, Q \cup {e}, fl)
  <2> SUFFICES ASSUME NEW q \in Q \cup {e}, q.block > fl
               PROVE  /\ (\A p \in Q \cup {e} : p.id <= q.id) => Reverts(q, t2)
                      /\ \A p \in Q \cup {e} :
                           p.id > q.id
                           /\ (\A r \in Q \cup {e} : r.id <= q.id \/ r.id >= p.id)
                             => Reverts(q, p.before)
    BY DEF Revertible
  <2>1. CASE q = e
    BY <2>1, <1>1, <1>2
  <2>2. CASE q \in Q
    <3>1. (\A p \in Q \cup {e} : p.id <= q.id) => Reverts(q, t2)
      BY <2>2, <1>1, <1>2
    <3>2. ASSUME NEW p \in Q \cup {e}, p.id > q.id,
                 \A r \in Q \cup {e} : r.id <= q.id \/ r.id >= p.id
          PROVE  Reverts(q, p.before)
      <4>1. CASE p \in Q
        BY <2>2, <3>2, <4>1 DEF Revertible
      <4>2. CASE p = e
        <5>1. \A r \in Q : r.id <= q.id
          BY <3>2, <4>2, <1>1, <1>2
        <5>2. QED
          BY <2>2, <4>2, <5>1 DEF Revertible
      <4>3. QED
        BY <4>1, <4>2
    <3>3. QED
      BY <3>1, <3>2
  <2>3. QED
    BY <2>1, <2>2
<1>4. Imaged(t2, Q \cup {e}, img, fl, top)
  <2> SUFFICES ASSUME NEW n \in Blocks, fl < n, n <= top
               PROVE  /\ (\A q \in Q \cup {e} : q.block < n) => img[n] = t2
                      /\ \A q \in Q \cup {e} :
                           q.block >= n
                           /\ (\A p \in Q \cup {e} : p.block >= n => p.id >= q.id)
                             => img[n] = q.before
    BY DEF Imaged
  <2>1. ~ (\A q \in Q \cup {e} : q.block < n)
    BY DEF Blocks
  <2>2. ASSUME NEW q \in Q \cup {e}, q.block >= n,
               \A p \in Q \cup {e} : p.block >= n => p.id >= q.id
        PROVE  img[n] = q.before
    <3>1. CASE q \in Q
      BY <2>2, <3>1 DEF Imaged
    <3>2. CASE q = e
      <4>1. \A p \in Q : p.block < n
        BY <2>2, <3>2, <1>1, <1>2 DEF Blocks
      <4>2. QED
        BY <3>2, <4>1 DEF Imaged
    <3>3. QED
      BY <3>1, <3>2
  <2>3. QED
    BY <2>1, <2>2
<1>5. QED
  BY <1>3, <1>4

(* A rollback executes the last query e and crosses it off.                *)
LEMMA UndoneLog ==
  ASSUME NEW Q \in SUBSET Query, NEW t, NEW img, NEW fl \in Nat,
         NEW top \in Nat, NEW e \in Q,
         \A p \in Q : p.id <= e.id, e.block >= top, e.block > fl,
         \A p, q \in Q : p.id = q.id => p = q,
         Revertible(t, Q, fl), Imaged(t, Q, img, fl, top)
  PROVE  /\ Reverts(e, t)
         /\ Revertible(e.before, Q \ {e}, fl)
         /\ Imaged(e.before, Q \ {e}, img, fl, top)
<1>1. \A q \in Q : q.id \in Nat /\ q.block \in Nat
  BY DEF Query, Blocks
<1>2. Reverts(e, t)
  BY DEF Revertible
<1>3. Revertible(e.before, Q \ {e}, fl)
  <2> SUFFICES ASSUME NEW q \in Q \ {e}, q.block > fl
               PROVE  /\ (\A p \in Q \ {e} : p.id <= q.id)
                           => Reverts(q, e.before)
                      /\ \A p \in Q \ {e} :
                           p.id > q.id
                           /\ (\A r \in Q \ {e} : r.id <= q.id \/ r.id >= p.id)
                             => Reverts(q, p.before)
    BY DEF Revertible
  <2>1. q.id < e.id
    BY <1>1
  <2>2. ASSUME \A p \in Q \ {e} : p.id <= q.id
        PROVE  Reverts(q, e.before)
    <3>1. \A r \in Q : r.id <= q.id \/ r.id >= e.id
      BY <2>2, <1>1
    <3>2. QED
      BY <2>1, <3>1 DEF Revertible
  <2>3. ASSUME NEW p \in Q \ {e}, p.id > q.id,
               \A r \in Q \ {e} : r.id <= q.id \/ r.id >= p.id
        PROVE  Reverts(q, p.before)
    <3>1. \A r \in Q : r.id <= q.id \/ r.id >= p.id
      BY <2>3, <1>1
    <3>2. QED
      BY <2>3, <3>1 DEF Revertible
  <2>4. QED
    BY <2>2, <2>3
<1>4. Imaged(e.before, Q \ {e}, img, fl, top)
  <2> SUFFICES ASSUME NEW n \in Blocks, fl < n, n <= top
               PROVE  /\ (\A q \in Q \ {e} : q.block < n) => img[n] = e.before
                      /\ \A q \in Q \ {e} :
                           q.block >= n
                           /\ (\A p \in Q \ {e} : p.block >= n => p.id >= q.id)
                             => img[n] = q.before
    BY DEF Imaged
  <2>1. n \in Nat /\ e.block >= n
    BY <1>1 DEF Blocks
  <2>2. ASSUME \A q \in Q \ {e} : q.block < n
        PROVE  img[n] = e.before
    <3>1. \A p \in Q : p.block >= n => p.id >= e.id
      BY <2>1, <2>2, <1>1
    <3>2. QED
      BY <2>1, <3>1 DEF Imaged
  <2>3. ASSUME NEW q \in Q \ {e}, q.block >= n,
               \A p \in Q \ {e} : p.block >= n => p.id >= q.id
        PROVE  img[n] = q.before
    <3>1. \A p \in Q : p.block >= n => p.id >= q.id
      BY <2>3
    <3>2. QED
      BY <2>3, <3>1 DEF Imaged
  <2>4. QED
    BY <2>2, <2>3
<1>5. QED
  BY <1>2, <1>3, <1>4

(* clearForkDatabase forgets the queries of blocks up to l.                *)
LEMMA ClearedLog ==
  ASSUME NEW Q \in SUBSET Query, NEW t, NEW img, NEW fl \in Nat,
         NEW top \in Nat, NEW l \in Nat, NEW fl2 \in Nat, fl2 >= l, fl2 >= fl,
         Ordered(Q, top), Revertible(t, Q, fl), Imaged(t, Q, img, fl, top)
  PROVE  LET C == {q \in Q : q.block > l}
         IN  Revertible(t, C, fl2) /\ Imaged(t, C, img, fl2, top)
<1> DEFINE C == {q \in Q : q.block > l}
<1>1. \A q \in Q : q.id \in Nat /\ q.block \in Nat
  BY DEF Query, Blocks
<1>2. \A p, q \in Q : p.id < q.id => p.block <= q.block
  BY DEF Ordered
<1>3. \A p, q \in Q : p.id = q.id => p = q
  BY DEF Ordered
<1>4. Revertible(t, C, fl2)
  <2> SUFFICES ASSUME NEW q \in C, q.block > fl2
               PROVE  /\ (\A p \in C : p.id <= q.id) => Reverts(q, t)
                      /\ \A p \in C :
                           p.id > q.id /\ (\A r \in C : r.id <= q.id \/ r.id >= p.id)
                             => Reverts(q, p.before)
    BY DEF Revertible
  <2>1. q \in Q /\ q.block > fl /\ q.block > l
    BY <1>1
  <2>2. \A r \in Q : r \notin C => r.id <= q.id
    BY <1>1, <1>2, <2>1
  <2>3. ASSUME \A p \in C : p.id <= q.id PROVE Reverts(q, t)
    <3>1. \A p \in Q : p.id <= q.id
      BY <2>2, <2>3
    <3>2. QED
      BY <2>1, <3>1 DEF Revertible
  <2>4. ASSUME NEW p \in C, p.id > q.id,
               \A r \in C : r.id <= q.id \/ r.id >= p.id
        PROVE  Reverts(q, p.before)
    <3>1. \A r \in Q : r.id <= q.id \/ r.id >= p.id
      BY <2>2, <2>4
    <3>2. QED
      BY <2>1, <2>4, <3>1 DEF Revertible
  <2>5. QED
    BY <2>3, <2>4
<1>5. Imaged(t, C, img, fl2, top)
  <2> SUFFICES ASSUME NEW n \in Blocks, fl2 < n, n <= top
               PROVE  /\ (\A q \in C : q.block < n) => img[n] = t
                      /\ \A q \in C :
                           q.block >= n /\ (\A p \in C : p.block >= n => p.id >= q.id)
                             => img[n] = q.before
    BY DEF Imaged
  <2>1. n \in Nat /\ fl < n /\ \A q \in Q : q.block >= n => q \in C
    BY <1>1 DEF Blocks
  <2>2. ASSUME \A q \in C : q.block < n PROVE img[n] = t
    <3>1. \A q \in Q : q.block < n
      BY <1>1, <2>1, <2>2
    <3>2. QED
      BY <2>1, <3>1 DEF Imaged
  <2>3. ASSUME NEW q \in C, q.block >= n,
               \A p \in C : p.block >= n => p.id >= q.id
        PROVE  img[n] = q.before
    BY <2>1, <2>3 DEF Imaged
  <2>4. QED
    BY <2>2, <2>3
<1>6. QED
  BY <1>4, <1>5
-----------------------------------------------------------------------------
(* Type correctness *)

Statements ==
  \/ \E K \in SUBSET Keys \ {{}} : \E new \in [K -> Row] : Insert(new)
  \/ \E K \in SUBSET Keys : \E v \in {w \in PartialRow : DOMAIN w # {}} : Update(K, v)
  \/ \E K \in SUBSET Keys : Delete(K)
  \/ \E k \in Keys, row \in Row, blacklist \in (SUBSET Cols) \ {Cols} :
       Replace(k, row, blacklist)

LEMMA NextCases ==
  Next => \/ \E b \in Blocks, l \in 0..MaxBlock : StartTransaction(b, l)
          \/ \E q \in todo : ExecuteRollbackQuery(q)
          \/ FinishRollback
          \/ RegisterBlock
          \/ Statements
          \/ Commit
          \/ Abort
BY DEF Next, Statements

(* Every statement changes the table to one its rollback query reverts.    *)
LEMMA StatementsUndone ==
  ASSUME TypeOK, Statements
  PROVE  \E t \in Table, rows \in RowMap, op \in {"insert", "update", "delete"} :
            Statement(t, op, rows) /\ Undone(op, rows, t)
<1>1. CASE \E K \in SUBSET Keys \ {{}} : \E new \in [K -> Row] : Insert(new)
  BY <1>1, InsertUndone
<1>2. CASE \E K \in SUBSET Keys :
             \E v \in {w \in PartialRow : DOMAIN w # {}} : Update(K, v)
  <2>1. PICK K \in SUBSET Keys, v \in PartialRow : Update(K, v)
    BY <1>2
  <2>2. QED
    BY <2>1, UpdateUndone
<1>3. CASE \E K \in SUBSET Keys : Delete(K)
  BY <1>3, DeleteUndone
<1>4. CASE \E k \in Keys, row \in Row, blacklist \in (SUBSET Cols) \ {Cols} :
             Replace(k, row, blacklist)
  <2>1. PICK k \in Keys, row \in Row, blacklist \in SUBSET Cols :
               Replace(k, row, blacklist)
    BY <1>4
  <2>2. QED
    BY <2>1, ReplaceUndone
<1>5. QED
  BY <1>1, <1>2, <1>3, <1>4 DEF Statements

-----------------------------------------------------------------------------
(* Each action preserves the inductive invariant *)

LEMMA InitInv == Init => Inv
<1> SUFFICES ASSUME Init PROVE Inv
  OBVIOUS
<1>1. TypeOK
  <2>1. table \in Table
    BY DEF Init, Table
  <2>2. image \in [Blocks -> Table]
    BY <2>1 DEF Init
  <2>3. saved \in Database
    BY <2>1, <2>2, BoundAssumption DEF Init, Database
  <2>4. QED
    BY <2>1, <2>2, <2>3, BoundAssumption DEF Init, TypeOK
<1>2. SavedGood /\ floor <= lib
  BY BoundAssumption
     DEF Init, SavedGood, Good, Ordered, Revertible, Imaged, Registered, Blocks
<1>3. phase = "idle" /\ IdleInv
  BY DEF Init, IdleInv
<1>4. QED
  BY <1>1, <1>2, <1>3 DEF Inv

(* The committed database stays good while ids and the last irreversible   *)
(* block only grow.                                                        *)
LEMMA SavedKept ==
  ASSUME Inv, saved' = saved, lib' \in 0..MaxBlock, lib <= lib',
         nextId' \in Nat, nextId <= nextId'
  PROVE  SavedGood'
<1>1. saved \in Database
  BY DEF Inv, TypeOK
<1>2. saved.queries \in SUBSET Query /\ saved.floor \in Nat /\ nextId \in Nat
      /\ lib \in Nat
  BY <1>1, BoundAssumption DEF Database, Inv, TypeOK
<1>3. Ordered(saved.queries, saved.position)'
  BY <1>2 DEF Inv, SavedGood, Good, Ordered, Query
<1>4. Registered(saved.queries, saved.blocks, saved.position)'
  BY <1>2 DEF Inv, SavedGood, Good, Registered, Blocks
<1>5. QED
  BY <1>2, <1>3, <1>4, BoundAssumption
     DEF Inv, SavedGood, Good, Revertible, Imaged, Reverts, Executable, Undo

LEMMA StatementInv ==
  ASSUME Inv, NEW t \in Table, NEW rows \in RowMap,
         NEW op \in {"insert", "update", "delete"},
         Statement(t, op, rows), Undone(op, rows, t)
  PROVE  Inv'
<1>1. /\ phase = "execute" /\ phase' = "execute" /\ table' = t
      /\ UNCHANGED <<blocks, position, saved, block, currentBlock, todo,
                     lib, image, floor>>
  BY DEF Statement
<1>2. /\ TypeOK /\ SavedGood /\ ApplyInv /\ floor <= lib
      /\ Registered(queries, blocks, block)
  BY <1>1 DEF Inv
<1>3. /\ queries \in SUBSET Query /\ nextId \in Nat /\ floor \in Nat
      /\ block \in Blocks /\ block \in Nat /\ table \in Table /\ lib \in Nat
  BY <1>2, BoundAssumption DEF TypeOK, ApplyInv, Blocks
<1>4. CASE currentBlock # 0 /\ DOMAIN rows # {}
  <2> DEFINE e == [id |-> nextId, block |-> currentBlock, op |-> op,
                   rows |-> rows, before |-> table]
  <2>1. queries' = queries \cup {e} /\ nextId' = nextId + 1
    BY <1>4 DEF Statement, Record
  <2>2. currentBlock = block
    BY <1>2, <1>4 DEF TypeOK
  <2>3. e \in Query
    BY <1>3, <2>2 DEF Query
  <2>4. Reverts(e, t)
    <3>1. Executable([op |-> op, rows |-> rows], t)
          /\ Undo([op |-> op, rows |-> rows], t) = table
      BY DEF Undone
    <3>2. Executable(e, t) /\ Undo(e, t) = table
      BY <3>1 DEF Executable, Undo
    <3>3. QED
      BY <3>2 DEF Reverts
  <2>5. \A q \in queries : q.id < e.id
    BY <1>2 DEF ApplyInv, Ordered
  <2>6. Revertible(table, queries, floor) /\ Imaged(table, queries, image, floor, block)
    BY <1>2 DEF ApplyInv
  <2>7. e.before = table /\ e.block = block
    BY <2>2
  <2> HIDE DEF e
  <2>8. /\ Revertible(t, queries \cup {e}, floor)
        /\ Imaged(t, queries \cup {e}, image, floor, block)
    BY <1>3, <2>3, <2>4, <2>5, <2>6, <2>7, RecordedLog
  <2>9. Ordered(queries, block)' 
    <3>1. e.id = nextId
      BY DEF e
    <3>2. Ordered(queries, block)
      BY <1>2 DEF ApplyInv
    <3>3. \A q \in queries : q.id \in Nat /\ q.block \in Nat
      BY <1>3 DEF Query, Blocks
    <3>4. QED
      BY <1>1, <1>3, <2>1, <2>7, <3>1, <3>2, <3>3 DEF Ordered
  <2>10. Registered(queries, blocks, block)'
    <3>1. block \in blocks
      BY <1>2, <1>3, <1>4 DEF Registered, ApplyInv
    <3>2. QED
      BY <1>1, <1>2, <2>1, <2>7, <3>1 DEF Registered
  <2>11. ApplyInv'
    <3>1. Revertible(table, queries, floor)'
      BY <1>1, <2>1, <2>8 DEF Revertible, Reverts, Executable, Undo
    <3>2. Imaged(table, queries, image, floor, block)'
      BY <1>1, <2>1, <2>8 DEF Imaged, Undo
    <3>3. QED
      BY <1>1, <1>2, <2>9, <3>1, <3>2 DEF ApplyInv
  <2>12. TypeOK'
    BY <1>1, <1>2, <1>3, <2>1, <2>3 DEF TypeOK
  <2>13. SavedGood'
    BY <1>1, <1>2, <1>3, <2>1, SavedKept DEF TypeOK
  <2>14. QED
    BY <1>1, <1>2, <2>10, <2>11, <2>12, <2>13 DEF Inv
<1>5. CASE ~ (currentBlock # 0 /\ DOMAIN rows # {})
  <2>1. queries' = queries /\ nextId' = nextId
    BY <1>5 DEF Statement, Record
  <2>2. TypeOK'
    BY <1>1, <1>2, <2>1 DEF TypeOK
  <2>3. SavedGood'
    BY <1>1, <1>2, <1>3, <2>1, SavedKept DEF TypeOK
  <2>4. Revertible(t, queries, floor) /\ Imaged(t, queries, image, floor, block)
    <3>1. CASE currentBlock = 0
      <4>1. floor = block /\ \A q \in queries : q.block <= block
        BY <1>2, <3>1 DEF ApplyInv, Ordered
      <4>2. QED
        BY <1>3, <4>1 DEF Revertible, Imaged, Query, Blocks
    <3>2. CASE DOMAIN rows = {}
      <4>1. Undo([op |-> op, rows |-> rows], t) = t
        BY <3>2 DEF Undo, Table
      <4>2. t = table
        BY <4>1 DEF Undone
      <4>3. QED
        BY <1>2, <4>2 DEF ApplyInv
    <3>3. QED
      BY <1>5, <3>1, <3>2
  <2>5. ApplyInv' /\ Registered(queries, blocks, block)'
    BY <1>1, <1>2, <2>1, <2>4
       DEF ApplyInv, Ordered, Registered, Revertible, Imaged, Reverts,
           Executable, Undo
  <2>6. QED
    BY <1>1, <1>2, <2>2, <2>3, <2>5 DEF Inv
<1>6. QED
  BY <1>4, <1>5

LEMMA StartInv ==
  ASSUME Inv, NEW b \in Blocks, NEW l \in 0..MaxBlock, StartTransaction(b, l)
  PROVE  Inv'
<1>1. /\ phase = "idle" /\ lib' = l /\ block' = b /\ l >= lib
      /\ currentBlock' = IF b > l THEN b ELSE 0
      /\ b = position + 1 \/ b \in (lib + 1)..position
      /\ UNCHANGED <<table, queries, blocks, position, saved, nextId>>
  BY DEF StartTransaction
<1>2. TypeOK /\ SavedGood /\ IdleInv /\ floor <= lib
  BY <1>1 DEF Inv
<1>3. /\ queries \in SUBSET Query /\ blocks \in SUBSET Blocks
      /\ position \in Nat /\ floor \in Nat /\ lib \in Nat /\ nextId \in Nat
      /\ b \in Nat /\ l \in Nat /\ MaxBlock \in Nat /\ image \in [Blocks -> Table]
      /\ table \in Table
  BY <1>2, BoundAssumption DEF TypeOK, Blocks
<1>4. /\ Ordered(queries, position) /\ Revertible(table, queries, floor)
      /\ Imaged(table, queries, image, floor, position)
      /\ Registered(queries, blocks, position)
  BY <1>2 DEF IdleInv, SavedGood, Good
<1>5. SavedGood'
  BY <1>1, <1>3, SavedKept
<1>6. CASE b <= position
  <2>1. /\ phase' = "rollback" /\ todo' = {q \in queries : q.block >= b}
        /\ image' = image /\ floor' = floor
    BY <1>6 DEF StartTransaction
  <2>2. b \in (lib + 1)..position
    BY <1>1, <1>3, <1>6
  <2>3. TypeOK'
    BY <1>1, <1>2, <1>3, <2>1 DEF TypeOK, Blocks
  <2>4. Live' = queries
    BY <1>1, <1>3, <2>1 DEF Live, Query, Blocks
  <2>5. Revertible(table, Live, floor)'
    BY <1>1, <1>4, <2>1, <2>4 DEF Revertible, Reverts, Executable, Undo
  <2>6. Imaged(table, Live, image, floor, block)'
    BY <1>1, <1>3, <1>4, <1>6, <2>1, <2>4 DEF Imaged, Blocks
  <2>7. (Ordered(queries, position) /\ Registered(queries, blocks, position))'
    BY <1>1, <1>3, <1>4 DEF Ordered, Registered, Blocks
  <2>8. RollbackInv'
    BY <1>1, <1>2, <1>3, <2>1, <2>2, <2>5, <2>6, <2>7 DEF RollbackInv
  <2>9. QED
    BY <1>1, <1>2, <1>3, <1>5, <2>1, <2>3, <2>8 DEF Inv
<1>7. CASE ~ (b <= position)
  <2>1. /\ phase' = "register" /\ todo' = {}
        /\ image' = [image EXCEPT ![b] = table]
        /\ floor' = IF b > l THEN floor ELSE b
    BY <1>7 DEF StartTransaction
  <2>2. b = position + 1
    BY <1>1, <1>3, <1>7
  <2>3. TypeOK'
    BY <1>1, <1>2, <1>3, <2>1 DEF TypeOK, Blocks
  <2>4. \A q \in queries : q.block \in Nat /\ q.block <= position
    BY <1>3, <1>4 DEF Ordered, Query, Blocks
  <2>5. Ordered(queries, block)'
    BY <1>1, <1>3, <1>4, <2>2, <2>4 DEF Ordered
  <2>6. Registered(queries, blocks, block - 1)'
    BY <1>1, <1>3, <1>4, <2>2 DEF Registered, Blocks
  <2>7. Revertible(table, queries, floor)'
    <3>1. CASE b > l
      BY <1>1, <1>4, <2>1, <3>1 DEF Revertible, Reverts, Executable, Undo
    <3>2. CASE ~ (b > l)
      BY <1>1, <1>3, <2>1, <2>2, <2>4, <3>2 DEF Revertible
    <3>3. QED
      BY <3>1, <3>2
  <2>8. Imaged(table, queries, image, floor, block)'
    <3> SUFFICES ASSUME NEW n \in Blocks, floor' < n, n <= b
                 PROVE  /\ (\A q \in queries : q.block < n) => image'[n] = table
                        /\ \A q \in queries :
                             q.block >= n
                             /\ (\A p \in queries : p.block >= n => p.id >= q.id)
                               => image'[n] = q.before
      BY <1>1 DEF Imaged
    <3>1. CASE n = b
      BY <1>3, <2>1, <2>2, <2>4, <3>1
    <3>2. CASE n # b
      <4>1. n <= position /\ floor < n /\ image'[n] = image[n]
        BY <1>1, <1>2, <1>3, <2>1, <2>2, <3>2 DEF Blocks
      <4>2. QED
        BY <1>4, <4>1 DEF Imaged
    <3>3. QED
      BY <3>1, <3>2
  <2>9. ApplyInv'
    BY <1>1, <1>2, <1>3, <2>1, <2>2, <2>5, <2>7, <2>8 DEF ApplyInv
  <2>10. (floor <= lib)'
    BY <1>1, <1>2, <1>3, <2>1
  <2>11. QED
    BY <1>1, <1>5, <2>1, <2>3, <2>6, <2>9, <2>10 DEF Inv
<1>8. QED
  BY <1>6, <1>7

LEMMA ExecuteRollbackQueryInv ==
  ASSUME Inv, NEW e \in todo, ExecuteRollbackQuery(e)
  PROVE  Inv'
<1>1. /\ phase = "rollback" /\ phase' = "rollback"
      /\ \A p \in todo \ {e} : Later(e, p)
      /\ table' = Undo(e, table) /\ todo' = todo \ {e}
      /\ UNCHANGED <<queries, blocks, position, saved, nextId, block,
                     currentBlock, lib, image, floor>>
  BY DEF ExecuteRollbackQuery
<1>2. TypeOK /\ SavedGood /\ RollbackInv /\ floor <= lib
  BY <1>1 DEF Inv
<1>3. /\ queries \in SUBSET Query /\ todo \in SUBSET Query
      /\ block \in Nat /\ floor \in Nat /\ lib \in 0..MaxBlock /\ nextId \in Nat
  BY <1>2, BoundAssumption DEF TypeOK, RollbackInv, Blocks
<1>4. Live = {q \in queries : q.block < block} \cup todo
  BY <1>1 DEF Live
<1>5. Live \in SUBSET Query /\ e \in Live /\ \A q \in Live : q \in queries
  BY <1>2, <1>3, <1>4 DEF RollbackInv
<1>6. \A q \in queries : q.id \in Nat /\ q.block \in Nat
  BY <1>3 DEF Query, Blocks
<1>7. e \in queries /\ e.block >= block /\ e.block > floor
  BY <1>2, <1>3, <1>6 DEF RollbackInv
<1>8. \A p \in Live : p.id <= e.id
  <2> SUFFICES ASSUME NEW p \in Live PROVE p.id <= e.id
    OBVIOUS
  <2>1. \A q \in queries : q.id < p.id => q.block <= p.block
    BY <1>2, <1>5 DEF RollbackInv, Ordered
  <2>2. e.id < p.id => e.block <= p.block
    BY <1>7, <2>1
  <2>3. CASE p \in todo
    BY <1>1, <1>5, <1>6, <1>7, <2>2, <2>3 DEF Later
  <2>4. CASE p.block < block
    BY <1>3, <1>5, <1>6, <1>7, <2>2, <2>4
  <2>5. QED
    BY <1>4, <2>3, <2>4
<1>9. \A p, q \in Live : p.id = q.id => p = q
  BY <1>2, <1>5 DEF RollbackInv, Ordered
<1>10. Revertible(table, Live, floor) /\ Imaged(table, Live, image, floor, block)
  BY <1>2 DEF RollbackInv
<1>11. /\ Reverts(e, table)
       /\ Revertible(e.before, Live \ {e}, floor)
       /\ Imaged(e.before, Live \ {e}, image, floor, block)
  BY <1>3, <1>5, <1>7, <1>8, <1>9, <1>10, UndoneLog
<1>12. table' = e.before /\ e.before \in Table
  BY <1>1, <1>3, <1>11 DEF Reverts, Query
<1>13. Live' = Live \ {e}
  BY <1>1, <1>4, <1>7, <1>6, <1>3 DEF Live
<1>14. TypeOK'
  BY <1>1, <1>2, <1>12 DEF TypeOK
<1>15. SavedGood'
  BY <1>1, <1>3, SavedKept
<1>16. (Revertible(table, Live, floor) /\ Imaged(table, Live, image, floor, block))'
  BY <1>1, <1>11, <1>12, <1>13 DEF Revertible, Imaged, Reverts, Executable, Undo
<1>17. (Ordered(queries, position) /\ Registered(queries, blocks, position))'
  BY <1>1, <1>2 DEF RollbackInv, Ordered, Registered
<1>18. RollbackInv'
  BY <1>1, <1>2, <1>16, <1>17 DEF RollbackInv
<1>19. QED
  BY <1>1, <1>2, <1>14, <1>15, <1>18 DEF Inv

LEMMA FinishRollbackInv ==
  ASSUME Inv, FinishRollback
  PROVE  Inv'
<1> DEFINE Q == {q \in queries : q.block < block}
<1>1. /\ phase = "rollback" /\ phase' = "register" /\ todo = {}
      /\ queries' = Q
      /\ blocks' = {n \in blocks : n < block}
      /\ position' = block - 1
      /\ floor' = IF currentBlock = 0 THEN block ELSE floor
      /\ UNCHANGED <<table, saved, nextId, block, currentBlock, todo, lib, image>>
  BY DEF FinishRollback
<1>2. TypeOK /\ SavedGood /\ RollbackInv /\ floor <= lib
  BY <1>1 DEF Inv
<1>3. /\ queries \in SUBSET Query /\ blocks \in SUBSET Blocks /\ MaxBlock \in Nat
      /\ block \in Nat /\ block \in 1..MaxBlock /\ floor \in 0..MaxBlock
      /\ lib \in 0..MaxBlock /\ nextId \in Nat
  BY <1>2, BoundAssumption DEF TypeOK, RollbackInv, Blocks
<1>4. \A q \in queries : q.id \in Nat /\ q.block \in Nat
  BY <1>3 DEF Query, Blocks
<1>5. Live = Q
  BY <1>1 DEF Live
<1>6. TypeOK'
  <2>1. queries' \in SUBSET Query /\ blocks' \in SUBSET Blocks
    BY <1>1, <1>3
  <2>2. position' \in 0..MaxBlock /\ floor' \in 0..MaxBlock
    BY <1>1, <1>3
  <2> HIDE DEF Q
  <2>3. QED
    BY <1>1, <1>2, <2>1, <2>2 DEF TypeOK
<1>7. SavedGood'
  BY <1>1, <1>3, SavedKept
<1>8. Revertible(table, Q, floor) /\ Imaged(table, Q, image, floor, block)
  BY <1>2, <1>5 DEF RollbackInv
<1>9. Revertible(table, queries, floor)' /\ Imaged(table, queries, image, floor, block)'
  <2>1. CASE currentBlock = 0
    BY <1>1, <1>3, <1>4, <2>1 DEF Revertible, Imaged, Blocks
  <2>2. CASE currentBlock # 0
    BY <1>1, <1>8, <2>2 DEF Revertible, Imaged, Reverts, Executable, Undo
  <2>3. QED
    BY <2>1, <2>2
<1>10. Ordered(queries, block)'
  BY <1>1, <1>2, <1>3, <1>4 DEF RollbackInv, Ordered
<1>11. Registered(queries, blocks, block - 1)'
  <2>1. /\ \A q \in queries : q.block \in blocks
        /\ \A n \in Blocks : lib < n /\ n <= position => n \in blocks
    BY <1>2 DEF RollbackInv, Registered
  <2>2. block <= position /\ position \in 0..MaxBlock
    BY <1>2 DEF RollbackInv, TypeOK
  <2>3. \A q \in queries' : q.block \in blocks'
    BY <1>1, <2>1
  <2>4. \A n \in blocks' : n <= block - 1
    BY <1>1, <1>3 DEF Blocks
  <2>5. ASSUME NEW n \in Blocks, lib < n, n <= block - 1 PROVE n \in blocks'
    <3>1. n <= position /\ n < block
      BY <1>3, <2>2, <2>5 DEF Blocks
    <3>2. QED
      BY <1>1, <2>1, <2>5, <3>1
  <2> HIDE DEF Q
  <2>6. QED
    BY <1>1, <2>3, <2>4, <2>5 DEF Registered
<1>12. ApplyInv'
  BY <1>1, <1>2, <1>9, <1>10 DEF RollbackInv, ApplyInv
<1>13. (floor <= lib)'
  BY <1>1, <1>2 DEF RollbackInv
<1>14. QED
  BY <1>1, <1>6, <1>7, <1>11, <1>12, <1>13 DEF Inv

LEMMA RegisterBlockInv ==
  ASSUME Inv, RegisterBlock
  PROVE  Inv'
<1>1. /\ phase = "register" /\ phase' = "execute"
      /\ UNCHANGED <<table, position, saved, nextId, block, currentBlock, todo,
                     lib, image>>
  BY DEF RegisterBlock
<1>2. /\ TypeOK /\ SavedGood /\ ApplyInv /\ floor <= lib
      /\ Registered(queries, blocks, block - 1)
  BY <1>1 DEF Inv
<1>3. /\ queries \in SUBSET Query /\ blocks \in SUBSET Blocks /\ MaxBlock \in Nat
      /\ block \in Nat /\ block \in 1..MaxBlock /\ floor \in 0..MaxBlock
      /\ lib \in 0..MaxBlock /\ nextId \in Nat
  BY <1>2, BoundAssumption DEF TypeOK, ApplyInv, Blocks
<1>4. \A q \in queries : q.id \in Nat /\ q.block \in Nat
  BY <1>3 DEF Query, Blocks
<1>5. SavedGood'
  BY <1>1, <1>3, SavedKept
<1>6. CASE currentBlock = 0
  <2>1. UNCHANGED <<queries, blocks, floor>>
    BY <1>6 DEF RegisterBlock
  <2>2. floor = block
    BY <1>2, <1>6 DEF ApplyInv
  <2>3. TypeOK'
    BY <1>1, <1>2, <2>1 DEF TypeOK
  <2>4. ApplyInv'
    BY <1>1, <1>2, <2>1
       DEF ApplyInv, Ordered, Revertible, Imaged, Reverts, Executable, Undo
  <2>5. Registered(queries, blocks, block)'
    BY <1>1, <1>2, <1>3, <2>1, <2>2 DEF Registered, Blocks
  <2>6. QED
    BY <1>1, <1>2, <1>5, <2>1, <2>3, <2>4, <2>5 DEF Inv
<1>7. CASE currentBlock # 0 /\ currentBlock % ClearInterval # 0
  <2>1. queries' = queries /\ floor' = floor /\ blocks' = blocks \cup {block}
    BY <1>7 DEF RegisterBlock
  <2>2. TypeOK'
    BY <1>1, <1>2, <1>3, <2>1 DEF TypeOK, Blocks
  <2>3. ApplyInv'
    BY <1>1, <1>2, <2>1
       DEF ApplyInv, Ordered, Revertible, Imaged, Reverts, Executable, Undo
  <2>4. Registered(queries, blocks, block)'
    BY <1>1, <1>2, <1>3, <2>1 DEF Registered, Blocks
  <2>5. QED
    BY <1>1, <1>2, <1>5, <2>1, <2>2, <2>3, <2>4 DEF Inv
<1>8. CASE currentBlock # 0 /\ currentBlock % ClearInterval = 0
  <2>1. /\ queries' = {q \in queries : q.block > lib}
        /\ blocks' = {n \in blocks \cup {block} : n > lib}
        /\ floor' = IF lib > floor THEN lib ELSE floor
    BY <1>8 DEF RegisterBlock, ClearForkDatabase, RegisterAndClear
  <2>2. block > lib /\ floor < block
    BY <1>2, <1>8 DEF ApplyInv
  <2>3. TypeOK'
    BY <1>1, <1>2, <1>3, <2>1 DEF TypeOK, Blocks
  <2>4. /\ Ordered(queries, block) /\ Revertible(table, queries, floor)
        /\ Imaged(table, queries, image, floor, block)
    BY <1>2 DEF ApplyInv
  <2>5. floor' \in Nat /\ floor' >= lib /\ floor' >= floor
    BY <1>3, <2>1
  <2>6. Revertible(table, queries', floor') /\ Imaged(table, queries', image, floor', block)
    BY <1>3, <2>1, <2>4, <2>5, ClearedLog
  <2>7. Ordered(queries, block)'
    BY <1>1, <2>1, <2>4 DEF Ordered
  <2>8. ApplyInv'
    BY <1>1, <1>2, <1>3, <1>8, <2>1, <2>2, <2>6, <2>7
       DEF ApplyInv, Revertible, Imaged, Reverts, Executable, Undo
  <2>9. Registered(queries, blocks, block)'
    BY <1>1, <1>2, <1>3, <1>4, <2>1, <2>2 DEF Registered, Blocks
  <2>10. (floor <= lib)'
    BY <1>1, <1>2, <1>3, <2>1
  <2>11. QED
    BY <1>1, <1>5, <2>3, <2>8, <2>9, <2>10 DEF Inv
<1>9. QED
  BY <1>6, <1>7, <1>8

LEMMA CommitInv ==
  ASSUME Inv, Commit
  PROVE  Inv'
<1>1. /\ phase = "execute" /\ phase' = "idle" /\ position' = block
      /\ block' = 0 /\ currentBlock' = 0
      /\ saved' = [table |-> table, queries |-> queries, blocks |-> blocks,
                   position |-> block, image |-> image, floor |-> floor]
      /\ UNCHANGED <<table, queries, blocks, nextId, todo, lib, image, floor>>
  BY DEF Commit
<1>2. /\ TypeOK /\ ApplyInv /\ floor <= lib
      /\ Registered(queries, blocks, block)
  BY <1>1 DEF Inv
<1>3. block \in 0..MaxBlock
  BY <1>2 DEF TypeOK
<1>4. saved' \in Database
  BY <1>1, <1>2, <1>3 DEF TypeOK, Database
<1>5. TypeOK'
  BY <1>1, <1>2, <1>3, <1>4, BoundAssumption DEF TypeOK
<1>6. SavedGood'
  BY <1>1, <1>2
     DEF SavedGood, Good, ApplyInv, Ordered, Registered, Revertible, Imaged,
         Reverts, Executable, Undo
<1>7. IdleInv'
  BY <1>1, <1>2 DEF IdleInv, ApplyInv
<1>8. QED
  BY <1>1, <1>2, <1>5, <1>6, <1>7 DEF Inv

LEMMA AbortInv ==
  ASSUME Inv, Abort
  PROVE  Inv'
<1>1. /\ table' = saved.table /\ queries' = saved.queries
      /\ blocks' = saved.blocks /\ position' = saved.position
      /\ image' = saved.image /\ floor' = saved.floor
      /\ phase' = "idle" /\ block' = 0 /\ currentBlock' = 0 /\ todo' = {}
      /\ UNCHANGED <<saved, nextId, lib>>
  BY DEF Abort
<1>2. TypeOK /\ SavedGood
  BY DEF Inv
<1>3. saved \in Database /\ lib \in 0..MaxBlock /\ nextId \in Nat
  BY <1>2 DEF TypeOK
<1>4. TypeOK'
  BY <1>1, <1>2, <1>3, BoundAssumption DEF TypeOK, Database
<1>5. SavedGood'
  BY <1>1, <1>2, <1>3, BoundAssumption, SavedKept
<1>6. IdleInv'
  BY <1>1, <1>3 DEF IdleInv, Database
<1>7. (floor <= lib)'
  BY <1>1, <1>2 DEF SavedGood
<1>8. QED
  BY <1>1, <1>4, <1>5, <1>6, <1>7 DEF Inv

LEMMA NextInv == Inv /\ [Next]_vars => Inv'
<1> SUFFICES ASSUME Inv, [Next]_vars PROVE Inv'
  OBVIOUS
<1>1. CASE \E b \in Blocks, l \in 0..MaxBlock : StartTransaction(b, l)
  BY <1>1, StartInv
<1>2. CASE \E q \in todo : ExecuteRollbackQuery(q)
  BY <1>2, ExecuteRollbackQueryInv
<1>3. CASE FinishRollback
  BY <1>3, FinishRollbackInv
<1>4. CASE RegisterBlock
  BY <1>4, RegisterBlockInv
<1>5. CASE Statements
  <2>1. TypeOK
    BY DEF Inv
  <2>2. PICK t \in Table, rows \in RowMap, op \in {"insert", "update", "delete"} :
               Statement(t, op, rows) /\ Undone(op, rows, t)
    BY <1>5, <2>1, StatementsUndone
  <2>3. QED
    BY <2>2, StatementInv
<1>6. CASE Commit
  BY <1>6, CommitInv
<1>7. CASE Abort
  BY <1>7, AbortInv
<1>8. CASE UNCHANGED vars
  <2>1. TypeOK' /\ IdleInv' = IdleInv /\ Live' = Live
    BY <1>8 DEF vars, Inv, TypeOK, IdleInv, Live
  <2>2. SavedGood'
    BY <1>8 DEF vars, Inv, SavedGood, Good, Ordered, Revertible, Imaged,
                Registered, Reverts, Executable, Undo
  <2>3. phase = "rollback" => RollbackInv'
    BY <1>8, <2>1 DEF vars, Inv, RollbackInv, Ordered, Revertible, Imaged,
                Registered, Reverts, Executable, Undo
  <2>4. phase \in {"register", "execute"} => ApplyInv'
    BY <1>8 DEF vars, Inv, ApplyInv, Ordered, Revertible, Imaged, Reverts,
                Executable, Undo
  <2>5. /\ phase = "register" => Registered(queries, blocks, block - 1)'
        /\ phase = "execute" => Registered(queries, blocks, block)'
    BY <1>8 DEF vars, Inv, Registered
  <2>6. QED
    BY <1>8, <2>1, <2>2, <2>3, <2>4, <2>5 DEF vars, Inv
<1>9. QED
  BY <1>1, <1>2, <1>3, <1>4, <1>5, <1>6, <1>7, <1>8, NextCases

-----------------------------------------------------------------------------
(* The theorems *)

(* Every reachable state of the reversible store satisfies the inductive   *)
(* invariant.                                                              *)
THEOREM Invariance == Spec => []Inv
<1>1. QED
  BY InitInv, NextInv, PTL DEF Spec

(* The variables keep their types: class ContractDBTransaction never       *)
(* leaves a malformed row, query or position.                              *)
THEOREM TypeCorrect == Spec => []TypeOK
<1>1. Inv => TypeOK
  BY DEF Inv
<1>2. QED
  BY <1>1, Invariance, PTL

(* Between two queries of a rollback the newest of the remaining ones is   *)
(* executable, for any tables, any sequence of statements and any forks.   *)
THEOREM RollbackNeverThrowsTheorem == Spec => []RollbackNeverThrows
<1>1. Inv => RollbackNeverThrows
  <2> SUFFICES ASSUME Inv, phase = "rollback", NEW e \in todo,
                      \A p \in todo \ {e} : Later(e, p)
               PROVE  Executable(e, table)
    BY DEF RollbackNeverThrows
  <2>1. TypeOK /\ RollbackInv
    BY DEF Inv
  <2>2. /\ queries \in SUBSET Query /\ todo \in SUBSET Query
        /\ block \in Nat /\ floor \in Nat
    BY <2>1, BoundAssumption DEF TypeOK, RollbackInv, Blocks
  <2>3. Live = {q \in queries : q.block < block} \cup todo
    BY DEF Live
  <2>4. \A q \in Live : q \in queries
    BY <2>1, <2>3 DEF RollbackInv
  <2>5. \A q \in queries : q.id \in Nat /\ q.block \in Nat
    BY <2>2 DEF Query, Blocks
  <2>6. e \in queries /\ e.block >= block /\ e.block > floor
    BY <2>1, <2>2, <2>5 DEF RollbackInv
  <2>7. \A p \in Live : p.id <= e.id
    <3> SUFFICES ASSUME NEW p \in Live PROVE p.id <= e.id
      OBVIOUS
    <3>1. e.id < p.id => e.block <= p.block
      BY <2>1, <2>4, <2>6 DEF RollbackInv, Ordered
    <3>2. CASE p \in todo
      BY <2>4, <2>5, <2>6, <3>1, <3>2 DEF Later
    <3>3. CASE p.block < block
      BY <2>2, <2>4, <2>5, <2>6, <3>1, <3>3
    <3>4. QED
      BY <2>3, <3>2, <3>3
  <2>8. Revertible(table, Live, floor) /\ e \in Live
    BY <2>1, <2>3 DEF RollbackInv
  <2>9. QED
    BY <2>6, <2>7, <2>8 DEF Revertible, Reverts
<1>2. QED
  BY <1>1, Invariance, PTL

(* Executing the queries of the blocks >= n brings back the table block n  *)
(* was applied to.                                                         *)
THEOREM RollbackRestoresTheorem == Spec => []RollbackRestores
<1>1. Inv => RollbackRestores
  <2> SUFFICES ASSUME Inv, phase = "rollback", todo = {}
               PROVE  table = image[block]
    BY DEF RollbackRestores
  <2>1. TypeOK /\ RollbackInv
    BY DEF Inv
  <2>2. Imaged(table, Live, image, floor, block) /\ block \in Blocks /\ floor < block
    BY <2>1 DEF RollbackInv
  <2>3. Live = {q \in queries : q.block < block} /\ block <= block
    BY <2>2 DEF Live, Blocks
  <2>4. QED
    BY <2>2, <2>3 DEF Imaged
<1>2. QED
  BY <1>1, Invariance, PTL

(* The have_positions a restarted reader sends name every applied block    *)
(* that may still be replaced.                                             *)
THEOREM HavePositionsCompleteTheorem == Spec => []HavePositionsComplete
<1>1. Inv => HavePositionsComplete
  <2> SUFFICES ASSUME Inv, phase = "idle", NEW n \in (lib + 1)..position
               PROVE  n \in blocks
    BY DEF HavePositionsComplete
  <2>1. TypeOK /\ SavedGood /\ IdleInv
    BY DEF Inv
  <2>2. Registered(queries, blocks, position)
    BY <2>1 DEF SavedGood, Good, IdleInv
  <2>3. n \in Blocks /\ lib < n /\ n <= position
    BY <2>1, BoundAssumption DEF TypeOK, Blocks
  <2>4. QED
    BY <2>2, <2>3 DEF Registered
<1>2. QED
  BY <1>1, Invariance, PTL

(* No rollback query of an abandoned or forgotten block is left behind.    *)
THEOREM QueriesBelongToBlocksTheorem == Spec => []QueriesBelongToBlocks
<1>1. Inv => QueriesBelongToBlocks
  BY DEF Inv, SavedGood, Good, IdleInv, Registered, QueriesBelongToBlocks
<1>2. QED
  BY <1>1, Invariance, PTL
=============================================================================
