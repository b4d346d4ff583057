----------------------------- MODULE ContractDB -----------------------------
(***************************************************************************)
(* The reversible store of a reader: class ContractDB and class            *)
(* ContractDBTransaction of src/filler/database.ts, driven the way         *)
(* StateReceiver.process drives them, one transaction per block.           *)
(*                                                                         *)
(* A handler's insert, update, delete or replace changes a table of the    *)
(* reader and, when the block may still be forked out, records in          *)
(* reversible_queries the query that undoes it.  A fork executes those     *)
(* queries, newest first, and deletes them.  Blocks that became            *)
(* irreversible lose their queries (clearForkDatabase).  Everything        *)
(* happens inside one PostgreSQL transaction: an error or a crash brings   *)
(* back the committed state.                                               *)
(*                                                                         *)
(* One table stands for all tables: its primary keys are Keys, its other   *)
(* columns Cols.  A statement may touch several rows; its rollback         *)
(* queries, one database row per changed row with consecutive ids, are one *)
(* element of queries here, because they concern different primary keys    *)
(* and commute.                                                            *)
(***************************************************************************)
EXTENDS Integers, FiniteSets

CONSTANTS
  Keys,          \* primary keys of the table
  Cols,          \* its other columns
  Vals,          \* values of a column
  NoRow,         \* no row has this primary key
  ClearInterval, \* 12 in the code: how often the fork database is cleared
  MaxBlock,      \* bound: highest block number
  MaxId          \* bound: rollback queries ever recorded

ASSUME NoRowAssumption == NoRow \notin [Cols -> Vals]
ASSUME ClearIntervalAssumption == ClearInterval \in Nat \ {0}
ASSUME BoundAssumption == MaxBlock \in Nat /\ MaxId \in Nat

VARIABLES
  \* --- the database as the open transaction sees it
  table,      \* the reader's table
  queries,    \* reversible_queries
  blocks,     \* reversible_blocks: block numbers
  position,   \* contract_readers.block_num
  \* --- the transaction
  saved,      \* the committed database, what ROLLBACK brings back
  nextId,     \* reversible_queries_id_seq; a sequence is not rolled back
  phase,      \* where StateReceiver.process stands
  block,      \* the block it processes
  currentBlock, \* ContractDBTransaction.currentBlock, 0 for irreversible
  todo,       \* rollback queries selected and not executed yet
  lib,        \* last irreversible block of the latest response
  \* --- history, read by the properties only
  image,      \* image[n]: the table before block n was applied
  floor       \* blocks up to floor cannot be undone any more

dbVars  == <<table, queries, blocks, position, image, floor>>
vars    == <<table, queries, blocks, position, saved, nextId, phase, block,
             currentBlock, todo, lib, image, floor>>

Blocks     == 1..MaxBlock
Row        == [Cols -> Vals]
Table      == [Keys -> Row \cup {NoRow}]
PartialRow == UNION {[C -> Vals] : C \in SUBSET Cols}
RowMap     == UNION {[K -> PartialRow] : K \in SUBSET Keys}

(***************************************************************************)
(* A row of reversible_queries.  before is history: the table before the   *)
(* statement that recorded the query.                                      *)
(***************************************************************************)
Query == [id: Nat, block: Blocks, op: {"insert", "update", "delete"},
          rows: RowMap, before: Table]

Database == [table: Table, queries: SUBSET Query, blocks: SUBSET Blocks,
             position: 0..MaxBlock, image: [Blocks -> Table],
             floor: 0..MaxBlock]

TypeOK ==
  /\ table \in Table
  /\ queries \in SUBSET Query
  /\ blocks \in SUBSET Blocks
  /\ position \in 0..MaxBlock
  /\ saved \in Database
  /\ nextId \in Nat
  /\ phase \in {"idle", "rollback", "register", "execute"}
  /\ block \in 0..MaxBlock
  /\ currentBlock \in {0, block}
  /\ todo \in SUBSET Query
  /\ lib \in 0..MaxBlock
  /\ image \in [Blocks -> Table]
  /\ floor \in 0..MaxBlock

-----------------------------------------------------------------------------
(* Rollback queries *)

(* A 'delete' query carries no column values. *)
NoCols == [c \in {} |-> NoRow]

(* r with the columns of v replaced. *)
Overlay(r, v) == [c \in Cols |-> IF c \in DOMAIN v THEN v[c] ELSE r[c]]

(* Mutant of Changed: the filter is inverted for assigned columns. *)
ChangedDropsAssigned(r, v, C) ==
  LET D == {c \in C : c \notin DOMAIN v} IN [c \in D |-> r[c]]

(* removeIdenticalValues: the columns of the row r, among those in C, that *)
(* an assignment of v changes.                                             *)
Changed(r, v, C) ==
  LET D == {c \in C : ~ (c \in DOMAIN v /\ v[c] = r[c])}
  IN  [c \in D |-> r[c]]

(* What executing the rollback query q makes of the table t. *)
Undo(q, t) ==
  [k \in Keys |->
     IF k \notin DOMAIN q.rows THEN t[k]
     ELSE IF q.op = "delete" THEN NoRow
     ELSE IF q.op = "insert" THEN q.rows[k]
     ELSE Overlay(t[k], q.rows[k])]

(* The query does not throw: an INSERT meets no row with its primary key,  *)
(* an UPDATE affects a row.                                                *)
Executable(q, t) ==
  \A k \in DOMAIN q.rows :
    /\ q.op = "insert" => t[k] = NoRow
    /\ q.op = "update" => t[k] # NoRow

(* saveRollbackQueries of the statement's queries, if the block is         *)
(* reversible and the statement changed a row.                             *)
Record(op, rows) ==
  IF currentBlock # 0 /\ DOMAIN rows # {}
  THEN /\ nextId < MaxId
       /\ queries' = queries \cup {[id |-> nextId, block |-> currentBlock,
                                    op |-> op, rows |-> rows, before |-> table]}
       /\ nextId' = nextId + 1
  ELSE UNCHANGED <<queries, nextId>>

(* Mutant of Later: ORDER BY block_num DESC, id. *)
LaterOldestFirst(p, q) == p.block > q.block \/ (p.block = q.block /\ p.id < q.id)

(* ORDER BY block_num DESC, id DESC: p is executed before q. *)
Later(p, q) == p.block > q.block \/ (p.block = q.block /\ p.id > q.id)

-----------------------------------------------------------------------------
Init ==
  /\ table = [k \in Keys |-> NoRow]
  /\ queries = {} /\ blocks = {} /\ position = 0
  /\ image = [n \in Blocks |-> table] /\ floor = 0
  /\ saved = [table |-> table, queries |-> {}, blocks |-> {}, position |-> 0,
              image |-> image, floor |-> 0]
  /\ nextId = 0
  /\ phase = "idle" /\ block = 0 /\ currentBlock = 0
  /\ todo = {}
  /\ lib = 0

(* The next block b arrives and the last irreversible block is now l.  A   *)
(* block that is not new replaces a block of another branch; the chain     *)
(* never replaces one at or below the last irreversible block.             *)
StartTransaction(b, l) ==
  /\ phase = "idle"
  /\ b = position + 1 \/ b \in (lib + 1)..position
  /\ l >= lib
  /\ lib' = l
  /\ block' = b
  /\ currentBlock' = IF b > l THEN b ELSE 0
  /\ IF b <= position
     THEN /\ phase' = "rollback"
          /\ todo' = {q \in queries : q.block >= b}
          /\ UNCHANGED <<image, floor>>
     ELSE /\ phase' = "register"
          /\ todo' = {}
          /\ image' = [image EXCEPT ![b] = table]
          /\ floor' = IF b > l THEN floor ELSE b
  /\ UNCHANGED <<table, queries, blocks, position, saved, nextId>>

(* rollbackReversibleBlocks, one query of its loop. *)
ExecuteRollbackQuery(q) ==
  /\ phase = "rollback"
  /\ \A p \in todo \ {q} : Later(q, p)
  /\ Executable(q, table)
  /\ table' = Undo(q, table)
  /\ todo' = todo \ {q}
  /\ UNCHANGED <<queries, blocks, position, saved, nextId, phase, block,
                 currentBlock, lib, image, floor>>

(* rollbackReversibleBlocks, the statements behind its loop. *)
FinishRollback ==
  /\ phase = "rollback" /\ todo = {}
  /\ queries' = {q \in queries : q.block < block}
  /\ blocks' = {n \in blocks : n < block}
  /\ position' = block - 1
  /\ floor' = IF currentBlock = 0 THEN block ELSE floor
  /\ phase' = "register"
  /\ UNCHANGED <<table, saved, nextId, block, currentBlock, todo, lib, image>>

(* The block enters reversible_blocks; queries of blocks up to lastQuery   *)
(* and reversible_blocks up to lastBlock are deleted.                      *)
RegisterAndClear(lastQuery, lastBlock) ==
  /\ queries' = {q \in queries : q.block > lastQuery}
  /\ blocks' = {n \in blocks \cup {block} : n > lastBlock}
  /\ floor' = IF lib > floor THEN lib ELSE floor

(* Mutants of ClearForkDatabase: one block too many is forgotten; only the *)
(* blocks are, and their queries stay.                                     *)
ClearForkDatabaseOffByOne == RegisterAndClear(lib, lib + 1)
ClearForkDatabaseBlocks   == RegisterAndClear(0, lib)

(* clearForkDatabase, executed right after the block is registered. *)
ClearForkDatabase == RegisterAndClear(lib, lib)

(* A reversible block is entered in reversible_blocks; every ClearInterval *)
(* blocks the fork database forgets what is irreversible.  The rollback    *)
(* query insert() records for the entry deletes what FinishRollback        *)
(* deletes anyway, and is left out.                                        *)
RegisterBlock ==
  /\ phase = "register"
  /\ IF currentBlock = 0
     THEN UNCHANGED <<queries, blocks, floor>>
     ELSE /\ block \notin blocks
          /\ IF currentBlock % ClearInterval = 0
             THEN ClearForkDatabase
             ELSE /\ blocks' = blocks \cup {block}
                  /\ UNCHANGED <<queries, floor>>
  /\ phase' = "execute"
  /\ UNCHANGED <<table, position, saved, nextId, block, currentBlock, todo,
                 lib, image>>

(* A statement of a handler changes the table to t; op and rows are its    *)
(* rollback query.                                                         *)
Statement(t, op, rows) ==
  /\ phase = "execute"
  /\ table' = t
  /\ Record(op, rows)
  /\ UNCHANGED <<blocks, position, saved, phase, block, currentBlock, todo,
                 lib, image, floor>>

(* insert: the rows are new, or the primary key refuses them. *)
Insert(new) ==
  /\ \A k \in DOMAIN new : table[k] = NoRow
  /\ Statement([k \in Keys |-> IF k \in DOMAIN new THEN new[k] ELSE table[k]],
               "delete", [k \in DOMAIN new |-> NoCols])

(* update: the condition selects the rows K, an empty selection throws. *)
Update(K, v) ==
  /\ K # {} /\ \A k \in K : table[k] # NoRow
  /\ LET D == {k \in K : DOMAIN Changed(table[k], v, DOMAIN v) # {}}
     IN  Statement([k \in Keys |-> IF k \in K THEN Overlay(table[k], v)
                                               ELSE table[k]],
                   "update", [k \in D |-> Changed(table[k], v, DOMAIN v)])

(* delete: the condition selects the rows K, possibly none. *)
Delete(K) ==
  /\ \A k \in K : table[k] # NoRow
  /\ Statement([k \in Keys |-> IF k \in K THEN NoRow ELSE table[k]],
               "insert", [k \in K |-> table[k]])

(* replace: update the row except for the columns in blacklist, or insert  *)
(* it.  The rollback of an update covers every column of the old row that  *)
(* the assignment does not mention or changes.                             *)
Replace(key, row, blacklist) ==
  LET v   == [c \in Cols \ blacklist |-> row[c]]
      old == Changed(table[key], v, Cols)
      D   == IF DOMAIN old = {} THEN {} ELSE {key}
  IN  IF table[key] = NoRow THEN Insert([k \in {key} |-> row])
      ELSE Statement([table EXCEPT ![key] = Overlay(@, v)],
                     "update", [k \in D |-> old])

(* updateReaderPosition and COMMIT. *)
Commit ==
  /\ phase = "execute"
  /\ position' = block
  /\ saved' = [table |-> table, queries |-> queries, blocks |-> blocks,
               position |-> block, image |-> image, floor |-> floor]
  /\ phase' = "idle" /\ block' = 0 /\ currentBlock' = 0
  /\ UNCHANGED <<table, queries, blocks, nextId, todo, lib, image, floor>>

(* Mutant of Abort: the transaction's block is not forgotten. *)
AbortKeepsBlock ==
  /\ phase # "idle"
  /\ table' = saved.table /\ queries' = saved.queries
  /\ blocks' = saved.blocks /\ position' = saved.position
  /\ image' = saved.image /\ floor' = saved.floor
  /\ phase' = "idle" /\ block' = 0 /\ todo' = {}
  /\ UNCHANGED <<saved, nextId, currentBlock, lib>>

(* ROLLBACK: a query or a handler threw, or the process died.  The reader  *)
(* resumes from the committed database.                                    *)
Abort ==
  /\ phase # "idle"
  /\ table' = saved.table /\ queries' = saved.queries
  /\ blocks' = saved.blocks /\ position' = saved.position
  /\ image' = saved.image /\ floor' = saved.floor
  /\ phase' = "idle" /\ block' = 0 /\ currentBlock' = 0 /\ todo' = {}
  /\ UNCHANGED <<saved, nextId, lib>>

Next ==
  \/ \E b \in Blocks, l \in 0..MaxBlock : StartTransaction(b, l)
  \/ \E q \in todo : ExecuteRollbackQuery(q)
  \/ FinishRollback
  \/ RegisterBlock
  \/ \E K \in SUBSET Keys \ {{}} : \E new \in [K -> Row] : Insert(new)
  \/ \E K \in SUBSET Keys : \E v \in {w \in PartialRow : DOMAIN w # {}} : Update(K, v)
  \/ \E K \in SUBSET Keys : Delete(K)
  \/ \E k \in Keys, row \in Row, blacklist \in (SUBSET Cols) \ {Cols} :
       Replace(k, row, blacklist)
  \/ Commit
  \/ Abort

Spec == Init /\ [][Next]_vars

-----------------------------------------------------------------------------
(* Undoing the recorded queries in the order of the code's ORDER BY never  *)
(* throws: each INSERT finds its primary keys free, each UPDATE its rows.  *)
RollbackNeverThrows ==
  phase = "rollback" =>
    \A q \in todo : (\A p \in todo \ {q} : Later(q, p)) => Executable(q, table)

(* After the queries of blocks >= n are executed the table is what it was  *)
(* before block n was applied, whatever the blocks above did to it and     *)
(* however many forks, aborts and clean-ups came in between.               *)
RollbackRestores ==
  phase = "rollback" /\ todo = {} => table = image[block]

(* Whenever the reader may be started (again), reversible_blocks holds     *)
(* every applied block the chain may still replace: have_positions of the  *)
(* request to the state history node misses none.                          *)
HavePositionsComplete ==
  phase = "idle" => (lib + 1)..position \subseteq blocks

(* No rollback query survives the block it belongs to: a query a later     *)
(* rollback executes is never one of an abandoned or a forgotten block.    *)
QueriesBelongToBlocks ==
  phase = "idle" => \A q \in queries : q.block \in blocks
=============================================================================
