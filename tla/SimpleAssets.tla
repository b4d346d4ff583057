---------------------------- MODULE SimpleAssets ----------------------------
(***************************************************************************)
(* The handlers of the simpleassets contract: assets, their stored         *)
(* transfers, authors and the version of the contract                      *)
(* (src/filler/handlers/simpleassets).                                     *)
(***************************************************************************)
EXTENDS Contracts

SIMPLEASSETS_BASE_PRIORITY == 0
SA_TABLE_CONFIG        == SIMPLEASSETS_BASE_PRIORITY + 10
SA_TABLE_AUTHORS       == SIMPLEASSETS_BASE_PRIORITY + 20
SA_ACTION_MINT_ASSET   == SIMPLEASSETS_BASE_PRIORITY + 50
SA_ACTION_UPDATE_ASSET == SIMPLEASSETS_BASE_PRIORITY + 60

(* Assets have owner, author, mutable_data and burned_by_account; transfers *)
(* a transfer_id, sender, recipient and assets.                            *)

SimpleUpdates == {"burnlog", "update", "changeauthor", "transfer", "claim"}

SimpleListeners ==
  {On("createlog", "createlog", SA_ACTION_MINT_ASSET),
   On("authors", "authors", SA_TABLE_AUTHORS),
   On("simpleconfig", "simpleconfig", SA_TABLE_CONFIG)}
    \cup OnEach(SimpleUpdates, SA_ACTION_UPDATE_ASSET)

-----------------------------------------------------------------------------
(* The contract *)

SimpleAction(newChain, action, data) ==
  Send(newChain, <<With([action |-> action], data)>>, SimpleListeners)

SimpleOwned(a) == {x \in Assets : chain.simple[x] # NoRow /\ chain.simple[x].owner = a}

(* The contract with some new rows. *)
WithSimple(rows) == [chain EXCEPT !.simple = With(@, rows)]

(* A transfer, or a claim of offered assets, which may have several owners. *)
SimpleMove(action, a, b, ids) ==
  LET sequence == Cardinality(chain.simpleTransfers) + 1
      moved == [x \in ids |-> [chain.simple[x] EXCEPT !.owner = b]]
  IN  SimpleAction(
        [WithSimple(moved) EXCEPT !.simpleTransfers = @ \cup
           {[transfer_id |-> sequence, recipient |-> b, assets |-> ids,
             sender |-> IF action = "claim" THEN b ELSE a]}],
        action, [ids |-> ids, from |-> a, to |-> b, global_sequence |-> sequence])

SimpleAsset ==
  \/ \E x \in Assets, a \in Accounts :
       LET row == [state |-> "row", owner |-> a, author |-> a, mutable_data |-> "x",
                   burned_by_account |-> "null"]
       IN  /\ chain.simple[x] = NoRow /\ \A y \in 1..(x - 1) : chain.simple[y] # NoRow
           /\ SimpleAction(WithSimple([y \in {x} |-> row]), "createlog", [ids |-> {x}, row |-> row])
  \/ \E a \in Accounts : \E ids \in SUBSET SimpleOwned(a) \ {{}} :
       \/ LET burned == [x \in ids |->
                [chain.simple[x] EXCEPT !.owner = "null", !.burned_by_account = a]]
          IN  SimpleAction(WithSimple(burned), "burnlog", [ids |-> ids, owner |-> a])
       \/ \E v \in {"x", "y"} :
            LET new == [x \in ids |-> [chain.simple[x] EXCEPT !.mutable_data = v]]
            IN  Cardinality(ids) = 1
                /\ SimpleAction(WithSimple(new), "update", [ids |-> ids, mdata |-> v])
       \/ \E b \in Accounts :
            LET new == [x \in ids |-> [chain.simple[x] EXCEPT !.author = b]]
            IN  SimpleAction(WithSimple(new), "changeauthor", [ids |-> ids, newauthor |-> b])
       \/ \E b \in Accounts \ {a} : SimpleMove("transfer", a, b, ids)
  \/ \E b \in Accounts :
       \E ids \in SUBSET UNION {SimpleOwned(a) : a \in Accounts \ {b}} \ {{}} :
         SimpleMove("claim", b, b, ids)

SimpleAuthor ==
  \E a \in Accounts, v \in {"none", "x", "y"} :
    /\ chain.authors[a] # v
    /\ SimpleAction([chain EXCEPT !.authors[a] = v], "authors",
                    [author |-> a, present |-> v # "none", value |-> v])

SimpleVersion ==
  SimpleAction([chain EXCEPT !.simpleVersion = @ + 1], "simpleconfig",
               [version |-> chain.simpleVersion + 1])

-----------------------------------------------------------------------------
(* The handlers *)

(* The rows an update finds. *)
SimpleFound(j) ==
  {x \in Assets \cap j.trace.ids :
     /\ tables.simple[x] # NoRow
     /\ j.callback = "transfer" => tables.simple[x].owner = j.trace.from}

SimpleThrows(j) == j.callback \in SimpleUpdates /\ SimpleFound(j) = {}

SimpleUpdate(j, callback, rows, transfers) ==
  /\ Runs(j, callback) /\ ~ SimpleThrows(j)
  /\ tables' = [tables EXCEPT
       !.simple = With(@, rows),
       !.simpleTransfers = @ \cup transfers]
  /\ UNCHANGED memory /\ JobFrame

CreateLog(j) ==
  /\ Runs(j, "createlog")
  /\ memory' = [memory EXCEPT !.simpleInserts = @ \cup {j.trace}]
  /\ UNCHANGED tables /\ JobFrame

(* onPriorityComplete(ACTION_MINT_ASSET): the table t with the new assets. *)
SimpleInserted(t) ==
  [t EXCEPT !.simple = [x \in Assets |->
     IF \E r \in memory.simpleInserts : x \in r.ids
     THEN (CHOOSE r \in memory.simpleInserts : x \in r.ids).row ELSE @[x]]]

BurnLog(j) ==
  LET burned == [x \in SimpleFound(j) |->
        [tables.simple[x] EXCEPT !.owner = "null", !.burned_by_account = j.trace.owner]]
  IN  SimpleUpdate(j, "burnlog", burned, {})

UpdateData(j) ==
  LET new == [x \in SimpleFound(j) |-> [tables.simple[x] EXCEPT !.mutable_data = j.trace.mdata]]
  IN  SimpleUpdate(j, "update", new, {})

ChangeAuthor(j) ==
  LET new == [x \in SimpleFound(j) |-> [tables.simple[x] EXCEPT !.author = j.trace.newauthor]]
  IN  SimpleUpdate(j, "changeauthor", new, {})

StoredTransfer(j, sender) ==
  {[transfer_id |-> j.trace.global_sequence, sender |-> sender, recipient |-> j.trace.to,
    assets |-> j.trace.ids]}

SimpleTransfer(j) ==
  LET moved == [x \in SimpleFound(j) |-> [tables.simple[x] EXCEPT !.owner = j.trace.to]]
  IN  SimpleUpdate(j, "transfer", moved, StoredTransfer(j, j.trace.from))

(* The sender is read after the assets were given to the claimer. *)
Claim(j) ==
  LET moved == [x \in SimpleFound(j) |-> [tables.simple[x] EXCEPT !.owner = j.trace.to]]
  IN  SimpleUpdate(j, "claim", moved, StoredTransfer(j, j.trace.to))

Author(j) ==
  /\ Runs(j, "authors")
  /\ tables' = [tables EXCEPT !.authors[j.trace.author] =
       IF j.trace.present THEN j.trace.value ELSE "none"]
  /\ UNCHANGED memory /\ JobFrame

(* The row is updated if the remembered version differs. *)
SimpleTokenConfigs(j) ==
  /\ Runs(j, "simpleconfig")
  /\ tables' = IF memory.simpleVersion = j.trace.version THEN tables
               ELSE [tables EXCEPT !.simpleVersion = j.trace.version]
  /\ memory' = [memory EXCEPT !.simpleVersion = j.trace.version]
  /\ JobFrame

SimpleJob(j) ==
  \/ CreateLog(j) \/ BurnLog(j) \/ UpdateData(j) \/ ChangeAuthor(j) \/ SimpleTransfer(j)
  \/ Claim(j) \/ Author(j) \/ SimpleTokenConfigs(j)

(* The sender of a claim is the claimer: not who had the assets. *)
SimpleMatch ==
  /\ tables.simple = chain.simple /\ tables.authors = chain.authors
  /\ tables.simpleTransfers = chain.simpleTransfers

SimpleConfigMatches == chain.simpleVersion # 0 => tables.simpleVersion = chain.simpleVersion
=============================================================================
