----------------------------- MODULE AssetTables -----------------------------
(***************************************************************************)
(* The tables of the atomicassets contract that AtomicAssets leaves out:   *)
(* configuration, collections, schemas, templates, balances, the data,     *)
(* backing and minting of assets, stored transfers and logs                *)
(* (src/filler/handlers/atomicassets/processors).                          *)
(*                                                                         *)
(* A schema or format is the number of its attributes: they can only be    *)
(* extended, and data can be read with any format that is as long as the   *)
(* one it was written with.                                                *)
(***************************************************************************)
EXTENDS Contracts

ATOMICASSETS_BASE_PRIORITY == 0
AA_LOGS           == 0
AA_TABLE_BALANCES == ATOMICASSETS_BASE_PRIORITY + 10
AA_TABLE_CONFIG   == ATOMICASSETS_BASE_PRIORITY + 10
TABLE_COLLECTIONS == ATOMICASSETS_BASE_PRIORITY + 20
TABLE_SCHEMAS     == ATOMICASSETS_BASE_PRIORITY + 20
TABLE_TEMPLATES   == ATOMICASSETS_BASE_PRIORITY + 40
AA_ACTION_MINT_ASSET   == ATOMICASSETS_BASE_PRIORITY + 50
AA_ACTION_UPDATE_ASSET == ATOMICASSETS_BASE_PRIORITY + 60

(* Collections have format and market_fee, templates max_supply, assets    *)
(* minter, mutable_data and backed tokens, the config tokens, format and   *)
(* version; the other columns never change.                                *)

AssetUpdates    == {"logbackasset", "logsetdata"}
CollectionLogs  == {"createcol", "addcolauth", "forbidnotify", "remcolauth", "remnotifyacc",
                    "setmarketfee", "setcoldata"}
DefinitionLogs  == CollectionLogs \cup {"lognewtempl", "locktemplate", "createschema", "extendschema"}

(* logs.ts *)
AssetLogs == Logs(AssetUpdates \cup DefinitionLogs \cup {"logmint"}, AA_LOGS)

AssetListeners ==
  {On("logmint", "minted", AA_ACTION_MINT_ASSET),
   On("logtransfer", "stored", AA_ACTION_UPDATE_ASSET),
   On("aaconfig", "aaconfig", AA_TABLE_CONFIG), On("aatokens", "aatokens", AA_TABLE_CONFIG),
   On("aabalances", "aabalances", AA_TABLE_BALANCES),
   On("collections", "collections", TABLE_COLLECTIONS),
   On("schemas", "schemas", TABLE_SCHEMAS), On("templates", "templates", TABLE_TEMPLATES)}
    \cup OnEach(AssetUpdates, AA_ACTION_UPDATE_ASSET)
    \cup AssetLogs

-----------------------------------------------------------------------------
(* The contract *)

AssetsAction(newChain, ts) == Send(newChain, ts, AssetListeners)

Row(table, data) == With([action |-> table, present |-> TRUE], data)

(* Assets that exist are minted, filled, backed with tokens and moved. *)
MintedAsset(i) ==
  LET row == chain.minted[i]
      sequence == Cardinality(chain.transfers) + 1
      Becomes(action, data, new) ==
        AssetsAction([chain EXCEPT !.minted[i] = new], <<With([action |-> action, id |-> i], data)>>)
  IN  \/ /\ row = NoRow
         /\ \E a \in Accounts :
              Becomes("logmint", [minter |-> a],
                      [state |-> "row", minter |-> a, mutable_data |-> "x", backed |-> 0])
      \/ /\ row # NoRow
         /\ \/ \E v \in {"x", "y"} :
                 Becomes("logsetdata", [new_data |-> v], [row EXCEPT !.mutable_data = v])
            \/ Becomes("logbackasset", [amount |-> 1], [row EXCEPT !.backed = @ + 1])
            \/ \E a \in Accounts :
                 LET new == [transfer_id |-> sequence, recipient |-> a, asset |-> i]
                 IN  AssetsAction([chain EXCEPT !.transfers = @ \cup {new}],
                                  <<[action |-> "logtransfer", transfer |-> new]>>)

(* An action on a definition writes a row: its log, and the row. *)
Define(action, newChain, table, data) ==
  AssetsAction(newChain, <<[action |-> action], Row(table, data)>>)

Collection(i) ==
  \E action \in {"createcol", "setmarketfee", "setcoldata"}, v \in {"x", "y"} :
    LET old == chain.collections[i]
        new == [state |-> "row", format |-> chain.assetConfig.format, market_fee |-> v]
        unread == [new EXCEPT !.format = old.format]
    IN  /\ (action = "createcol") <=> (old = NoRow)
        /\ action = "setmarketfee" \/ v = "x"
        /\ IF action = "setmarketfee"
           THEN Define(action, [chain EXCEPT !.collections[i] = unread], "collections",
                       [id |-> i, row |-> unread])
           ELSE Define(action, [chain EXCEPT !.collections[i] = new], "collections",
                       [id |-> i, row |-> new])

(* Every template here belongs to the schema of its number. *)
Definition(i) ==
  LET old == chain.templates[i]
      schema == chain.schemas[i]
      SetTemplate(action, row) ==
        Define(action, [chain EXCEPT !.templates[i] = row], "templates",
               [id |-> i, schema |-> schema, row |-> row])
  IN  \/ Define(IF schema = 0 THEN "createschema" ELSE "extendschema",
                [chain EXCEPT !.schemas[i] = schema + 1], "schemas",
                [id |-> i, format |-> schema + 1])
      \/ schema # 0 /\ old = NoRow /\ SetTemplate("lognewtempl", [state |-> "row", max_supply |-> "any"])
      \/ old.state = "row" /\ SetTemplate("locktemplate", [old EXCEPT !.max_supply = "issued"])
      \/ /\ old.state = "row"
         /\ AssetsAction([chain EXCEPT !.templates[i].state = "deleted"],
                         <<[action |-> "templates", present |-> FALSE, id |-> i]>>)

AssetConfiguration ==
  LET old == chain.assetConfig
      Configured(table, new) ==
        AssetsAction([chain EXCEPT !.assetConfig = new], <<Row(table, [value |-> new])>>)
  IN  \/ Configured("aatokens", [old EXCEPT !.version = @ + 1])
      \/ old.tokens = {} /\ Configured("aaconfig", [old EXCEPT !.tokens = {"token"}])
      \/ Configured("aaconfig", [old EXCEPT !.format = @ + 1])

AssetBalance(a) ==
  \E v \in {"none", "empty", "some"} :
    /\ chain.assetBalances[a] # v
    /\ AssetsAction([chain EXCEPT !.assetBalances[a] = v],
                    <<[action |-> "aabalances", owner |-> a, value |-> v, present |-> v # "none"]>>)

-----------------------------------------------------------------------------
(* The handlers *)

AssetsThrow(j) ==
  CASE j.callback = "logsetdata" -> tables.minted[j.trace.id] = NoRow
    [] j.callback = "aaconfig" ->
         /\ Cardinality(memory.assetConfig.tokens) # Cardinality(j.trace.value.tokens)
         /\ (j.trace.value.tokens \ memory.assetConfig.tokens) \cap tables.assetConfig.tokens # {}
    [] j.callback = "collections" -> j.trace.row.format > memory.assetConfig.format
    [] j.callback = "templates" ->
         /\ j.trace.present /\ tables.templates[j.trace.id] = NoRow
         /\ tables.schemas[j.trace.id] < j.trace.schema
    [] OTHER -> FALSE

AssetsChange(j, callback, newTables) ==
  /\ Runs(j, callback) /\ ~ AssetsThrow(j)
  /\ tables' = newTables
  /\ UNCHANGED memory /\ JobFrame

(* logmint *)
Minted(j) ==
  /\ Runs(j, "minted")
  /\ memory' = [memory EXCEPT !.mints = @ \cup {j.trace}]
  /\ UNCHANGED tables /\ JobFrame

(* onPriorityComplete(ACTION_MINT_ASSET): the assets and the mints. *)
AssetsInserted(t) ==
  [t EXCEPT !.minted = [i \in Ids |->
     IF \E r \in memory.mints : r.id = i
     THEN [state |-> "row", minter |-> (CHOOSE r \in memory.mints : r.id = i).minter,
           mutable_data |-> "x", backed |-> 0]
     ELSE @[i]]]

(* The amount there is, and the new one. *)
LogBackAsset(j) ==
  AssetsChange(j, "logbackasset", [tables EXCEPT !.minted[j.trace.id].backed = @ + j.trace.amount])

LogSetData(j) ==
  AssetsChange(j, "logsetdata", [tables EXCEPT !.minted[j.trace.id].mutable_data = j.trace.new_data])

(* logtransfer: atomicassets_transfers and its assets. *)
StoreTransfer(j) ==
  AssetsChange(j, "stored", [tables EXCEPT !.transfers = @ \cup {j.trace.transfer}])

(* Tokens are added if there are more or less than remembered, the format  *)
(* is written if it is longer or shorter.                                  *)
AssetConfig(j) ==
  LET old == memory.assetConfig
      new == j.trace.value
  IN  /\ Runs(j, "aaconfig") /\ ~ AssetsThrow(j)
      /\ tables' = [tables EXCEPT
           !.assetConfig.tokens = IF Cardinality(old.tokens) # Cardinality(new.tokens)
                                  THEN @ \cup (new.tokens \ old.tokens) ELSE @,
           !.assetConfig.format = IF old.format # new.format THEN new.format ELSE @]
      /\ memory' = [memory EXCEPT !.assetConfig.tokens = new.tokens,
                                  !.assetConfig.format = new.format]
      /\ JobFrame

AssetTokenConfigs(j) ==
  LET new == j.trace.value.version
  IN  /\ Runs(j, "aatokens")
      /\ tables' = IF memory.assetConfig.version = new THEN tables
                   ELSE [tables EXCEPT !.assetConfig.version = new]
      /\ memory' = [memory EXCEPT !.assetConfig.version = new]
      /\ JobFrame

Collections(j) ==
  AssetsChange(j, "collections", [tables EXCEPT !.collections[j.trace.id] = j.trace.row])

Schemas(j) ==
  AssetsChange(j, "schemas", [tables EXCEPT !.schemas[j.trace.id] = j.trace.format])

(* A template that was deleted keeps its row. *)
Templates(j) ==
  AssetsChange(j, "templates",
    IF j.trace.present THEN [tables EXCEPT !.templates[j.trace.id] = j.trace.row] ELSE tables)

(* The rows of an owner are deleted, then one per quantity inserted. *)
AssetBalances(j) ==
  AssetsChange(j, "aabalances", [tables EXCEPT !.assetBalances[j.trace.owner] =
    IF j.trace.value = "some" THEN "some" ELSE "none"])

AssetsJob(j) ==
  \/ Minted(j) \/ LogBackAsset(j) \/ LogSetData(j) \/ StoreTransfer(j)
  \/ AssetConfig(j) \/ AssetTokenConfigs(j)
  \/ Collections(j) \/ Schemas(j) \/ Templates(j) \/ AssetBalances(j)

-----------------------------------------------------------------------------
(* Deleted templates are shown as rows, empty lists of quantities as none. *)
AssetsMatch ==
  /\ tables.minted = chain.minted /\ tables.transfers = chain.transfers
  /\ tables.collections = chain.collections /\ tables.schemas = chain.schemas
  /\ \A i \in Ids : tables.templates[i] = IF chain.templates[i].state = "deleted"
                                          THEN [chain.templates[i] EXCEPT !.state = "row"]
                                          ELSE chain.templates[i]
  /\ \A a \in Accounts : tables.assetBalances[a] = "some" <=> chain.assetBalances[a] = "some"

AssetConfigMatches ==
  /\ tables.assetConfig.tokens = chain.assetConfig.tokens
  /\ tables.assetConfig.format = chain.assetConfig.format
  /\ chain.assetConfig.version # 0 => tables.assetConfig.version = chain.assetConfig.version
=============================================================================
