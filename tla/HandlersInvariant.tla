------------------------- MODULE HandlersInvariant -------------------------
(***************************************************************************)
(* What the proofs about the handlers speak of: rows of any kind, what a   *)
(* job makes of one, and the inductive invariants.                         *)
(*                                                                         *)
(* What the tables will be is known before the jobs have run: the jobs     *)
(* about a row lead, in the order of the queue, from what the tables have  *)
(* to what the contracts ask for.                                          *)
(***************************************************************************)
EXTENDS Handlers

-----------------------------------------------------------------------------
(* Rows *)

(* A row of a kind k is known by its key x.  The row of an auction counts  *)
(* as two: its end, which has jobs of its own, and the rest.               *)
Created == {"sales", "auctions", "ends", "buyoffers", "templateBuyoffers", "links",
                 "simple", "minted"}
Written == Rows \cup {"authors", "assetBalances", "collections", "schemas", "templates"}
Configs  == {"market", "tools", "simpleVersion", "assetConfig"}
DataKinds    == Created \cup Written

(* The configuration follows the contracts only if no fork takes it back.  *)
Followed == DataKinds \cup {k \in Configs : ~ ConfigForks}

KeysOf(k) ==
  CASE k = "simple" -> Assets
    [] k \in {"authors", "assetBalances"} -> Accounts
    [] k \in Configs -> {"config"}
    [] OTHER -> Ids

CallbacksOf(k) ==
  CASE k = "sales" -> {"lognewsale"} \cup SaleUpdates
    [] k = "auctions" -> {"lognewauct"} \cup AuctionUpdates
    [] k = "ends" -> {"lognewauct", "auctions"}
    [] k = "buyoffers" -> {"lognewbuyo"} \cup BuyofferUpdates
    [] k = "templateBuyoffers" -> {"lognewtbuyo"} \cup TemplateBuyofferUpdates
    [] k = "links" -> {"lognewlink"} \cup LinkUpdates
    [] k = "simple" -> {"createlog"} \cup SimpleUpdates
    [] k = "minted" -> {"minted"} \cup AssetUpdates
    [] k = "assetBalances" -> {"aabalances"}
    [] k = "market" -> {"config"}
    [] k = "tools" -> {"toolsconfig"}
    [] k = "simpleVersion" -> {"simpleconfig"}
    [] k = "assetConfig" -> {"aaconfig", "aatokens"}
    [] OTHER -> {k}

(* The keys of the rows a job is about. *)
Named(k, j) ==
  CASE k = "simple" -> j.trace.ids
    [] k = "authors" -> {j.trace.author}
    [] k = "assetBalances" -> {j.trace.owner}
    [] k \in Configs -> {"config"}
    [] k \in {"buyoffers", "templateBuyoffers"} ->
         IF j.callback \in Creates /\ ~ j.trace.authorized THEN {} ELSE {j.trace.id}
    [] OTHER -> {j.trace.id}

Touches(j, k, x) == j.callback \in CallbacksOf(k) /\ x \in Named(k, j)

(* The row in the tables t. *)
Base(r)  == IF r = NoRow THEN NoRow ELSE [r EXCEPT !.end_time = 0]
EndOf(r) == IF r = NoRow THEN NoRow ELSE [state |-> "row", end_time |-> r.end_time]

Cell(t, k, x) ==
  CASE k = "auctions" -> Base(t.auctions[x])
    [] k = "ends" -> EndOf(t.auctions[x])
    [] k \in Rows -> t.rows[k][x]
    [] k \in Configs -> t[k]
    [] OTHER -> t[k][x]

(* The row that the contracts ask for. *)
SomeOrNone(v) == IF v = "some" THEN "some" ELSE "none"
SinceOne(n)   == IF n = 0 THEN 1 ELSE n

Due(c, k, x) ==
  CASE k = "balances" -> SomeOrNone(c.rows.balances[x])
    [] k = "assetBalances" -> SomeOrNone(c.assetBalances[x])
    [] k = "templates" -> IF c.templates[x].state = "deleted"
                          THEN [c.templates[x] EXCEPT !.state = "row"] ELSE c.templates[x]
    [] k = "market" -> IF c.market.version = 0 THEN [version |-> 1, tokens |-> {}, pairs |-> {}]
                       ELSE c.market
    [] k = "assetConfig" -> [tokens |-> c.assetConfig.tokens, format |-> c.assetConfig.format,
                             version |-> SinceOne(c.assetConfig.version)]
    [] k = "tools" -> SinceOne(c.tools)
    [] k = "simpleVersion" -> SinceOne(c.simpleVersion)
    [] OTHER -> Cell(c, k, x)

-----------------------------------------------------------------------------
(* What the job j makes of a row r of its kind, and when the contract      *)
(* sends it.                                                               *)

NewSaleRow(pair) == [state |-> "WAITING", offer_id |-> "null", buyer |-> Nobody, pair |-> pair,
                     final_price |-> "null"]

SaleFits(j, r) ==
  CASE j.callback = "lognewsale" -> r = NoRow
    [] j.callback = "logsalestart" -> r.state = "WAITING"
    [] j.callback = "cancelsale" -> r.state \in {"WAITING", "LISTED"}
    [] OTHER -> r.state = "LISTED"

SaleMade(j, r) ==
  CASE j.callback = "lognewsale" -> NewSaleRow(j.trace.pair)
    [] j.callback = "logsalestart" -> [r EXCEPT !.state = "LISTED", !.offer_id = j.trace.offer_id]
    [] j.callback = "cancelsale" -> [r EXCEPT !.state = "CANCELED"]
    [] OTHER -> [r EXCEPT !.state = "SOLD", !.buyer = j.trace.buyer,
                   !.final_price = IF j.trace.median THEN "by median" ELSE "listing price"]

NewAuctionRow(end) ==
  [state |-> "WAITING", buyer |-> Nobody, bids |-> <<>>, end_time |-> end,
   claimed_by_buyer |-> FALSE, claimed_by_seller |-> FALSE]

AuctionFits(j, r) ==
  CASE j.callback = "lognewauct" -> r = NoRow
    [] OTHER -> r # NoRow

AuctionMade(j, r) ==
  CASE j.callback = "lognewauct" -> NewAuctionRow(0)
    [] j.callback = "logauctstart" -> [r EXCEPT !.state = "LISTED"]
    [] j.callback = "cancelauct" -> [r EXCEPT !.state = "CANCELED"]
    [] j.callback = "auctionbid" -> [r EXCEPT !.buyer = j.trace.bidder,
                                              !.bids = Append(@, j.trace.bidder)]
    [] j.callback = "auctclaimbuy" -> [r EXCEPT !.claimed_by_buyer = TRUE]
    [] OTHER -> [r EXCEPT !.claimed_by_seller = TRUE]

EndFits(j, r) == (j.callback = "lognewauct") <=> (r = NoRow)
EndMade(j, r) == [state |-> "row", end_time |-> j.trace.end_time]

BuyofferFits(j, r) == r = IF j.callback = "lognewbuyo" THEN NoRow ELSE [state |-> "PENDING"]
BuyofferMade(j, r) ==
  [state |-> CASE j.callback = "lognewbuyo" -> "PENDING"
               [] j.callback = "cancelbuyo" -> "CANCELED"
               [] j.callback = "acceptbuyo" -> "ACCEPTED"
               [] OTHER -> "DECLINED"]

TemplateBuyofferFits(j, r) ==
  r = IF j.callback = "lognewtbuyo" THEN NoRow ELSE [state |-> "LISTED", seller |-> Nobody]
TemplateBuyofferMade(j, r) ==
  CASE j.callback = "lognewtbuyo" -> [state |-> "LISTED", seller |-> Nobody]
    [] j.callback = "canceltbuyo" -> [state |-> "CANCELED", seller |-> Nobody]
    [] OTHER -> [state |-> "SOLD", seller |-> j.trace.seller]

LinkFits(j, r) ==
  CASE j.callback = "lognewlink" -> r = NoRow
    [] j.callback = "loglinkstart" -> r.state = "WAITING"
    [] j.callback = "cancellink" -> r.state \in {"WAITING", "CREATED"}
    [] OTHER -> r.state = "CREATED"
LinkMade(j, r) ==
  CASE j.callback = "lognewlink" -> [state |-> "WAITING", claimer |-> "null"]
    [] j.callback = "loglinkstart" -> [r EXCEPT !.state = "CREATED"]
    [] j.callback = "cancellink" -> [r EXCEPT !.state = "CANCELED"]
    [] OTHER -> [state |-> "CLAIMED", claimer |-> j.trace.claimer]

SimpleFits(j, r) ==
  CASE j.callback = "createlog" -> r = NoRow /\ j.trace.row # NoRow
    [] j.callback = "transfer" -> r # NoRow /\ r.owner = j.trace.from
    [] OTHER -> r # NoRow
SimpleMade(j, r) ==
  CASE j.callback = "createlog" -> j.trace.row
    [] j.callback = "burnlog" -> [r EXCEPT !.owner = "null", !.burned_by_account = j.trace.owner]
    [] j.callback = "update" -> [r EXCEPT !.mutable_data = j.trace.mdata]
    [] j.callback = "changeauthor" -> [r EXCEPT !.author = j.trace.newauthor]
    [] OTHER -> [r EXCEPT !.owner = j.trace.to]

MintedFits(j, r) == (j.callback = "minted") <=> (r = NoRow)
MintedMade(j, r) ==
  CASE j.callback = "minted" -> [state |-> "row", minter |-> j.trace.minter,
                                 mutable_data |-> "x", backed |-> 0]
    [] j.callback = "logbackasset" -> [r EXCEPT !.backed = @ + j.trace.amount]
    [] OTHER -> [r EXCEPT !.mutable_data = j.trace.new_data]

(* Rows that are written as they come. *)
WrittenMade(j, k, r) ==
  CASE k = "balances" -> SomeOrNone(j.trace.value)
    [] k = "authors" -> IF j.trace.present THEN j.trace.value ELSE "none"
    [] k = "assetBalances" -> SomeOrNone(j.trace.value)
    [] k = "collections" -> j.trace.row
    [] k = "schemas" -> j.trace.format
    [] k = "templates" -> IF j.trace.present THEN j.trace.row ELSE r
    [] OTHER -> j.trace.value

(* The configuration grows. *)
Grows(old, new) == old \subseteq new /\ IsFiniteSet(new)
ConfigFits(j, k, r) ==
  CASE k = "market" -> /\ Grows(r.tokens, j.trace.value.tokens)
                       /\ Grows(r.pairs, j.trace.value.pairs)
                       /\ j.trace.value = [version |-> j.trace.value.version,
                            tokens |-> j.trace.value.tokens, pairs |-> j.trace.value.pairs]
    [] j.callback = "aaconfig" -> Grows(r.tokens, j.trace.value.tokens)
    [] OTHER -> TRUE
ConfigMade(j, k, r) ==
  CASE k = "market" -> j.trace.value
    [] j.callback = "aaconfig" -> [tokens |-> j.trace.value.tokens, format |-> j.trace.value.format,
                                   version |-> r.version]
    [] j.callback = "aatokens" -> [tokens |-> r.tokens, format |-> r.format,
                                   version |-> j.trace.value.version]
    [] OTHER -> j.trace.version

Fits(j, k, r) ==
  CASE k = "sales" -> SaleFits(j, r)
    [] k = "auctions" -> AuctionFits(j, r)
    [] k = "ends" -> EndFits(j, r)
    [] k = "buyoffers" -> BuyofferFits(j, r)
    [] k = "templateBuyoffers" -> TemplateBuyofferFits(j, r)
    [] k = "links" -> LinkFits(j, r)
    [] k = "simple" -> SimpleFits(j, r)
    [] k = "minted" -> MintedFits(j, r)
    [] k \in Configs -> ConfigFits(j, k, r)
    [] OTHER -> TRUE

Made(j, k, r) ==
  CASE k = "sales" -> SaleMade(j, r)
    [] k = "auctions" -> AuctionMade(j, r)
    [] k = "ends" -> EndMade(j, r)
    [] k = "buyoffers" -> BuyofferMade(j, r)
    [] k = "templateBuyoffers" -> TemplateBuyofferMade(j, r)
    [] k = "links" -> LinkMade(j, r)
    [] k = "simple" -> SimpleMade(j, r)
    [] k = "minted" -> MintedMade(j, r)
    [] k \in Configs -> ConfigMade(j, k, r)
    [] OTHER -> WrittenMade(j, k, r)

(* The priority of a callback, other than that of logs. *)
PriorityOf(callback) ==
  CASE callback \in Creates -> ACTION_CREATE
    [] callback \in Updates -> ACTION_UPDATE
    [] callback = "auctions" -> TABLE_AUCTIONS
    [] callback \in Rows \cup {"config"} -> TABLE_CONFIG
    [] callback = "lognewlink" -> ACTION_CREATE_LINK
    [] callback \in LinkUpdates -> ACTION_UPDATE_LINK
    [] callback = "toolsconfig" -> TABLE_TOOLS_CONFIG
    [] callback \in {"createlog", "minted"} -> AA_ACTION_MINT_ASSET
    [] callback \in SimpleUpdates \cup AssetUpdates \cup {"stored"} -> AA_ACTION_UPDATE_ASSET
    [] callback = "authors" -> SA_TABLE_AUTHORS
    [] callback = "simpleconfig" -> SA_TABLE_CONFIG
    [] callback \in {"aaconfig", "aatokens"} -> AA_TABLE_CONFIG
    [] callback = "aabalances" -> AA_TABLE_BALANCES
    [] callback = "collections" -> TABLE_COLLECTIONS
    [] callback = "schemas" -> TABLE_SCHEMAS
    [] callback = "templates" -> TABLE_TEMPLATES
    [] callback = "pairs" -> TABLE_PAIRS
    [] OTHER -> TABLE_DATAPOINTS

-----------------------------------------------------------------------------

(* The jobs S lead, one after the other, from the row u to the row v; h is *)
(* the row before the job of each index.                                   *)
Path(S, h, u, v) ==
  /\ S = {} => u = v
  /\ \A j \in S :
       /\ (\A i \in S : j.index <= i.index) => h[j.index] = u
       /\ (\A i \in S : i.index <= j.index) => h[j.index + 1] = v
       /\ \A i \in S : i.index < j.index
            => h[i.index + 1] = h[j.index] \/ \E m \in S : i.index < m.index /\ m.index < j.index

JobsOn(k, x, Q) == {j \in Q : Touches(j, k, x)}

Leads(k, S, u, v) ==
  \E h : /\ Path(S, h, u, v)
         /\ \A j \in S : Fits(j, k, h[j.index]) /\ h[j.index + 1] = Made(j, k, h[j.index])

Follows(k, x, t, Q, c) ==
  LET S == JobsOn(k, x, Q)
  IN  /\ Leads(k, S, Cell(t, k, x), Due(c, k, x))
      /\ \A i, j \in S : i.index < j.index => i.priority <= j.priority
      /\ k \in Created /\ S # {} => Due(c, k, x) # NoRow

StoredOf(Q) == {j.trace.transfer : j \in {i \in Q : i.callback = "stored"}}
SimpleStored(j) == [transfer_id |-> j.trace.global_sequence, recipient |-> j.trace.to,
                    assets |-> j.trace.ids,
                    sender |-> IF j.callback = "claim" THEN j.trace.to ELSE j.trace.from]
SimpleStoredOf(Q) == {SimpleStored(j) : j \in {i \in Q : i.callback \in {"transfer", "claim"}}}
LogsOf(Q) == {j \in Q : j.callback = "log"}

(* Executing the jobs Q in their order makes the tables t those of c. *)
Rests(t, Q, c) ==
  /\ \A k \in Followed : \A x \in KeysOf(k) : Follows(k, x, t, Q, c)
  /\ t.transfers \cup StoredOf(Q) = c.transfers
  /\ t.simpleTransfers \cup SimpleStoredOf(Q) = c.simpleTransfers
  /\ t.logs + Cardinality(LogsOf(Q)) = c.logs

JobsOK(Q, n) ==
  /\ IsFiniteSet(Q) /\ n \in Nat
  /\ \A j \in Q : /\ j.index \in 1 .. n
                  /\ j.priority \in Nat
                  /\ j.callback # "log" => j.priority = PriorityOf(j.callback)
  /\ \A i, j \in Q : i.index = j.index /\ i.callback # "log" /\ j.callback # "log" => i = j

-----------------------------------------------------------------------------

(* Shapes *)
IsMap(f, D) == f = [x \in D |-> f[x]]

Fields == {"logs", "block", "sales", "auctions", "buyoffers", "templateBuyoffers", "market", "rows",
           "oracle", "links", "tools", "simple", "simpleTransfers", "authors", "simpleVersion",
           "minted", "transfers", "collections", "schemas", "templates", "assetConfig",
           "assetBalances"}
IdTables == {"sales", "auctions", "buyoffers", "templateBuyoffers", "links", "minted",
             "collections", "schemas", "templates"}

AuctionShape(r) ==
  r # NoRow => r = [state |-> r.state, buyer |-> r.buyer, bids |-> r.bids, end_time |-> r.end_time,
                    claimed_by_buyer |-> r.claimed_by_buyer, claimed_by_seller |-> r.claimed_by_seller]

(* Tables and contracts. *)
Shape(t) ==
  /\ IsMap(t, Fields)
  /\ \A f \in IdTables : IsMap(t[f], Ids)
  /\ \A i \in Ids : AuctionShape(t.auctions[i])
  /\ IsMap(t.rows, Rows) /\ \A f \in Rows : IsMap(t.rows[f], Ids)
  /\ IsMap(t.oracle, Pairs)
  /\ IsMap(t.simple, Assets)
  /\ IsMap(t.authors, Accounts) /\ IsMap(t.assetBalances, Accounts)
  /\ IsMap(t.market, {"version", "tokens", "pairs"})
  /\ IsMap(t.assetConfig, {"tokens", "format", "version"})
  /\ t.logs \in Nat

(* What only holds of contracts. *)
ChainShape(c) ==
  /\ Shape(c)
  /\ \A i \in Ids :
       /\ c.buyoffers[i] = [state |-> c.buyoffers[i].state]
       /\ c.templateBuyoffers[i].state = "LISTED"
            => c.templateBuyoffers[i] = [state |-> "LISTED", seller |-> Nobody]
       /\ c.templates[i] # NoRow =>
            c.templates[i] = [state |-> c.templates[i].state, max_supply |-> c.templates[i].max_supply]
       /\ c.minted[i] # NoRow => "mutable_data" \in DOMAIN c.minted[i]
  /\ \A x \in Assets : c.simple[x] # NoRow => "mutable_data" \in DOMAIN c.simple[x]
  /\ c.market.version \in Nat /\ IsFiniteSet(c.market.tokens) /\ c.market.pairs \subseteq Pairs
  /\ c.market.version = 0 => c.market.tokens = {} /\ c.market.pairs = {}
  /\ c.tools \in Nat /\ c.simpleVersion \in Nat
  /\ c.assetConfig.version \in Nat /\ IsFiniteSet(c.assetConfig.tokens)

-----------------------------------------------------------------------------
(* The inductive invariant *)

(* What a transaction starts from, and the jobs of its blocks. *)
Origin  == IF rolledBack THEN previous.tables ELSE committed.tables
Pending == IF executing THEN started.jobs ELSE liveQueue

(* The tables with the rows that were collected. *)
Collected == AssetsInserted(SimpleInserted(tables))

(* Tables, contracts and memory have their columns, at any time. *)
ShapesInv ==
  /\ Shape(tables) /\ ChainShape(chain)
  /\ committed = [chain |-> committed.chain, tables |-> committed.tables]
  /\ previous = [chain |-> previous.chain, tables |-> previous.tables]
  /\ Shape(committed.tables) /\ ChainShape(committed.chain)
  /\ Shape(previous.tables) /\ ChainShape(previous.chain)
  /\ IsMap(memory, {"market", "oracle", "tools", "simpleVersion", "simpleInserts", "assetConfig", "mints"})
  /\ IsMap(memory.assetConfig, {"tokens", "format", "version"})

(* The open transaction and its queue. *)
ReaderInv ==
  /\ executing \in BOOLEAN /\ running \in BOOLEAN /\ rolledBack \in BOOLEAN
  /\ forks \in Nat
  /\ rolledBack => head
  /\ executing => running /\ liveQueue = {} /\ traces = 0
  /\ ~ executing => queue = {} /\ lastPriority = None /\ tables = Origin
  /\ JobsOK(liveQueue, traces)
  /\ executing => JobsOK(started.jobs, started.traces) /\ JobsOK(queue, started.traces)

(* An asset is collected once. *)
SimpleOnce(S) ==
  \A x \in Assets : \A r, s \in S : x \in r.ids => r.row # NoRow /\ (x \in s.ids => r = s)
MintedOnce(M) == \A i \in Ids : \A r, s \in M : r.id = i /\ s.id = i => r = s
CollectedOnce(S, M) == SimpleOnce(S) /\ MintedOnce(M)

(* New assets are collected in the midst of their priority only. *)
CollectedInv ==
  /\ executing /\ lastPriority # None => \A j \in queue : j.priority >= lastPriority
  /\ running /\ (memory.mints # {} \/ memory.simpleInserts # {})
       => executing /\ lastPriority = AA_ACTION_MINT_ASSET
  /\ CollectedOnce(memory.simpleInserts, memory.mints)

(* What the handlers remember of the configuration is in the tables. *)
MemoryInv ==
  ~ ConfigForks =>
    /\ running => /\ memory.market = tables.market /\ memory.tools = tables.tools
                  /\ memory.simpleVersion = tables.simpleVersion
                  /\ memory.assetConfig = tables.assetConfig
    /\ rolledBack => Remembered(previous) = Remembered(committed)

(* Executing what is left makes the tables those of the contracts, and     *)
(* nothing is left of what is committed, or was before the last commit.    *)
RestsInv ==
  /\ Rests(Origin, Pending, chain)
  /\ executing => Rests(Collected, queue, chain)
  /\ Rests(committed.tables, {}, committed.chain)
  /\ Rests(previous.tables, {}, previous.chain)

Inv == ShapesInv /\ ReaderInv /\ CollectedInv /\ MemoryInv /\ RestsInv

-----------------------------------------------------------------------------
(* Medians *)

OracleJobs(Q, p) == {j \in Q : j.callback = "datapoints" /\ j.trace.name = p}
PriceRows == {NoRow} \cup [state : {"row"}, median : Nat, updated_at_block : Nat]
MedianIn(r) == IF r = NoRow THEN 0 ELSE r.median

(* The jobs Q carry medians in the order of their blocks. *)
MedianOrder(Q, c) ==
  /\ \A j \in Q : j.callback = "datapoints" =>
       j.trace.name \in Pairs /\ j.trace.block \in Nat /\ j.trace.block <= c.oracle[j.trace.name].last
  /\ \A i, j \in Q : i.callback = "datapoints" /\ j.callback = "datapoints" /\ i.index < j.index
       => i.trace.block < j.trace.block

(* The last median of a pair is one of the jobs, or there are none, and    *)
(* the row r of the pair is as new as it has to be.                        *)
Fresh(p, r, Q, c) ==
  \/ \E j \in OracleJobs(Q, p) : j.trace.block = c.oracle[p].last
  \/ OracleJobs(Q, p) = {} /\ c.oracle[p].last <= MedianIn(r) + UpdateInterval

(* The contract's pairs, and the rows and memory of the handler. *)
PairsOf(c) ==
  /\ c.block \in Nat
  /\ \A p \in Pairs : /\ c.oracle[p] = [listed |-> c.oracle[p].listed, last |-> c.oracle[p].last]
                      /\ c.oracle[p].last \in Nat /\ c.oracle[p].last <= c.block
RowsOf(t) == \A p \in Pairs : t.oracle[p] \in PriceRows

(* The handler remembers no median that is newer than the row. *)
LastUpdated(m, t) ==
  \A p \in Pairs :
    m.lastUpdated[p] = 0 \/ (t.oracle[p] # NoRow /\ m.lastUpdated[p] <= t.oracle[p].median)

(* Until a fork a median that is due is in a job or in the row. *)
MedianInv ==
  forks = 0 =>
    /\ ~ rolledBack
    /\ PairsOf(chain) /\ RowsOf(tables) /\ RowsOf(committed.tables)
    /\ IsMap(memory.oracle, {"pairs", "lastUpdated"})
    /\ memory.oracle.lastUpdated \in [Pairs -> Nat]
    /\ running => LastUpdated(memory.oracle, tables)
    /\ MedianOrder(Pending, chain)
    /\ \A p \in Pairs : Fresh(p, committed.tables.oracle[p], Pending, chain)
    /\ executing => /\ MedianOrder(queue, chain)
                    /\ \A p \in Pairs : Fresh(p, tables.oracle[p], queue, chain)

-----------------------------------------------------------------------------
(***************************************************************************)
(* What the lemmas speak of.                                               *)
(***************************************************************************)

(* Paths of jobs *)

Extends(g, h, S, j, v, w) ==
  /\ g[j.index] = v /\ g[j.index + 1] = w
  /\ \A i \in S : g[i.index] = h[i.index] /\ g[i.index + 1] = h[i.index + 1]

-----------------------------------------------------------------------------
(* The jobs of a row *)

Creating == Creates \cup {"lognewlink", "createlog", "minted"}

(* No job of Q comes before j. *)
IsNextIn(j, Q) == j \in Q /\ \A q \in Q : ~ Before(q, j)

-----------------------------------------------------------------------------
(* All rows: a job is executed, the jobs of a trace are added *)

(* The job j takes the rows, and the lists, of T to those of T2. *)
RowsRun(j, T, T2) ==
  \A k \in Followed : \A x \in KeysOf(k) :
    Fits(j, k, Cell(T, k, x)) \/ ~ Touches(j, k, x) =>
      Cell(T2, k, x) = IF Touches(j, k, x) THEN Made(j, k, Cell(T, k, x)) ELSE Cell(T, k, x)

ListsRun(j, T, T2) ==
  /\ T2.transfers = T.transfers \cup StoredOf({j})
  /\ T2.simpleTransfers = T.simpleTransfers \cup SimpleStoredOf({j})
  /\ T2.logs = T.logs + (IF j.callback = "log" THEN 1 ELSE 0)

(* The contract goes from c to c2, and m is the job about it, if heard. *)
RowsTrace(m, heard, c, c2) ==
  \A k \in Followed : \A x \in KeysOf(k) :
    IF heard /\ Touches(m, k, x)
    THEN /\ Fits(m, k, Due(c, k, x)) /\ Due(c2, k, x) = Made(m, k, Due(c, k, x))
         /\ k \in Created => Due(c2, k, x) # NoRow
    ELSE Due(c2, k, x) = Due(c, k, x)

ListsTrace(m, heard, logged, c, c2) ==
  /\ c2.transfers = c.transfers \cup (IF heard THEN StoredOf({m}) ELSE {})
  /\ c2.simpleTransfers = c.simpleTransfers \cup (IF heard THEN SimpleStoredOf({m}) ELSE {})
  /\ c2.logs = c.logs + (IF logged THEN 1 ELSE 0)

(* N are the jobs of a trace: m, if heard, and l, if logged. *)
TraceJobs(N, m, heard, l, logged, i) ==
  /\ N = (IF heard THEN {m} ELSE {}) \cup (IF logged THEN {l} ELSE {})
  /\ m.callback # "log" /\ m.index = i /\ m.priority = PriorityOf(m.callback) /\ m.priority \in Nat
  /\ l.callback = "log" /\ l.index = i /\ l.priority \in Nat

-----------------------------------------------------------------------------
(* Listeners: what a trace becomes *)

MainCallback(a) == CASE a = "logmint" -> "minted" [] a = "logtransfer" -> "stored" [] OTHER -> a

MainOf(t, i)   == [callback |-> MainCallback(t.action), priority |-> PriorityOf(MainCallback(t.action)),
                   trace |-> t, index |-> i]
LogOf(t, i, p) == [callback |-> "log", priority |-> p, trace |-> t, index |-> i]

Heard(L, a)    == \E l \in Active(L) : l.action = a /\ l.callback # "log"
LoggedBy(L, a) == \E l \in L : l.action = a /\ l.callback = "log"

(* A listener is a logger or calls what its action is for. *)
Regular(L, p) ==
  /\ p \in Nat
  /\ \A l \in L : IF l.callback = "log" THEN l.priority = p /\ ~ l.headOnly
                  ELSE l.callback = MainCallback(l.action) /\ l.priority = PriorityOf(l.callback)

JobsOf(L, t, i) == {Job(l, t, i) : l \in {l \in Active(L) : l.action = t.action}}

Good(l, p) ==
  IF l.callback = "log" THEN l.priority = p /\ ~ l.headOnly
  ELSE l.callback = MainCallback(l.action) /\ l.priority = PriorityOf(l.callback)

-----------------------------------------------------------------------------
(* What a contract sends *)

OneIf(b) == IF b THEN 1 ELSE 0

-----------------------------------------------------------------------------
(* Fields and rows of tables and contracts *)

(* The field of the rows of a kind. *)
FieldOf(k) == CASE k = "ends" -> "auctions" [] k \in Rows -> "rows" [] OTHER -> k

(* The tables or contract c with another field f, or row i in it. *)
Put(c, f, v)       == [g \in Fields |-> IF g = f THEN v ELSE c[g]]
PutRow(c, f, i, r) == Put(c, f, [x \in Ids |-> IF x = i THEN r ELSE c[f][x]])

(* Callbacks are about rows of one kind, except for auctions and their ends. *)
KindOf(a) ==
  CASE a \in {"lognewsale"} \cup SaleUpdates -> "sales"
    [] a \in {"lognewauct", "auctions"} \cup AuctionUpdates -> "auctions"
    [] a \in {"lognewbuyo"} \cup BuyofferUpdates -> "buyoffers"
    [] a \in {"lognewtbuyo"} \cup TemplateBuyofferUpdates -> "templateBuyoffers"
    [] a \in {"lognewlink"} \cup LinkUpdates -> "links"
    [] a \in {"createlog"} \cup SimpleUpdates -> "simple"
    [] a \in {"minted"} \cup AssetUpdates -> "minted"
    [] a = "aabalances" -> "assetBalances"
    [] a = "config" -> "market"
    [] a = "toolsconfig" -> "tools"
    [] a = "simpleconfig" -> "simpleVersion"
    [] a \in {"aaconfig", "aatokens"} -> "assetConfig"
    [] OTHER -> a

(* Rows of these kinds are found by an id, and shown as they are. *)
PlainKinds == {"sales", "buyoffers", "templateBuyoffers", "links", "minted", "collections", "schemas"}

(* Shapes of rows of contracts. *)
RowShape(k, r) ==
  /\ k = "auctions" => AuctionShape(r)
  /\ k = "buyoffers" => r = [state |-> r.state]
  /\ k = "templateBuyoffers" /\ r.state = "LISTED" => r = [state |-> "LISTED", seller |-> Nobody]
  /\ k = "templates" /\ r # NoRow => r = [state |-> r.state, max_supply |-> r.max_supply]
  /\ k = "minted" /\ r # NoRow => "mutable_data" \in DOMAIN r

(* What the contract c did, and what the job m will do, are the same. *)
Sends(m, c, d) ==
  /\ ChainShape(d) /\ d.logs = c.logs
  /\ RowsTrace(m, TRUE, c, d) /\ ListsTrace(m, TRUE, FALSE, c, d)

-----------------------------------------------------------------------------
(* Sales *)

(* The job m takes the row u of its kind to v. *)
Takes(m, k, u, v) == Fits(m, k, u) /\ v = Made(m, k, u) /\ (k \in Created => v # NoRow)

(* A job of the callback a with the data g. *)
Carries(m, a, g) == m.callback = a /\ \A x \in DOMAIN g : m.trace[x] = g[x]

-----------------------------------------------------------------------------
(* Links, assets that are minted, and transfers *)

(* An action about the minted asset i. *)
MintedAction(i, a, g, r) ==
  AssetsAction([chain EXCEPT !.minted[i] = r], <<With([action |-> a, id |-> i], g)>>)

(* An action that no row shows. *)
Quiet(m, c, d) ==
  /\ ChainShape(d) /\ d.logs = c.logs
  /\ \A k \in Followed : \A x \in KeysOf(k) : ~ Touches(m, k, x) /\ Due(d, k, x) = Due(c, k, x)
  /\ ListsTrace(m, TRUE, FALSE, c, d)

-----------------------------------------------------------------------------
(* Buyoffers *)

(* A trace of the action a about the object i. *)
IsTrace(t, a, i) == t.action = a /\ t.id = i

BuyofferAction(i, a, s) ==
  Emit([chain EXCEPT !.buyoffers[i] = [state |-> s]], <<Authorized(Trace(a, i), TRUE)>>)

TemplateBuyofferAction(i, a, s, b) ==
  Emit([chain EXCEPT !.templateBuyoffers[i] = [state |-> s, seller |-> b]],
       <<With(Authorized(Trace(a, i), TRUE), [seller |-> b])>>)

-----------------------------------------------------------------------------
(* Auctions *)

AuctionOf(s, b, bids, end, cb, cs) ==
  [state |-> s, buyer |-> b, bids |-> bids, end_time |-> end,
   claimed_by_buyer |-> cb, claimed_by_seller |-> cs]

(* What an update makes of a row, and of its base. *)
Updated(row, r) ==
  /\ AuctionShape(r) /\ r # NoRow /\ Base(r) # NoRow /\ EndOf(r) = EndOf(row)

-----------------------------------------------------------------------------
(* Fields that are no tables of ids *)

(* The shape of a field f, and what only holds of contracts. *)
FieldShape(f, v) ==
  /\ f = "rows" => IsMap(v, Rows) /\ \A g \in Rows : IsMap(v[g], Ids)
  /\ f = "oracle" => IsMap(v, Pairs)
  /\ f = "simple" => IsMap(v, Assets)
  /\ f \in {"authors", "assetBalances"} => IsMap(v, Accounts)
  /\ f = "market" => IsMap(v, {"version", "tokens", "pairs"})
  /\ f = "assetConfig" => IsMap(v, {"tokens", "format", "version"})
  /\ f = "logs" => v \in Nat

ConfigShape(f, v) ==
  /\ f = "simple" => \A x \in Assets : v[x] # NoRow => "mutable_data" \in DOMAIN v[x]
  /\ f = "market" => /\ v.version \in Nat \ {0} /\ IsFiniteSet(v.tokens) /\ v.pairs \subseteq Pairs
  /\ f \in {"tools", "simpleVersion"} => v \in Nat
  /\ f = "assetConfig" => v.version \in Nat /\ IsFiniteSet(v.tokens)

(* The job m takes the rows of k from c to d. *)
TakesRows(m, k, c, d) ==
  \A x \in KeysOf(k) : IF x \in Named(k, m) THEN Takes(m, k, Due(c, k, x), Due(d, k, x))
                       ELSE Due(d, k, x) = Due(c, k, x)

-----------------------------------------------------------------------------
(* Configuration *)

(* A configuration of the market that a later one may be. *)
MarketGrows(old, new) ==
  /\ new = [version |-> new.version, tokens |-> new.tokens, pairs |-> new.pairs]
  /\ new.version \in Nat \ {0} /\ IsFiniteSet(new.tokens) /\ new.pairs \subseteq Pairs
  /\ old.tokens \subseteq new.tokens /\ old.pairs \subseteq new.pairs

(* The assets' configuration, and a later one after the action a. *)
AssetsConfigured(a, v) == AssetsAction([chain EXCEPT !.assetConfig = v], <<Row(a, [value |-> v])>>)

AssetsGrow(a, old, v) ==
  /\ v = [tokens |-> v.tokens, format |-> v.format, version |-> v.version]
  /\ IsFiniteSet(v.tokens) /\ old.tokens \subseteq v.tokens
  /\ v.version \in Nat
  /\ IF a = "aaconfig" THEN v.version = old.version
     ELSE v.tokens = old.tokens /\ v.format = old.format /\ v.version # 0

-----------------------------------------------------------------------------
(* Collections, schemas and templates *)

(* What is shown of a template. *)
Visible(r) == IF r.state = "deleted" THEN [r EXCEPT !.state = "row"] ELSE r

-----------------------------------------------------------------------------
(* Simple assets *)

(* c with the rows of some assets and perhaps a stored transfer is d. *)
SimpleChain(c, d, rows) ==
  /\ IsMap(d, Fields) /\ DOMAIN rows \subseteq Assets
  /\ d.simple = With(c.simple, rows)
  /\ \A g \in Fields : g \notin {"simple", "simpleTransfers"} => d[g] = c[g]

SimpleMoves(m, c, d, rows) ==
  /\ m.trace.ids = DOMAIN rows
  /\ \A x \in DOMAIN rows :
       /\ SimpleFits(m, c.simple[x]) /\ rows[x] = SimpleMade(m, c.simple[x])
       /\ "mutable_data" \in DOMAIN rows[x]
  /\ d.simpleTransfers = c.simpleTransfers \cup SimpleStoredOf({m})

-----------------------------------------------------------------------------
(* The oracle: no row of the kinds above. *)
OracleRow(r, a, q) == OracleAction([chain EXCEPT !.oracle[q] = r], a, q)

-----------------------------------------------------------------------------
(* Jobs: the tables with the rows that are collected *)

(* The tables t with the new assets S of simpleassets and M of atomicassets. *)
SimpleInto(f, S) ==
  [x \in Assets |-> IF \E r \in S : x \in r.ids THEN (CHOOSE r \in S : x \in r.ids).row ELSE f[x]]
MintedInto(f, M) ==
  [i \in Ids |->
     IF \E r \in M : r.id = i
     THEN [state |-> "row", minter |-> (CHOOSE r \in M : r.id = i).minter, mutable_data |-> "x", backed |-> 0]
     ELSE f[i]]
Into(t, S, M) ==
  Put(Put(t, "simple", SimpleInto(t.simple, S)), "minted", MintedInto(t.minted, M))

(* What is collected, before and after a step. *)
Now  == Into(tables, memory.simpleInserts, memory.mints)

(* The job m makes the row u the row v; it makes the rows of t those of d. *)
Turns(m, k, u, v) == Fits(m, k, u) => v = Made(m, k, u)
RowsTurn(m, k, t, d) ==
  \A x \in KeysOf(k) : IF x \in Named(k, m) THEN Turns(m, k, Cell(t, k, x), Cell(d, k, x))
                       ELSE Cell(d, k, x) = Cell(t, k, x)

(* The configuration in t and in d. *)
SameConfig(t, d) ==
  /\ d.market = t.market /\ d.tools = t.tools /\ d.simpleVersion = t.simpleVersion
  /\ d.assetConfig = t.assetConfig

-----------------------------------------------------------------------------
(* Jobs of the configuration *)

MemoryFields == {"market", "oracle", "tools", "simpleVersion", "simpleInserts", "assetConfig", "mints"}
MemoryPut(k, m) == [g \in MemoryFields |-> IF g = k THEN m ELSE memory[g]]

-----------------------------------------------------------------------------
(* Jobs of the oracle *)

(* The row of a pair that is saved. *)
PairRow(r) == IF r = NoRow THEN NewPair ELSE [NewPair EXCEPT !.median = r.median]

(* The rows of all pairs after the job j, and what it leaves in memory. *)
DatapointRows(j) ==
  LET p == j.trace.name
      e == FillPair(p)
      r == [e.oracle[p] EXCEPT !.median = j.trace.block, !.updated_at_block = j.trace.block]
  IN  IF UpdateDue(j) THEN [e.oracle EXCEPT ![p] = r] ELSE e.oracle
DatapointMemory(j) ==
  LET p == j.trace.name
      s == IF PairMissing(p) THEN memory.oracle.pairs \cup {p} ELSE memory.oracle.pairs
      l == IF UpdateDue(j) THEN j.trace.block ELSE memory.oracle.lastUpdated[p]
  IN  [[memory.oracle EXCEPT !.pairs = s] EXCEPT !.lastUpdated[p] = l]

-----------------------------------------------------------------------------
(* The steps of the reader *)

(* Configuration that is as the contracts have it. *)
ConfigDue(c) == <<Due(c, "market", "config"), Due(c, "tools", "config"), Due(c, "simpleVersion", "config"),
                  Due(c, "assetConfig", "config")>>

-----------------------------------------------------------------------------
(* The beginning *)

Blank == [version |-> 0, tokens |-> {}, pairs |-> {}]

-----------------------------------------------------------------------------
(* Settled rows *)

SettledKinds == {"sales", "buyoffers", "templateBuyoffers", "links"}

(* A handler executes the job j. *)
AnyJob(j) == MarketJob(j) \/ OracleJob(j) \/ ToolsJob(j) \/ SimpleJob(j) \/ AssetsJob(j) \/ LogTrace(j)

(* Jobs of the other contracts. *)
OwnKinds == SettledKinds \cup {"oracle"}

(* An action of a contract other than the oracle. *)
SentOf(L) == \E c, ts : Send(c, ts, L) /\ IsMap(c, Fields) /\ c.oracle = chain.oracle /\ c.block = chain.block

-----------------------------------------------------------------------------
(* Medians: contracts *)

NoMedians(L) == \A l \in L : l.callback # "datapoints"

=============================================================================
