---------------------------- MODULE AtomicMarket ----------------------------
(***************************************************************************)
(* The handlers of the atomicmarket contract: sales, auctions, buyoffers,  *)
(* template buyoffers, configuration, marketplaces, bonus fees, balances   *)
(* and logs (src/filler/handlers/atomicmarket).                            *)
(*                                                                         *)
(* The contract is external.  chain.sales and so on hold the rows its      *)
(* history amounts to, which are what the tables should contain.           *)
(***************************************************************************)
EXTENDS Contracts

ATOMICMARKET_BASE_PRIORITY == 1000
TABLE_CONFIG       == ATOMICMARKET_BASE_PRIORITY + 10
AfterUpdates       == ATOMICMARKET_BASE_PRIORITY + 50  \* mutant of ACTION_CREATE
ACTION_CREATE      == ATOMICMARKET_BASE_PRIORITY + 20
TABLE_AUCTIONS     == ATOMICMARKET_BASE_PRIORITY + 30
ACTION_UPDATE      == ATOMICMARKET_BASE_PRIORITY + 40
LOGS               == ATOMICMARKET_BASE_PRIORITY

Nobody == "null"

(* Rows have the columns that change or decide something: a sale its       *)
(* state, offer_id, buyer, pair and final_price ("null", the listing price *)
(* or, with a pair, one by the median); an auction state, buyer, bids,     *)
(* end_time and the two claims; a buyoffer its state; a template buyoffer  *)
(* state and seller.  The config has version, tokens and pairs.            *)

Settled == {"CANCELED", "SOLD", "DECLINED", "ACCEPTED"}

SaleUpdates     == {"logsalestart", "cancelsale", "purchasesale"}
AuctionUpdates  == {"logauctstart", "cancelauct", "auctionbid", "auctclaimbuy", "auctclaimsel"}
BuyofferUpdates == {"cancelbuyo", "acceptbuyo", "declinebuyo"}
TemplateBuyofferUpdates == {"canceltbuyo", "fulfilltbuyo"}
Creates == {"lognewsale", "lognewauct", "lognewbuyo", "lognewtbuyo"}
Updates == SaleUpdates \cup AuctionUpdates \cup BuyofferUpdates \cup TemplateBuyofferUpdates
Rows    == {"marketplaces", "bonusfees", "balances"}

(* logs.ts *)
MarketLogs == Logs((Creates \cup Updates) \ {"auctionbid"}, LOGS)

MarketListeners ==
  OnEach(Creates, ACTION_CREATE) \cup OnEach(Updates, ACTION_UPDATE)
    \cup {On("auctions", "auctions", TABLE_AUCTIONS), On("config", "config", TABLE_CONFIG)}
    \cup OnEach(Rows, TABLE_CONFIG)
    \cup MarketLogs

(* The table a callback inserts into or updates. *)
TableOf(callback) ==
  CASE callback \in {"lognewsale"} \cup SaleUpdates -> "sales"
    [] callback \in {"lognewauct", "auctions"} \cup AuctionUpdates -> "auctions"
    [] callback \in {"lognewbuyo"} \cup BuyofferUpdates -> "buyoffers"
    [] OTHER -> "templateBuyoffers"

-----------------------------------------------------------------------------
(* The contract *)

Trace(action, id) == [action |-> action, id |-> id]
AuctionRow(id, end) == [action |-> "auctions", id |-> id, end_time |-> end]

(* Rows of the contract's own tables are traces named by the table. *)
Emit(newChain, ts) == Send(newChain, ts, MarketListeners)

SaleAction(i, action, data, new) ==
  Emit([chain EXCEPT !.sales[i] = new], <<With(Trace(action, i), data)>>)

NewSale(i) ==
  /\ chain.sales[i] = NoRow
  /\ \E pair \in chain.market.pairs \cup {"none"} :
       /\ pair \in Pairs => chain.oracle[pair].listed
       /\ SaleAction(i, "lognewsale", [pair |-> pair],
            [state |-> "WAITING", offer_id |-> "null", buyer |-> Nobody, pair |-> pair,
             final_price |-> "null"])

Sale(i) ==
  LET row == chain.sales[i]
  IN  \/ /\ row.state = "WAITING"
         /\ SaleAction(i, "logsalestart", [offer_id |-> "offer"],
              [row EXCEPT !.state = "LISTED", !.offer_id = "offer"])
      \/ /\ row.state \in {"WAITING", "LISTED"}
         /\ SaleAction(i, "cancelsale", <<>>, [row EXCEPT !.state = "CANCELED"])
      \/ /\ row.state = "LISTED"
         /\ \E a \in Accounts :
              SaleAction(i, "purchasesale", [buyer |-> a, median |-> row.pair # "none"],
                [row EXCEPT !.state = "SOLD", !.buyer = a,
                   !.final_price = IF row.pair = "none" THEN "listing price" ELSE "by median"])

(* An action on an auction, and its row. *)
AuctionAction(i, action, extra, new) ==
  Emit([chain EXCEPT !.auctions[i] = new],
       <<With(Trace(action, i), extra), AuctionRow(i, new.end_time)>>)

NewAuction(i) ==
  /\ chain.auctions[i] = NoRow
  /\ AuctionAction(i, "lognewauct", [end_time |-> 1],
       [state |-> "WAITING", buyer |-> Nobody, bids |-> <<>>, end_time |-> 1,
        claimed_by_buyer |-> FALSE, claimed_by_seller |-> FALSE])

Auction(i) ==
  LET row == chain.auctions[i]
  IN  \/ /\ row.state = "WAITING"
         /\ AuctionAction(i, "logauctstart", <<>>, [row EXCEPT !.state = "LISTED"])
      \/ /\ row.state \in {"WAITING", "LISTED"} /\ row.buyer = Nobody
         /\ AuctionAction(i, "cancelauct", <<>>, [row EXCEPT !.state = "CANCELED"])
      \/ /\ row.state = "LISTED" /\ ~ row.claimed_by_buyer /\ ~ row.claimed_by_seller
         /\ \E a \in Accounts : AuctionAction(i, "auctionbid", [bidder |-> a],
              [row EXCEPT !.buyer = a, !.bids = Append(@, a), !.end_time = @ + 1])
      \/ /\ row.state = "LISTED" /\ row.buyer # Nobody /\ ~ row.claimed_by_buyer
         /\ AuctionAction(i, "auctclaimbuy", <<>>, [row EXCEPT !.claimed_by_buyer = TRUE])
      \/ /\ row.state = "LISTED" /\ row.buyer # Nobody /\ ~ row.claimed_by_seller
         /\ AuctionAction(i, "auctclaimsel", <<>>, [row EXCEPT !.claimed_by_seller = TRUE])

(* Anybody can call the log actions of older contracts. *)
Authorized(trace, ok) == With(trace, [authorized |-> ok])

Buyoffer(i) ==
  LET Becomes(action, state) ==
        Emit([chain EXCEPT !.buyoffers[i] = [state |-> state]],
             <<Authorized(Trace(action, i), TRUE)>>)
  IN  \/ chain.buyoffers[i] = NoRow /\ Becomes("lognewbuyo", "PENDING")
      \/ Emit(chain, <<Authorized(Trace("lognewbuyo", i), FALSE)>>)
      \/ /\ chain.buyoffers[i].state = "PENDING"
         /\ \/ Becomes("cancelbuyo", "CANCELED")
            \/ Becomes("acceptbuyo", "ACCEPTED")
            \/ Becomes("declinebuyo", "DECLINED")

TemplateBuyoffer(i) ==
  LET Becomes(action, state, seller) ==
        Emit([chain EXCEPT !.templateBuyoffers[i] = [state |-> state, seller |-> seller]],
             <<With(Authorized(Trace(action, i), TRUE), [seller |-> seller])>>)
  IN  \/ chain.templateBuyoffers[i] = NoRow /\ Becomes("lognewtbuyo", "LISTED", Nobody)
      \/ Emit(chain, <<Authorized(Trace("lognewtbuyo", i), FALSE)>>)
      \/ /\ chain.templateBuyoffers[i].state = "LISTED"
         /\ \/ Becomes("canceltbuyo", "CANCELED", Nobody)
            \/ \E a \in Accounts : Becomes("fulfilltbuyo", "SOLD", a)

(* The configuration only grows.  It may be old when it is first seen. *)
Configure(new) ==
  Emit([chain EXCEPT !.market = new], <<[action |-> "config", value |-> new]>>)
Configuration ==
  LET old == chain.market
  IN  \/ \E pairs \in SUBSET {p \in Pairs : chain.oracle[p].listed} :
           old.version = 0 /\ Configure([version |-> 1, tokens |-> {}, pairs |-> pairs])
      \/ old.version > 0 /\ Configure([old EXCEPT !.version = @ + 1])
      \/ /\ old.version > 0 /\ old.tokens = {}
         /\ Configure([old EXCEPT !.tokens = {"token"}])
      \/ \E p \in Pairs \ old.pairs :
           /\ old.version > 0 /\ chain.oracle[p].listed
           /\ Configure([old EXCEPT !.pairs = @ \cup {p}])

(* Marketplaces are kept, bonus fees end, balances are emptied. *)
SetRow(table, i, value) ==
  /\ chain.rows[table][i] # value
  /\ Emit([chain EXCEPT !.rows[table][i] = value],
          <<With(Trace(table, i), [value |-> value, present |-> value # "none"])>>)
MarketRows(i) ==
  \/ SetRow("marketplaces", i, "creator")
  \/ \E v \in {"none", "from here on", "ended"} : SetRow("bonusfees", i, v)
  \/ \E v \in {"none", "empty", "some"} : SetRow("balances", i, v)

-----------------------------------------------------------------------------
(* The handlers *)

Exists(j) == tables[TableOf(j.callback)][j.trace.id] # NoRow

(* The pair of a sale in atomicmarket_symbol_pairs and delphioracle_pairs. *)
PriceKnown(pair) ==
  pair \in Pairs => pair \in tables.market.pairs /\ tables.oracle[pair] # NoRow

(* An entry of the remembered configuration is gone, or a new one has a    *)
(* row already.                                                            *)
BadChange(old, new, rows) ==
  Cardinality(old) # Cardinality(new) /\ (old \ new # {} \/ (new \ old) \cap rows # {})

MarketThrows(j) ==
  CASE j.callback \in {"lognewsale", "lognewauct"} -> Exists(j)
    [] j.callback \in {"lognewbuyo", "lognewtbuyo"} -> j.trace.authorized /\ Exists(j)
    [] j.callback \in Updates \cup {"auctions"} ->
         Exists(j) => j.callback = "purchasesale" /\ ~ PriceKnown(tables.sales[j.trace.id].pair)
    [] j.callback = "config" ->
         \/ BadChange(memory.market.tokens, j.trace.value.tokens, tables.market.tokens)
         \/ BadChange(memory.market.pairs, j.trace.value.pairs, tables.market.pairs)
    [] j.callback = "marketplaces" -> ~ j.trace.present
    [] OTHER -> FALSE

(* A callback that changes tables only. *)
Change(j, callback, newTables) ==
  /\ Runs(j, callback) /\ ~ MarketThrows(j)
  /\ tables' = newTables
  /\ UNCHANGED memory /\ JobFrame

LogNewSale(j) ==
  Change(j, "lognewsale", [tables EXCEPT !.sales[j.trace.id] =
    [state |-> "WAITING", offer_id |-> "null", buyer |-> Nobody, pair |-> j.trace.pair,
     final_price |-> "null"]])

LogSaleStart(j) ==
  Change(j, "logsalestart", [tables EXCEPT !.sales[j.trace.id].state = "LISTED",
                                           !.sales[j.trace.id].offer_id = j.trace.offer_id])

CancelSale(j) ==
  Change(j, "cancelsale", [tables EXCEPT !.sales[j.trace.id].state = "CANCELED"])

(* The price of a sale without a pair is the listing price; else the price *)
(* is computed from the median the buyer named.                            *)
PurchaseSale(j) ==
  Change(j, "purchasesale", [tables EXCEPT !.sales[j.trace.id] =
    [@ EXCEPT !.state = "SOLD", !.buyer = j.trace.buyer,
              !.final_price = IF j.trace.median THEN "by median" ELSE "listing price"]])

LogNewAuction(j) ==
  Change(j, "lognewauct", [tables EXCEPT !.auctions[j.trace.id] =
    [state |-> "WAITING", buyer |-> Nobody, bids |-> <<>>, end_time |-> j.trace.end_time,
     claimed_by_buyer |-> FALSE, claimed_by_seller |-> FALSE]])

(* Also when the contract deletes the row. *)
AuctionsRow(j) ==
  Change(j, "auctions", [tables EXCEPT !.auctions[j.trace.id].end_time = j.trace.end_time])

LogAuctionStart(j) ==
  Change(j, "logauctstart", [tables EXCEPT !.auctions[j.trace.id].state = "LISTED"])

CancelAuction(j) ==
  Change(j, "cancelauct", [tables EXCEPT !.auctions[j.trace.id].state = "CANCELED"])

(* A bid's number is one more than the bids there are: a row of            *)
(* atomicmarket_auctions_bids is found by its number.                      *)
AuctionBid(j) ==
  LET row == tables.auctions[j.trace.id]
  IN  Change(j, "auctionbid", [tables EXCEPT !.auctions[j.trace.id] =
        [row EXCEPT !.buyer = j.trace.bidder, !.bids = Append(@, j.trace.bidder)]])

AuctionClaimBuyer(j) ==
  Change(j, "auctclaimbuy", [tables EXCEPT !.auctions[j.trace.id].claimed_by_buyer = TRUE])

AuctionClaimSeller(j) ==
  Change(j, "auctclaimsel", [tables EXCEPT !.auctions[j.trace.id].claimed_by_seller = TRUE])

(* Mutant of LogNewBuyoffer: the authorization is not looked at. *)
LogNewBuyofferOfAnyone(j) ==
  Change(j, "lognewbuyo", [tables EXCEPT !.buyoffers[j.trace.id] = [state |-> "PENDING"]])

(* Logged by somebody else: ignored. *)
LogNewBuyoffer(j) ==
  Change(j, "lognewbuyo",
    IF ~ j.trace.authorized THEN tables
    ELSE [tables EXCEPT !.buyoffers[j.trace.id] = [state |-> "PENDING"]])

CloseBuyoffer(j, callback, state) ==
  Change(j, callback, [tables EXCEPT !.buyoffers[j.trace.id].state = state])

LogNewTemplateBuyoffer(j) ==
  Change(j, "lognewtbuyo",
    IF ~ j.trace.authorized THEN tables
    ELSE [tables EXCEPT !.templateBuyoffers[j.trace.id] = [state |-> "LISTED", seller |-> Nobody]])

CancelTemplateBuyoffer(j) ==
  Change(j, "canceltbuyo", [tables EXCEPT !.templateBuyoffers[j.trace.id].state = "CANCELED"])

FulfillTemplateBuyoffer(j) ==
  Change(j, "fulfilltbuyo", [tables EXCEPT !.templateBuyoffers[j.trace.id] =
    [state |-> "SOLD", seller |-> j.trace.seller]])

(* Only a list that is longer or shorter than the remembered one changes   *)
(* its table; then the row is remembered.                                  *)
Grown(old, new, rows) ==
  IF Cardinality(old) = Cardinality(new) THEN rows ELSE rows \cup (new \ old)

(* Mutant of Config: the row is remembered before it is compared. *)
ConfigRememberedFirst(j) ==
  /\ Runs(j, "config") /\ ~ MarketThrows(j)
  /\ memory' = [memory EXCEPT !.market = j.trace.value]
  /\ UNCHANGED tables /\ JobFrame

Config(j) ==
  LET old == memory.market
      new == j.trace.value
  IN  /\ Runs(j, "config") /\ ~ MarketThrows(j)
      /\ tables' = [tables EXCEPT !.market =
           [version |-> IF old.version # new.version THEN new.version ELSE @.version,
            tokens  |-> Grown(old.tokens, new.tokens, @.tokens),
            pairs   |-> Grown(old.pairs, new.pairs, @.pairs)]]
      /\ memory' = [memory EXCEPT !.market = new]
      /\ JobFrame

Marketplace(j) ==
  Change(j, "marketplaces", [tables EXCEPT !.rows.marketplaces[j.trace.id] = j.trace.value])

(* The counter ranges of a fee become the columns of its row. *)
Bonusfee(j) ==
  Change(j, "bonusfees", [tables EXCEPT !.rows.bonusfees[j.trace.id] = j.trace.value])

(* The rows of an owner are deleted, then one per quantity inserted: an    *)
(* empty list leaves none.                                                 *)
Balance(j) ==
  Change(j, "balances", [tables EXCEPT !.rows.balances[j.trace.id] =
    IF j.trace.value = "some" THEN "some" ELSE "none"])

MarketJob(j) ==
  \/ LogNewSale(j) \/ LogSaleStart(j) \/ CancelSale(j) \/ PurchaseSale(j)
  \/ LogNewAuction(j) \/ AuctionsRow(j) \/ LogAuctionStart(j) \/ CancelAuction(j)
  \/ AuctionBid(j) \/ AuctionClaimBuyer(j) \/ AuctionClaimSeller(j)
  \/ LogNewBuyoffer(j)
  \/ CloseBuyoffer(j, "cancelbuyo", "CANCELED")
  \/ CloseBuyoffer(j, "acceptbuyo", "ACCEPTED")
  \/ CloseBuyoffer(j, "declinebuyo", "DECLINED")
  \/ LogNewTemplateBuyoffer(j) \/ CancelTemplateBuyoffer(j) \/ FulfillTemplateBuyoffer(j)
  \/ Config(j) \/ Marketplace(j) \/ Bonusfee(j) \/ Balance(j)

-----------------------------------------------------------------------------
(* What the tables should contain; "empty" and "none" are the same rows. *)

Shown(rows) == [rows EXCEPT !.balances = [i \in Ids |-> IF @[i] = "some" THEN "some" ELSE "none"]]

MarketMatches ==
  /\ tables.sales = chain.sales /\ tables.auctions = chain.auctions
  /\ tables.buyoffers = chain.buyoffers /\ tables.templateBuyoffers = chain.templateBuyoffers
  /\ tables.rows = Shown(chain.rows)

(* The configuration is the contract's since its first row was seen. *)
MarketConfigMatches == chain.market.version # 0 => tables.market = chain.market
=============================================================================
