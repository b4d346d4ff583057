------------------------------- MODULE Listings -------------------------------
(***************************************************************************)
(* The listings of the market: the conditions of /v1/sales, /v1/auctions,  *)
(* /v1/buyoffers and /v1/template_buyoffers                                *)
(* (src/api/namespaces/atomicmarket/utils.ts), the pages of their handlers *)
(* and the state each row is shown with (format.ts).                       *)
(*                                                                         *)
(* Get... is the first query of a handler: the sequence of the ids on the  *)
(* page.  The rows are read by a second query and shown by Format..., with *)
(* what they and the clock are by then: see Following in Api.              *)
(***************************************************************************)
EXTENDS AssetQueries

CONSTANTS
  Contracts,  \* contract_codes: accounts with a contract
  Precision   \* 10 ^ token_precision

(* A sale, auction or buyoffer with the columns of listing. *)
Listing(info, row) ==
  [seller |-> info.seller, buyer |-> row.buyer, collection_name |-> info.collection_name,
   maker |-> info.maker, taker |-> IF row.taker THEN info.taker ELSE Null,
   assets |-> row.assets, price |-> info.price, symbol |-> info.symbol,
   template_mint |-> row.template_mint]

SaleListing(s) ==
  Listing(SaleInfo[s], [buyer |-> db.sale[s].buyer, taker |-> db.sale[s].buyer # Null,
                        assets |-> SaleInfo[s].assets,
                        template_mint |-> db.sale[s].template_mint])
AuctionListing(i) ==
  Listing(AuctionInfo[i], [buyer |-> db.auction[i].buyer, taker |-> db.auction[i].buyer # Null,
                           assets |-> AuctionInfo[i].assets,
                           template_mint |-> db.auction[i].template_mint])
BuyofferListing(i) ==
  Listing(BuyofferInfo[i], [buyer |-> BuyofferInfo[i].buyer,
                            taker |-> db.buyoffer[i].state = BUYOFFER_ACCEPTED,
                            assets |-> BuyofferInfo[i].assets,
                            template_mint |-> db.buyoffer[i].template_mint])
TemplateBuyofferListing(i) ==
  LET row == db.template_buyoffer[i] IN
  [Listing(TemplateBuyofferInfo[i], [buyer |-> TemplateBuyofferInfo[i].buyer,
                                     taker |-> row.state = TEMPLATE_SOLD, assets |-> row.assets,
                                     template_mint |-> row.template_mint])
   EXCEPT !.seller = row.seller]

(* The range lies in the one asked for; 'empty' lies in every one.  NULL,  *)
(* before the procedure has run, lies in none.                             *)
TemplateMintFilter(request, range) ==
  Has(request, "min_template_mint") \/ Has(request, "max_template_mint") =>
    /\ range # Null
    /\ Has(request, "min_template_mint") => range # {}
    /\ \A n \in range : /\ Has(request, "min_template_mint") => n >= request.min_template_mint
                       /\ Has(request, "max_template_mint") => n <= request.max_template_mint

MintsRefused(request) ==
  /\ Has(request, "min_template_mint") /\ Has(request, "max_template_mint")
  /\ request.min_template_mint > request.max_template_mint

ListingFilter(request, l) ==
  /\ Has(request, "account") => EqualMany(l.buyer, request.account) \/ EqualMany(l.seller, request.account)
  /\ Has(request, "seller") => EqualMany(l.seller, request.seller)
  /\ Has(request, "buyer") => EqualMany(l.buyer, request.buyer)
  /\ Has(request, "collection_name") => EqualMany(l.collection_name, request.collection_name)
  /\ ~ Arg(request, "show_seller_contracts", TRUE) =>
       l.seller \notin Contracts \ Arg(request, "contract_whitelist", {})
  /\ Has(request, "seller_blacklist") => NotMany(l.seller, request.seller_blacklist, FALSE)
  /\ Has(request, "buyer_blacklist") => NotMany(l.buyer, request.buyer_blacklist, FALSE)
  /\ IF Has(request, "marketplace")
     THEN EqualMany(l.maker, request.marketplace) \/ EqualMany(l.taker, request.marketplace)
     ELSE /\ Has(request, "maker_marketplace") => EqualMany(l.maker, request.maker_marketplace)
          /\ Has(request, "taker_marketplace") => EqualMany(l.taker, request.taker_marketplace)
  /\ TemplateMintFilter(request, l.template_mint)

CountFilter(request, assets) ==
  /\ Has(request, "max_assets") => Cardinality(assets) <= request.max_assets
  /\ Has(request, "min_assets") => Cardinality(assets) >= request.min_assets

PriceFilter(request, l) ==
  Has(request, "symbol") =>
    /\ l.symbol = request.symbol
    /\ Has(request, "min_price") => l.price >= request.min_price * Precision
    /\ Has(request, "max_price") => l.price <= request.max_price * Precision

HasPrices(request) == Has(request, "min_price") \/ Has(request, "max_price")
PricesRefused(request) == HasPrices(request) /\ ~ Has(request, "symbol")

(* The subquery on the assets, of which only those allowed count, when a   *)
(* parameter of an asset or one of others asks for it.                     *)
AnyAsset(request, allowed, others) ==
  HasAssetFilter(request, {"collection_name"}) \/ HasDataFilters(request) \/ DOMAIN request \cap others # {}
    => \E a \in allowed : Exists(db.owner, a) /\ AssetFilter(request, a)

TemplateAllowed(request, a) ==
  Has(request, "template_blacklist") => NotMany(TemplateOf(a), request.template_blacklist, TRUE)

Lower(range) ==
  IF range \in {Null, {}} THEN Null ELSE CHOOSE n \in range : \A k \in range : n <= k

(* ORDER BY of the handlers, without the columns of time and of the name;  *)
(* ranges are those of each listing that was found.                        *)
Ordered(request, info, ranges) ==
  LET sort == Arg(request, "sort", "created")
      column == [i \in DOMAIN ranges |->
                   CASE sort \in {"auction_id", "buyoffer_id", "sale_id"} -> i
                     [] sort = "price" -> info[i].price
                     [] sort = "template_mint" -> Lower(ranges[i])
                     [] OTHER -> info[i].created]
  IN  OrderBy(column, Arg(request, "order", "desc"))

-----------------------------------------------------------------------------
(* Sales *)
SaleStateFilter(request, s) ==
  LET state == db.sale[s].state
      offer == db.offer[s]
  IN  Has(request, "state") =>
        \/ 0 \in request.state /\ state = WAITING
        \/ 1 \in request.state /\ state = LISTED /\ offer = PENDING
        \/ 2 \in request.state /\ state = CANCELED
        \/ 3 \in request.state /\ state = SOLD
        \/ 4 \in request.state /\ offer # PENDING /\ state = LISTED

SaleFilter(request, s) ==
  LET l == SaleListing(s) IN
  /\ ListingFilter(request, l)
  /\ AnyAsset(request, {a \in l.assets : TemplateAllowed(request, a)}, {"template_blacklist"})
  /\ CountFilter(request, l.assets)
  /\ Has(request, "symbol") => l.symbol = request.symbol
  /\ SaleStateFilter(request, s)

SalesRefused(request) ==
  HasPrices(request) \/ Arg(request, "sort", "created") = "price" \/ MintsRefused(request)

(* The row of atomicassets_offers is joined. *)
GetSales(request) ==
  LET found == {s \in Sales :
                  /\ Exists(db.sale, s) /\ db.sale[s].offer_id # Null /\ Exists(db.offer, s)
                  /\ SaleFilter(request, s)
                  /\ ~ Has(request, "collection_name") =>
                       GreylistFilter(request, SaleInfo[s].collection_name)
                  /\ BoundaryFilter(request, s, SaleInfo[s].created)}
  IN  PageOf(request, Ordered(request, SaleInfo, [s \in found |-> db.sale[s].template_mint]))

(* The second query: the view joins the sale and its offer, and a sale     *)
(* that is not in it any more drops out of the page.                       *)
InView(tables, s) ==
  Exists(tables.sale, s) /\ tables.sale[s].offer_id # Null /\ Exists(tables.offer, s)

SalesShown(tables, ids) ==
  LET Joined(s) == InView(tables, s) IN SelectSeq(ids, Joined)

FormatSale(tables, s) ==
  LET state == tables.sale[s].state IN
  CASE state = WAITING -> 0
    [] state = LISTED /\ tables.offer[s] = PENDING -> 1
    [] state = CANCELED -> 2
    [] state = SOLD -> 3
    [] OTHER -> 4

-----------------------------------------------------------------------------
(* Auctions *)
(* An account takes part: there is something to claim, or he bids or       *)
(* sells while the auction lasts.                                          *)
Participates(account, i) ==
  LET row == db.auction[i]
      seller == AuctionInfo[i].seller
  IN  /\ row.state = LISTED
      /\ \/ seller = account /\ ~ row.claimed_by_seller /\ row.end_time <= Seconds
         \/ row.buyer = account /\ ~ row.claimed_by_buyer /\ row.end_time <= Seconds
         \/ seller = account /\ row.end_time > Seconds
         \/ row.end_time > Seconds /\ account \in row.bids

AuctionStateFilter(request, i) ==
  LET row == db.auction[i] IN
  Has(request, "state") =>
    \/ 0 \in request.state /\ row.state = WAITING
    \/ 1 \in request.state /\ row.state = LISTED /\ row.end_time > Seconds
    \/ 2 \in request.state /\ row.state = CANCELED
    \/ 3 \in request.state /\ row.state = LISTED /\ row.end_time <= Seconds /\ row.buyer # Null
    \/ 4 \in request.state /\ row.state = LISTED /\ row.end_time <= Seconds /\ row.buyer = Null

HiddenByAccounts(request, a) ==
  /\ Has(request, "hide_templates_by_accounts")
  /\ \E x \in Assets : /\ db.owner[x] \in request.hide_templates_by_accounts
                       /\ TemplateOf(a) # Null /\ TemplateOf(x) = TemplateOf(a)

AuctionFilter(request, i) ==
  LET l == AuctionListing(i)
      row == db.auction[i]
      allowed == {a \in l.assets : ~ HiddenByAccounts(request, a) /\ TemplateAllowed(request, a)}
  IN  /\ ListingFilter(request, l)
      /\ AnyAsset(request, allowed, {"hide_templates_by_accounts", "template_blacklist"})
      /\ Has(request, "participant") => Participates(request.participant, i)
      /\ Arg(request, "hide_empty_auctions", FALSE) => row.bids # {}
      /\ CountFilter(request, l.assets)
      /\ Has(request, "bidder") => row.bids \cap request.bidder # {}
      /\ PriceFilter(request, l)
      /\ AuctionStateFilter(request, i)

AllAssetsExist(assets) == \A a \in assets : Exists(db.owner, a)

GetAuctions(request) ==
  LET found == {i \in Auctions :
                  /\ Exists(db.auction, i)
                  /\ AllAssetsExist(AuctionInfo[i].assets)
                  /\ AuctionFilter(request, i)
                  /\ GreylistFilter(request, AuctionInfo[i].collection_name)
                  /\ BoundaryFilter(request, i, AuctionInfo[i].created)}
  IN  PageOf(request, Ordered(request, AuctionInfo, [i \in found |-> db.auction[i].template_mint]))

(* Auctions, buyoffers and template buyoffers are looked up among the rows *)
(* of the second query: without its row, the request fails.                *)
Fails(table, ids) == \E i \in ids : ~ Exists(table, i)

(* The end is compared with the exact time of the answer. *)
FormatAuction(row, time) ==
  CASE row.state = WAITING -> 0
    [] row.state = LISTED /\ 2 * row.end_time > time -> 1
    [] row.state = CANCELED -> 2
    [] row.state = LISTED /\ 2 * row.end_time <= time /\ row.buyer # Null -> 3
    [] OTHER -> 4

-----------------------------------------------------------------------------
(* Buyoffers: the recipient, column seller, has to own all assets.  A      *)
(* burned asset has the owner NULL, which SQL does not find unequal.       *)
OwnedByOther(i) ==
  \E a \in BuyofferInfo[i].assets : db.owner[a] \notin {NoRow, Null, BuyofferInfo[i].seller}

BuyofferStateFilter(request, i) ==
  LET state == db.buyoffer[i].state IN
  Has(request, "state") =>
    \/ 0 \in request.state /\ state = BUYOFFER_PENDING /\ ~ OwnedByOther(i)
    \/ 1 \in request.state /\ state = BUYOFFER_DECLINED
    \/ 2 \in request.state /\ state = BUYOFFER_CANCELED
    \/ 3 \in request.state /\ state = BUYOFFER_ACCEPTED
    \/ 4 \in request.state /\ state = BUYOFFER_PENDING /\ OwnedByOther(i)

BuyofferFilter(request, i) ==
  LET l == BuyofferListing(i) IN
  /\ ListingFilter(request, l)
  /\ AnyAsset(request, l.assets, {})
  /\ CountFilter(request, l.assets)
  /\ PriceFilter(request, l)
  /\ BuyofferStateFilter(request, i)

GetBuyOffers(request) ==
  LET found == {i \in Buyoffers :
                  /\ Exists(db.buyoffer, i)
                  /\ AllAssetsExist(BuyofferInfo[i].assets)
                  /\ BuyofferFilter(request, i)
                  /\ GreylistFilter(request, BuyofferInfo[i].collection_name)
                  /\ BoundaryFilter(request, i, BuyofferInfo[i].created)}
  IN  PageOf(request, Ordered(request, BuyofferInfo, [i \in found |-> db.buyoffer[i].template_mint]))

(* The owners are read by a third query (AssetFiller): an asset without a  *)
(* row is shown by its id.                                                 *)
FilledOwner(a) == IF Exists(db.owner, a) THEN db.owner[a] ELSE "undefined"

FormatBuyoffer(row, i) ==
  CASE /\ row.state = BUYOFFER_PENDING
       /\ \A a \in BuyofferInfo[i].assets : FilledOwner(a) = BuyofferInfo[i].seller -> 0
    [] row.state = BUYOFFER_DECLINED -> 1
    [] row.state = BUYOFFER_CANCELED -> 2
    [] row.state = BUYOFFER_ACCEPTED -> 3
    [] OTHER -> 4

-----------------------------------------------------------------------------
(* Template buyoffers: the template is joined, and the asset that          *)
(* fulfilled the offer, whose columns are NULL until then.                 *)
NullsMatch(request) ==
  /\ DOMAIN request \cap {"asset_id", "owner", "collection_name", "schema_name", "mutable_data",
        "immutable_data", "match_mutable_name", "match_immutable_name"} = {}
  /\ Has(request, "template_id") => request.template_id = {Null}
  /\ Arg(request, "burned", TRUE)

TemplateBuyofferFilter(request, i) ==
  LET l == TemplateBuyofferListing(i)
      state == db.template_buyoffer[i].state
      template == TemplateBuyofferInfo[i].template_id
  IN  /\ ListingFilter(request, l)
      /\ HasAssetFilter(request, {"collection_name", "template_id"}) \/ HasDataFilters(request) =>
           /\ TemplateConditions(request, template)
           /\ IF l.assets = {} THEN NullsMatch(request) ELSE \E a \in l.assets : AssetConditions(request, a)
      /\ Has(request, "template_id") => EqualMany(template, request.template_id)
      /\ PriceFilter(request, l)
      /\ Has(request, "state") =>
           \/ 0 \in request.state /\ state = TEMPLATE_LISTED
           \/ 1 \in request.state /\ state = TEMPLATE_CANCELED
           \/ 2 \in request.state /\ state = TEMPLATE_SOLD

GetTemplateBuyOffers(request) ==
  LET found == {i \in TemplateBuyoffers :
                  /\ Exists(db.template_buyoffer, i)
                  /\ TemplateBuyofferFilter(request, i)
                  /\ GreylistFilter(request, TemplateBuyofferInfo[i].collection_name)
                  /\ BoundaryFilter(request, i, TemplateBuyofferInfo[i].created)}
  IN  PageOf(request, Ordered(request, TemplateBuyofferInfo,
                              [i \in found |-> db.template_buyoffer[i].template_mint]))

FormatTemplateBuyoffer(row) ==
  CASE row.state = TEMPLATE_LISTED -> 0
    [] row.state = TEMPLATE_CANCELED -> 1
    [] row.state = TEMPLATE_SOLD -> 2

-----------------------------------------------------------------------------
(* buildAssetFillerHook: what an asset is shown with, by queries of its    *)
(* own.  Of the template buyoffers one of the highest price is shown for   *)
(* each token.                                                             *)
SalesOfAsset(a) ==
  {s \in Sales : /\ a \in SaleInfo[s].assets /\ Exists(db.sale, s) /\ Exists(db.offer, s)
                 /\ db.sale[s].offer_id # Null
                 /\ db.sale[s].state = LISTED /\ db.offer[s] = PENDING}

(* (Date.now() / 1000)::BIGINT rounds to the nearest second. *)
Rounded == (now + 1) \div 2

AuctionsOfAsset(a) ==
  {i \in Auctions : /\ a \in AuctionInfo[i].assets /\ Exists(db.auction, i)
                    /\ db.auction[i].state = LISTED /\ db.auction[i].end_time > Rounded}

TemplateBuyoffersOf(template) ==
  LET listed == {i \in TemplateBuyoffers :
                   /\ TemplateBuyofferInfo[i].template_id = template /\ Exists(db.template_buyoffer, i)
                   /\ db.template_buyoffer[i].state = TEMPLATE_LISTED}
      info(i) == TemplateBuyofferInfo[i]
  IN  {i \in listed : \A x \in listed : info(x).symbol = info(i).symbol => info(x).price <= info(i).price}
=============================================================================
