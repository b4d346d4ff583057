---------------------------------- MODULE Api ----------------------------------
(***************************************************************************)
(* The API server.  What clients are answered while the reader changes the *)
(* tables and the job refreshes the table of filters (Next of              *)
(* SalesFilters): they may ask at any moment, and an answer changes        *)
(* nothing.  And what clients of its sockets are told (Sockets), which is  *)
(* the traffic of the behaviours in which the tables here are at rest.     *)
(***************************************************************************)
EXTENDS SalesV2, Sockets

CONSTANTS
  SaleRequests,      \* requests that mean the same in both versions of sales
  StateRequests,     \* requests to sales that ask for states, by pages
  TemplateRequests,  \* requests to /v1/sales/templates
  OtherRequests      \* requests to the other listings, besides the state

apiVars == <<vars, socketVars>>

InitApi == Init /\ InitSockets

NextApi ==
  \/ Next /\ UNCHANGED socketVars
  \/ traffic = "events" /\ NextSockets /\ UNCHANGED vars

ApiSpec == InitApi /\ [][NextApi]_apiVars /\ Fairness

(* Two implementations of one search: while no row is stale, a page of     *)
(* /v2/sales is the page of /v1/sales (getSalesV2Action, getSalesAction),  *)
(* and /v1/sales/templates shows, once for each template, a sale that      *)
(* /v1/sales lists and that none of the template undercuts.                *)
UpToDate == traffic = "sales" /\ \A s \in Sales : Fresh(s)

Shown(rows) == {rows[i] : i \in DOMAIN rows}

TemplatesOf(s) == {TemplateOf(a) : a \in SaleInfo[s].assets} \ {Null}

CheapestOnce(request) ==
  LET shown == GetSalesTemplatesV2(request)
      params == [p \in (DOMAIN request \cup {"state", "min_assets", "max_assets"}) \ {"sort", "order"} |->
                   CASE p = "state" -> {LISTED}
                     [] p \in {"min_assets", "max_assets"} -> 1
                     [] OTHER -> request[p]]
      listed == {s \in Shown(GetSales(params)) : TemplatesOf(s) # {}}
  IN  /\ Shown(shown) \subseteq listed
      /\ UNION {TemplatesOf(s) : s \in Shown(shown)} = UNION {TemplatesOf(s) : s \in listed}
      /\ Cardinality(UNION {TemplatesOf(s) : s \in listed}) = Len(shown)
      /\ \A s \in Shown(shown) : \A x \in listed :
           TemplatesOf(s) = TemplatesOf(x) => SaleInfo[s].price <= SaleInfo[x].price

(* A sale is listed before its range is known: then /v1 leaves it out when *)
(* a range is asked for, and /v2 takes what is known of it.                *)
Ranged(ids) == LET Known(s) == db.sale[s].template_mint # Null IN SelectSeq(ids, Known)
AsksForMints(request) == Has(request, "min_template_mint") \/ Has(request, "max_template_mint")

VersionsAgree ==
  UpToDate =>
    /\ \A request \in SaleRequests :
         ~ SalesRefused(request) /\ ~ SalesRefusedV2(request) =>
           GetSales(request) = IF AsksForMints(request) THEN Ranged(GetSalesV2(request))
                                                       ELSE GetSalesV2(request)
    /\ \A request \in TemplateRequests : ~ TemplatesRefused(request) => CheapestOnce(request)

(* What a client asks for is what he is shown, when the rows are those     *)
(* that were searched: a listing is found under the state that the answer  *)
(* displays and under no other, although the state is computed by the      *)
(* query (utils.ts), in the filter table, which may be stale, and again    *)
(* for the answer (format.ts).  Buyoffers on burned assets are the         *)
(* exception, see OwnedByOther.                                            *)
SaleStatesAgree ==
  /\ \A k \in 0 .. 4 :
       Shown(GetSales([state |-> {k}])) = {s \in Sales : InView(db, s) /\ FormatSale(db, s) = k}
  /\ \A request \in StateRequests :
       LET ids == GetSalesV2(request) IN
       /\ \A s \in Shown(SalesShown(db, ids)) : FormatSale(db, s) \in request.state
       /\ Cardinality(Shown(ids)) = Len(ids)

(* The states under which Get finds i, and the one it is shown with.       *)
FoundAsShown(Get(_), states, ids, Format(_)) ==
  \A request \in OtherRequests :
    LET With(k) == [p \in DOMAIN request \cup {"state"} |-> IF p = "state" THEN {k} ELSE request[p]]
        found == [k \in states |-> Shown(Get(With(k)))]
        listed == Shown(Get(request))
    IN  \A i \in ids : {k \in states : i \in found[k]} = IF i \in listed THEN {Format(i)} ELSE {}

AuctionStatesAgree ==
  LET Format(i) == FormatAuction(db.auction[i], now) IN FoundAsShown(GetAuctions, 0 .. 4, Auctions, Format)

NoneBurned(i) == \A a \in BuyofferInfo[i].assets : db.owner[a] # Null

BuyofferStatesAgree ==
  LET Format(i) == FormatBuyoffer(db.buyoffer[i], i)
      FormatTemplate(i) == FormatTemplateBuyoffer(db.template_buyoffer[i])
  IN  /\ FoundAsShown(GetBuyOffers, 0 .. 4, {i \in Buyoffers : NoneBurned(i)}, Format)
      /\ FoundAsShown(GetTemplateBuyOffers, 0 .. 2, TemplateBuyoffers, FormatTemplate)

(* The rows are read, and the clock is looked at, after the search: here   *)
(* one transaction and any time later, and so, since the states follow     *)
(* each other, after any number of transactions.  Unless a fork took one   *)
(* of them back, no request fails for a row that is gone, what was found   *)
(* as canceled, sold, declined or accepted is shown as that, and an        *)
(* auction that was found as sold is not shown as one without bids.        *)
FollowingSales ==
  \A s \in Sales : InView(before, s) =>
    /\ InView(db, s)
    /\ FormatSale(before, s) \in {2, 3} => FormatSale(db, s) = FormatSale(before, s)

FollowingAuctions ==
  LET found == {i \in Auctions : Exists(before.auction, i)} IN
  /\ ~ Fails(db.auction, found)
  /\ \A i \in found, time \in 0 .. now :
       LET asked == FormatAuction(before.auction[i], time)
           shown == FormatAuction(db.auction[i], now)
       IN  /\ asked = 2 => shown = 2
           /\ asked = 3 => shown \in {1, 3}
           /\ asked # 0 => shown # 0

FollowingBuyoffers ==
  LET found == {i \in Buyoffers : Exists(before.buyoffer, i)}
      foundTemplate == {i \in TemplateBuyoffers : Exists(before.template_buyoffer, i)}
      Shows(row, i) == FormatBuyoffer(row, i)
  IN  /\ ~ Fails(db.buyoffer, found) /\ ~ Fails(db.template_buyoffer, foundTemplate)
      /\ \A i \in found :
           before.buyoffer[i].state # BUYOFFER_PENDING =>
             Shows(db.buyoffer[i], i) = Shows(before.buyoffer[i], i) /\ Shows(db.buyoffer[i], i) \in 1 .. 3
      /\ \A i \in foundTemplate :
           LET asked == FormatTemplateBuyoffer(before.template_buyoffer[i]) IN
           asked # 0 => FormatTemplateBuyoffer(db.template_buyoffer[i]) = asked

Following ==
  before # NoRow =>
    CASE traffic = "sales" -> FollowingSales
      [] traffic = "auctions" -> FollowingAuctions
      [] traffic = "buyoffers" -> FollowingBuyoffers
      [] OTHER -> TRUE

(* Assets are shown with the listings that are open, auctions until their  *)
(* last half second, and a template with a buyoffer that leads the listing *)
(* by price.                                                               *)
AssetsAgree ==
  \A a \in Assets :
    LET open == {i \in Auctions : /\ Exists(db.auction, i) /\ a \in AuctionInfo[i].assets
                                  /\ FormatAuction(db.auction[i], now) = 1}
    IN  /\ SalesOfAsset(a) = {s \in Sales : InView(db, s) /\ a \in SaleInfo[s].assets /\ FormatSale(db, s) = 1}
        /\ AuctionsOfAsset(a) \subseteq open
        /\ \A i \in open \ AuctionsOfAsset(a) : FormatAuction(db.auction[i], now + 1) # 1

TemplatesAgree ==
  \A t \in {TemplateOf(a) : a \in Assets} \ {Null} :
    LET request == [template_id |-> {t}, symbol |-> "WAX", state |-> {0}, sort |-> "price", limit |-> 1]
        best == {i \in TemplateBuyoffersOf(t) : TemplateBuyofferInfo[i].symbol = "WAX"}
        Price(i) == TemplateBuyofferInfo[i].price
    IN  {Price(i) : i \in best} = {Price(i) : i \in Shown(GetTemplateBuyOffers(request))}

StatesAgree ==
  /\ Following
  /\ traffic # "events" => AssetsAgree
  /\ CASE traffic = "sales" -> SaleStatesAgree
       [] traffic = "auctions" -> AuctionStatesAgree
       [] traffic = "buyoffers" -> BuyofferStatesAgree /\ TemplatesAgree
       [] OTHER -> TRUE
=============================================================================
