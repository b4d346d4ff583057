------------------------------- MODULE SalesV2 -------------------------------
(***************************************************************************)
(* /v2/sales and /v1/sales/templates: searches in the table of             *)
(* SalesFilters (src/api/namespaces/atomicmarket/handlers/sales2.ts).      *)
(* Filters that only decide which index PostgreSQL uses (strongFilters,    *)
(* isStrongMainFilter) are left out.                                       *)
(***************************************************************************)
EXTENDS Listings

CONSTANT Tokens  \* atomicmarket_tokens: symbols

(* Values with a tag: one is searched with @>, several with &&.            *)
HasEvery(r, tag, values) == Tagged(tag, values) \subseteq r.filter        \* mutant of HasAny
HasAny(r, tag, values) == Tagged(tag, values) \cap r.filter # {}

(* collection_name, restricted by both lists. *)
ListsCollections(request) == Has(request, "collection_name") \/ Has(request, "collection_whitelist")
CollectionNames(request) ==
  LET whitelist == Arg(request, "collection_whitelist", {})
      named == IF Has(request, "collection_name")
               THEN {c \in request.collection_name : whitelist = {} \/ c \in whitelist}
               ELSE whitelist
  IN  named \ Arg(request, "collection_blacklist", {})

(* The word "null" among the ids asks for sales without any template.      *)
AsksForNoTemplate(request) == Null \in Arg(request, "template_id", {})
TemplateIds(request) == IF AsksForNoTemplate(request) THEN {} ELSE Arg(request, "template_id", {})

AsksForTemplates(request) == Has(request, "search") \/ TemplateIds(request) # {}
GetTemplateIDs(request) ==
  {t \in DOMAIN Templates :
     /\ Has(request, "search") => Named(Templates[t].data, request.search)
     /\ ListsCollections(request) => Templates[t].collection_name \in CollectionNames(request)
     /\ Has(request, "schema_name") => Templates[t].schema_name \in request.schema_name
     /\ TemplateIds(request) # {} => t \in TemplateIds(request)}

(* Templates are unique: with them, collection and schema are not asked.   *)
CollectionFilterV2(request, r) ==
  /\ AsksForTemplates(request) => HasAny(r, "t", GetTemplateIDs(request))
  /\ ~ AsksForTemplates(request) =>
       /\ Has(request, "schema_name") => HasAny(r, "s", request.schema_name)
       /\ ListsCollections(request) => HasAny(r, "c", CollectionNames(request))
  /\ ~ ListsCollections(request) => ~ HasAny(r, "c", Arg(request, "collection_blacklist", {}))

FlagFilterV2(request, r) ==
  LET Flagged(f) == <<"f", f>> \in r.filter IN
  /\ AsksForNoTemplate(request) => Flagged("nt")
  /\ Has(request, "burned") => (request.burned <=> Flagged("b"))
  /\ Has(request, "is_transferable") => (request.is_transferable <=> ~ Flagged("nx"))
  /\ Has(request, "is_burnable") => (request.is_burnable <=> ~ Flagged("nb"))

(* All kinds of data are one tag; the name is a column with all names.     *)
DataFilterV2(request, r) ==
  LET names == {DataOf(a)["name"] : a \in {x \in SaleInfo[r.sale_id].assets : "name" \in DOMAIN DataOf(x)}}
      searched == {p \in DataParameters \ {"search"} : Has(request, p)}
  IN  \A p \in searched :
        IF p \in {"match", "match_immutable_name", "match_mutable_name"}
        THEN request[p] \in names
        ELSE \A k \in DOMAIN request[p] :
               IF k = "name" THEN names = {request[p][k]} ELSE <<"d", <<k, request[p][k]>>>> \in r.filter

MainFilterV2(request, r) ==
  /\ Has(request, "owner") => HasAny(r, "o", request.owner)
  /\ Has(request, "account") => HasAny(r, "e", request.account) \/ HasAny(r, "b", request.account)
  /\ Has(request, "seller") => HasAny(r, "e", request.seller)
  /\ Has(request, "buyer") => HasAny(r, "b", request.buyer)
  /\ CollectionFilterV2(request, r)
  /\ FlagFilterV2(request, r)
  /\ ~ HasAny(r, "e", Arg(request, "seller_blacklist", {}))
  /\ ~ HasAny(r, "b", Arg(request, "buyer_blacklist", {}))
  /\ DataFilterV2(request, r)

(* taker_marketplace is written together with the buyer. *)
ListingFilterV2(request, r) ==
  LET info == SaleInfo[r.sale_id]
      taker == IF \E x \in Accounts : <<"b", x>> \in r.filter THEN info.taker ELSE Null
  IN  /\ ~ Arg(request, "show_seller_contracts", TRUE) =>
           info.seller \notin Contracts \ Arg(request, "contract_whitelist", {})
      /\ IF Has(request, "marketplace")
         THEN EqualMany(info.maker, request.marketplace) \/ EqualMany(taker, request.marketplace)
         ELSE /\ Has(request, "maker_marketplace") => EqualMany(info.maker, request.maker_marketplace)
              /\ Has(request, "taker_marketplace") => EqualMany(taker, request.taker_marketplace)
      /\ TemplateMintFilter(request, r.template_mint)

HidesTemplate(request, r) ==
  /\ Has(request, "hide_templates_by_accounts")
  /\ \E a \in Assets : /\ db.owner[a] \in request.hide_templates_by_accounts
                       /\ <<"t", TemplateOf(a)>> \in r.filter

SaleFilterV2(request, states, r) ==
  LET assets == SaleInfo[r.sale_id].assets IN
  /\ MainFilterV2(request, r)
  /\ ListingFilterV2(request, r)
  /\ Has(request, "asset_id") => assets \cap request.asset_id # {}
  /\ ~ HidesTemplate(request, r)
  /\ ~ HasAny(r, "t", Arg(request, "template_blacklist", {}))
  /\ CountFilter(request, assets)
  /\ PriceFilter(request, SaleInfo[r.sale_id])
  /\ states # {} => r.sale_state \in states

SalesRefusedV2(request) ==
  \/ PricesRefused(request) \/ MintsRefused(request)
  \/ Has(request, "symbol") /\ request.symbol \notin Tokens

-----------------------------------------------------------------------------
NoRecheck(request, rows) == PageOf(request, rows)                  \* mutant of StateRecheck

(* Before the page is cut, sales are dropped whose state is not the one of *)
(* their row any more; a quarter more than needed is read for that.        *)
PresentState(s) ==
  IF ~ Exists(db.sale, s) THEN Null
  ELSE IF db.sale[s].state = LISTED /\ (db.sale[s].offer_id = Null \/ ~ Exists(db.offer, s)) THEN Null
  ELSE SaleState(db.sale[s].state, db.offer[s])

StateRecheck(request, rows) ==
  LET page == Arg(request, "page", 1)
      limit == Arg(request, "limit", 100)
      Wanted(s) == PresentState(s) \in request.state
  IN  IF ~ Has(request, "state") THEN Paginate(rows, page, limit)
      ELSE Paginate(SelectSeq(Limit(rows, (5 * page * limit + 3) \div 4), Wanted), page, limit)

GetSalesV2(request) ==
  LET sort == Arg(request, "sort", "created")
      rows == {r \in filters :
                 /\ SaleFilterV2(request, Arg(request, "state", {}), r)
                 /\ BoundaryFilter(request, r.sale_id, SaleInfo[r.sale_id].created)
                 /\ sort = "template_mint" => r.template_mint # {}}
      Range(s) == (CHOOSE r \in rows : r.sale_id = s).template_mint
      ordered == Ordered(request, SaleInfo, [s \in {r.sale_id : r \in rows} |-> Range(s)])
  IN  StateRecheck(request, ordered)

(* For each template, the cheapest listed sale of one asset of it: the     *)
(* newest one of those with the same price.                                *)
TemplatesRefused(request) ==
  \/ ~ Has(request, "symbol")
  \/ ~ HasAssetFilter(request, {}) /\ ~ Has(request, "collection_whitelist")

GetSalesTemplatesV2(request) ==
  LET single == {r \in filters : /\ Cardinality(SaleInfo[r.sale_id].assets) = 1
                                 /\ SaleFilterV2(request, {LISTED}, r)}
      Of(t) == {r.sale_id : r \in {x \in single : <<"t", t>> \in x.filter}}
      Price(s) == SaleInfo[s].price
      Cheapest(t) == CHOOSE s \in Of(t) :
                       \A x \in Of(t) : Price(s) < Price(x) \/ (Price(s) = Price(x) /\ s >= x)
      column == [t \in {x \in DOMAIN Templates : Of(x) # {}} |->
                   IF Arg(request, "sort", "template_id") = "price" THEN Price(Cheapest(t)) ELSE t]
      rows == OrderBy(column, Arg(request, "order", "desc"))
  IN  PageOf(request, [i \in DOMAIN rows |-> Cheapest(rows[i])])
=============================================================================
