----------------------------- MODULE AssetQueries -----------------------------
(***************************************************************************)
(* Conditions on an asset and its template, which listings of sales,       *)
(* auctions and buyoffers use in a subquery                                *)
(* (src/api/namespaces/atomicassets/utils.ts).  The parameters data.x,     *)
(* template_data.x, ... are functions from attributes to values; a name    *)
(* matches when it is the word that is searched.  minter,                  *)
(* initial_receiver and burner, which no table here holds, are left out.   *)
(***************************************************************************)
EXTENDS SalesFilters

INSTANCE QueryBuilder

AssetParameters ==
  {"asset_id", "owner", "burned", "template_id", "collection_name", "schema_name",
   "is_transferable", "is_burnable"}
DataParameters ==
  {"data", "template_data", "mutable_data", "immutable_data",
   "match", "match_immutable_name", "match_mutable_name", "search"}

HasAssetFilter(request, blacklist) == DOMAIN request \cap (AssetParameters \ blacklist) # {}
HasDataFilters(request) == DOMAIN request \cap DataParameters # {}

(* f @> g *)
Includes(f, g) == \A k \in DOMAIN g : k \in DOMAIN f /\ f[k] = g[k]
Named(f, word) == "name" \in DOMAIN f /\ f["name"] = word

(* Conditions of assetTable ... *)
AssetDataConditions(request, a) ==
  LET info == AssetInfo[a]
      mutableCondition   == Arg(request, "mutable_data", NoData)
      immutableCondition == Arg(request, "immutable_data", NoData)
      data == Merged(info.mutable, info.immutable)
  IN  /\ DOMAIN mutableCondition \cup DOMAIN immutableCondition # {} =>
           Includes(data, mutableCondition) /\ DOMAIN data # {}
      /\ Includes(info.mutable, mutableCondition)
      /\ Includes(info.immutable, immutableCondition)
      /\ Has(request, "match_immutable_name") => Named(info.immutable, request.match_immutable_name)
      /\ Has(request, "match_mutable_name") => Named(info.mutable, request.match_mutable_name)

(* ... and of templateTable, whose row may be missing. *)
TemplateDataConditions(request, t) ==
  LET templateCondition == Merged(Arg(request, "data", NoData), Arg(request, "template_data", NoData))
  IN  /\ DOMAIN templateCondition # {} => t # Null /\ Includes(TemplateData(t), templateCondition)
      /\ Has(request, "match") => Named(TemplateData(t), request.match)
      /\ Has(request, "search") => Named(TemplateData(t), request.search)

(* a is the row of asset, or NoRow when it is joined and missing. *)
AssetConditions(request, a) ==
  /\ Has(request, "asset_id") => EqualMany(a, request.asset_id)
  /\ Has(request, "owner") => EqualMany(db.owner[a], request.owner)
  /\ Has(request, "template_id") =>
       IF request.template_id = {Null} THEN TemplateOf(a) = Null
                                       ELSE EqualMany(TemplateOf(a), request.template_id)
  /\ Has(request, "collection_name") => EqualMany(AssetInfo[a].collection_name, request.collection_name)
  /\ Has(request, "schema_name") => EqualMany(AssetInfo[a].schema_name, request.schema_name)
  /\ Has(request, "burned") => (request.burned <=> db.owner[a] = Null)
  /\ AssetDataConditions(request, a)

TemplateConditions(request, t) ==
  /\ Has(request, "is_transferable") =>
       (request.is_transferable <=> t = Null \/ Templates[t].transferable)
  /\ Has(request, "is_burnable") =>
       (request.is_burnable <=> t = Null \/ Templates[t].burnable)
  /\ TemplateDataConditions(request, t)

AssetFilter(request, a) ==
  AssetConditions(request, a) /\ TemplateConditions(request, TemplateOf(a))

GreylistFilter(request, collection) ==
  IF Has(request, "collection_whitelist") /\ Has(request, "collection_blacklist")
  THEN EqualMany(collection, request.collection_whitelist \ request.collection_blacklist)
  ELSE /\ Has(request, "collection_whitelist") => EqualMany(collection, request.collection_whitelist)
       /\ Has(request, "collection_blacklist") => NotMany(collection, request.collection_blacklist, FALSE)
=============================================================================
