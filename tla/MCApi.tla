-------------------------------- MODULE MCApi --------------------------------
(* TLC instances of Api: five assets, of two templates or of none, in four  *)
(* sales, two auctions, two buyoffers, two template buyoffers.              *)
EXTENDS Api, TLC

Bounds == [sales |-> 2, auctions |-> 2, buyoffers |-> 3, events |-> 0]

TheTemplates == <<
  [transferable |-> TRUE,  burnable |-> FALSE, collection_name |-> "cats", schema_name |-> "card",
   data |-> [name |-> "Tom", rarity |-> "rare"]],
  [transferable |-> FALSE, burnable |-> TRUE,  collection_name |-> "dogs", schema_name |-> "pack",
   data |-> [name |-> "Rex"]]>>

Asset(template, collection, schema, mint, mutable, immutable) ==
  [template_id |-> template, collection_name |-> collection, schema_name |-> schema, mint |-> mint,
   mutable |-> mutable, immutable |-> immutable]

Level == [level |-> "9"]
TheAssets == <<
  Asset(1, "cats", "card", 1, Level, NoData),
  Asset(1, "cats", "card", 2, NoData, NoData),
  Asset(Null, "cats", "extra", Null, NoData, Level),
  Asset(2, "dogs", "pack", 1, NoData, NoData),
  Asset(2, "dogs", "pack", 2, NoData, NoData)>>

Offer(seller, buyer, assets, collection, price, created) ==
  [seller |-> seller, buyer |-> buyer, assets |-> assets, collection_name |-> collection,
   price |-> price, created |-> created, maker |-> "home", taker |-> "other", symbol |-> "WAX"]

TheSales == <<
  Offer("ann", Null, {1}, "cats", 20, 5), Offer("bob", Null, {2}, "cats", 20, 5),
  Offer("ann", Null, {1, 3}, "cats", 30, 4), Offer("bob", Null, {4}, "dogs", 10, 6)>>

TheAuctions == <<
  Offer("ann", Null, {1, 3}, "cats", 20, 5), Offer("bob", Null, {2}, "cats", 10, 5)>>

TheBuyoffers == <<
  Offer("ann", "bob", {1, 3}, "cats", 20, 5), Offer("bob", "ann", {4}, "dogs", 10, 5)>>

TheTemplateBuyoffers == <<
  [template_id |-> 2] @@ Offer(Null, "ann", {}, "dogs", 20, 5),
  [template_id |-> 2] @@ Offer(Null, "bob", {}, "dogs", 30, 4)>>

-----------------------------------------------------------------------------
Request(parameter, value) == parameter :> value
OneOf(parameter, values) == {Request(parameter, v) : v \in values}

(* What both versions take to mean the same. *)
Conditions ==
  UNION {
    {<<>>, Request("burned", FALSE), Request("show_seller_contracts", FALSE),
     Request("show_seller_contracts", FALSE) @@ Request("contract_whitelist", {"bob"}),
     Request("max_assets", 1) @@ Request("burned", TRUE),
     Request("max_assets", 1) @@ Request("template_id", {Null}),
     Request("collection_whitelist", {"cats", "dogs"}) @@ Request("collection_blacklist", {"dogs"}),
     Request("collection_name", {"dogs"}) @@ Request("schema_name", {"card", "pack"}),
     Request("template_id", {1}) @@ Request("owner", {"ann"}) @@ Request("max_assets", 1),
     Request("min_template_mint", 2) @@ Request("max_template_mint", 1)},
    OneOf("account", {{"ann"}, {"bob", "cay"}}), OneOf("seller", {{"ann"}, {"ann", "bob"}}),
    OneOf("buyer", {{"bob"}, {"ann", "cay"}}), OneOf("seller_blacklist", {{"ann"}}),
    OneOf("owner", {{"bob"}, {"ann", "cay"}}), OneOf("asset_id", {{1}, {2, 4}}),
    OneOf("template_id", {{1}, {1, 2}}), OneOf("schema_name", {{"card"}, {"card", "extra"}}),
    OneOf("collection_blacklist", {{"dogs"}}), OneOf("search", {"Tom", "Rex"}),
    OneOf("match", {"Tom"}), OneOf("template_data", {[rarity |-> "rare"]}),
    OneOf("min_assets", {2}), OneOf("symbol", {"WAX", "EOS"}),
    OneOf("marketplace", {{"home"}, {"other"}}), OneOf("maker_marketplace", {{"other"}}),
    OneOf("taker_marketplace", {{"other"}}), OneOf("min_template_mint", {2}),
    OneOf("max_template_mint", {1}), OneOf("ids", {{2, 3}}), OneOf("lower_bound", {2}),
    OneOf("upper_bound", {3}), OneOf("before", {6}), OneOf("after", {4})}

Pages ==
  {[sort |-> "created"], [order |-> "asc", limit |-> 1, page |-> 2], [sort |-> "sale_id", limit |-> 2]}

TheStateRequests ==
  {Request("state", {1, 3, 4})}
    \cup {Request("state", states) @@ p : states \in {{1}, {4}, {3, 4}}, p \in Pages}

TheSaleRequests ==
  {c @@ Request("state", {1, 3, 4}) : c \in Conditions} \cup TheStateRequests
    \cup {Request("state", {1, 4}) @@ Request("owner", {"ann", "cay"}) @@ p : p \in Pages}

TheTemplateRequests ==
  {Request("symbol", "WAX") @@ c @@ p :
     c \in {Request("collection_whitelist", {"cats", "dogs"}), Request("schema_name", {"card", "pack"}),
            Request("template_id", {2})},
     p \in {<<>>, [sort |-> "price", order |-> "asc"]}} \cup {Request("owner", {"ann"})}

Trace(name, id, amount) == [name |-> name, id |-> id, amount |-> amount]
TheTraces == {Trace("lognewauct", 1, 0), Trace("auctionbid", 1, 10), Trace("lognewsale", 1, 0)}

(* Of the other listings: what each of them makes of the parameters.       *)
TheOtherRequests ==
  {<<>>, Request("participant", "ann"), Request("participant", "bob"),
   Request("hide_empty_auctions", TRUE), Request("bidder", {"bob", "cay"}),
   Request("hide_templates_by_accounts", {"cay"}), Request("template_blacklist", {1}),
   Request("burned", TRUE), Request("owner", {"ann"}), Request("template_id", {2}),
   Request("symbol", "WAX") @@ Request("min_price", 2), Request("immutable_data", Level),
   Request("mutable_data", Level), Request("is_transferable", FALSE), Request("is_burnable", TRUE),
   Request("match_mutable_name", "Tom"), Request("data", [rarity |-> "rare"]),
   Request("collection_whitelist", {"cats"}), Request("buyer_blacklist", {"bob"}),
   Request("account", {"ann"}), Request("sort", "template_mint"), Request("sort", "price")}
=============================================================================
