----------------------------- MODULE SalesFilters -----------------------------
(***************************************************************************)
(* atomicmarket_sales_filters, the table of denormalised sales that        *)
(* /v2/sales searches (src/definitions/migrations/1.3.0, 1.3.1, 1.3.3).    *)
(*                                                                         *)
(* Triggers on assets, offers and sales queue what changed, in the         *)
(* transaction that changes it.  A job of the filler calls                 *)
(* update_atomicmarket_sales_filters: one transaction in which every       *)
(* statement has a snapshot of its own, so the reader may commit between   *)
(* CollectAssets and RefreshSales.                                         *)
(***************************************************************************)
EXTENDS MarketTables

VARIABLES
  filters,  \* rows of atomicmarket_sales_filters
  updates,  \* committed rows of atomicmarket_sales_filters_updates
  job       \* the running call: rows it has deleted and sales_to_update

filterVars == <<filters, updates, job>>

NoJob == [running |-> FALSE, taken |-> {}, sales_to_update |-> {}]

SaleState(state, offer_state) ==
  IF state = LISTED /\ offer_state # PENDING THEN 4 ELSE state

(* f || g of jsonb: g wins. *)
Merged(f, g) == [k \in DOMAIN f \cup DOMAIN g |-> IF k \in DOMAIN g THEN g[k] ELSE f[k]]

TemplateOf(a) == AssetInfo[a].template_id
NoData == [k \in {} |-> Null]
TemplateData(t) == IF t = Null THEN NoData ELSE Templates[t].data
DataOf(a) == Merged(Merged(AssetInfo[a].mutable, AssetInfo[a].immutable), TemplateData(TemplateOf(a)))

(* create_atomicmarket_sales_filter: one array with tagged values of the   *)
(* sale and of all its assets.                                             *)
Tagged(tag, values) == {<<tag, v>> : v \in values \ {Null}}

Flags(assets, owners) ==
  LET templates == {TemplateOf(a) : a \in assets} \ {Null} IN
  {f \in {"b", "nt", "nx", "nb"} :
     CASE f = "b"  -> \A a \in assets : owners[a] = Null
       [] f = "nt" -> templates = {}
       [] f = "nx" -> templates = {} \/ \E t \in templates : ~ Templates[t].transferable
       [] f = "nb" -> templates = {} \/ \E t \in templates : ~ Templates[t].burnable}

Filter(s, tables) ==
  LET assets == SaleInfo[s].assets
      data == UNION {{<<k, DataOf(a)[k]>> : k \in DOMAIN DataOf(a) \ {"name"}} : a \in assets}
  IN  UNION {Tagged("c", {SaleInfo[s].collection_name}),
             Tagged("e", {SaleInfo[s].seller}),
             Tagged("t", {TemplateOf(a) : a \in assets}),
             Tagged("d", data),
             Tagged("s", {AssetInfo[a].schema_name : a \in assets}),
             Tagged("b", {tables.sale[s].buyer}),
             Tagged("o", {tables.owner[a] : a \in assets}),
             Tagged("f", Flags(assets, tables.owner))}

(* The rows the tables amount to for a sale: the offer is joined, canceled *)
(* sales are excluded.                                                     *)
RowsOf(s, tables) ==
  LET row == tables.sale[s] IN
  IF row = NoRow THEN {}
  ELSE IF row.state = CANCELED \/ row.offer_id = Null \/ tables.offer[s] = NoRow THEN {}
  ELSE {[sale_id |-> s, sale_state |-> SaleState(row.state, tables.offer[s]),
         filter |-> Filter(s, tables), template_mint |-> Mints(tables.mint, SaleInfo[s].assets)]}

SalesOnly(old, new) ==                                  \* mutant of Queued
  {<<"sale", s>> : s \in {x \in Sales : old.sale[x] # new.sale[x]}}

(* The triggers, which fire for the statements of a rollback, too.         *)
Queued(old, new) ==
  {<<"asset", a>> : a \in {x \in Assets : old.owner[x] # new.owner[x] \/ old.mint[x] # new.mint[x]}}
    \cup {<<"offer", s>> : s \in {x \in Sales : old.offer[x] # new.offer[x]}}
    \cup {<<"sale", s>> : s \in {x \in Sales : old.sale[x] # new.sale[x]}}

OfKind(kind) == {u \in updates : u[1] = kind}

InitFilters ==
  /\ filters = UNION {RowsOf(s, db) : s \in Sales}
  /\ updates = {} /\ job = NoJob

Triggers == updates' = updates \cup Queued(db, db') /\ UNCHANGED <<filters, job>>

-----------------------------------------------------------------------------
(* The first statements: the queued assets are deleted, and the sales of   *)
(* their rows noted.  The deletion is visible to others after COMMIT only. *)
CollectAssets ==
  /\ ~ job.running
  /\ LET assets == {u[2] : u \in OfKind("asset")} IN
     job' = [running |-> TRUE, taken |-> OfKind("asset"),
             sales_to_update |-> {r.sale_id : r \in {x \in filters : SaleInfo[x.sale_id].assets \cap assets # {}}}]
  /\ updates' = updates \ OfKind("asset")
  /\ UNCHANGED filters

(* all_sales_to_update *)
SalesToUpdate ==
  LET offers == {u[2] : u \in OfKind("offer")} IN
  {u[2] : u \in OfKind("sale")} \cup job.sales_to_update
    \cup {r.sale_id : r \in {x \in filters : x.sale_id \in offers}}

(* ins_upd alone, for instance with a key of market and sale only in del.  *)
InsertOnly ==                                           \* mutant of RefreshSales
  LET rows == UNION {RowsOf(s, db) : s \in SalesToUpdate} IN
  /\ job.running
  /\ filters' = {r \in filters : ~ \E x \in rows : x.sale_id = r.sale_id /\ x.sale_state = r.sale_state}
                  \cup rows
  /\ updates' = OfKind("asset")
  /\ job' = NoJob

(* The last statement, and COMMIT: rows are inserted or updated, and those *)
(* of another state, or of sales that have none any more, deleted.         *)
RefreshSales ==
  LET rows == UNION {RowsOf(s, db) : s \in SalesToUpdate} IN
  /\ job.running
  /\ filters' = {r \in filters : r.sale_id \notin SalesToUpdate} \cup rows
  /\ updates' = OfKind("asset")
  /\ job' = NoJob

(* The call fails: a timeout, an error, a server that stops.  Everything   *)
(* is rolled back.  A call that goes on in PostgreSQL when its filler has  *)
(* died does not fail; the call of the next filler waits for the rows that *)
(* it has deleted.                                                         *)
JobFails ==
  /\ job.running
  /\ updates' = updates \cup job.taken
  /\ job' = NoJob
  /\ UNCHANGED filters

-----------------------------------------------------------------------------
Fresh(s) == {r \in filters : r.sale_id = s} = RowsOf(s, db)

(* The job that runs, or the next one, refreshes the rows of the sale.     *)
Due(s) ==
  \/ s \in job.sales_to_update
  \/ <<"sale", s>> \in updates
  \/ /\ \E r \in filters : r.sale_id = s
     /\ \/ <<"offer", s>> \in updates
        \/ \E a \in SaleInfo[s].assets : <<"asset", a>> \in updates

-----------------------------------------------------------------------------
(* The reader and the job. *)
vars == <<marketVars, filterVars>>

Init == InitMarket /\ InitFilters

Next ==
  \/ (Transaction \/ Fork \/ Numbering) /\ Triggers
  \/ Tick /\ UNCHANGED filterVars
  \/ traffic = "sales" /\ (CollectAssets \/ RefreshSales \/ JobFails) /\ UNCHANGED marketVars

(* The job runs every 20 seconds, and does not time out every time. *)
Fairness ==
  /\ WF_vars(traffic = "sales" /\ CollectAssets /\ UNCHANGED marketVars)
  /\ SF_vars(traffic = "sales" /\ RefreshSales /\ UNCHANGED marketVars)

Spec == Init /\ [][Next]_vars /\ Fairness

-----------------------------------------------------------------------------
(* A row of the filter table that is not what the tables amount to is      *)
(* always due: the running job or the next one refreshes it, whatever was  *)
(* committed between its statements, taken back by a fork or rolled back   *)
(* with the job (the triggers and update_atomicmarket_sales_filters).      *)
StaleIsDue == traffic = "sales" => \A s \in Sales : Fresh(s) \/ Due(s)

(* When the reader stops changing tables, the filter table becomes and     *)
(* stays what the tables amount to.                                        *)
FiltersCatchUp == <>[](traffic = "sales" => \A s \in Sales : Fresh(s))
=============================================================================
