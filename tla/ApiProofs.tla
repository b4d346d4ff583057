------------------------------ MODULE ApiProofs ------------------------------
(***************************************************************************)
(* The API server, for any tables, requests, traces, forks, losses and     *)
(* failures of the job.  A stale row of the filter table is always due;    *)
(* and what the clients of the sockets are told is what was committed.     *)
(***************************************************************************)
EXTENDS FiniteSetTheorems, SequenceTheorems, WellFoundedInduction, Api, TLAPS

-----------------------------------------------------------------------------
(* The job that refreshes the table of filters. *)

Numbers == {AssetInfo[a].mint : a \in Assets}
SaleRows == [state: {WAITING, LISTED, CANCELED, SOLD}, offer_id: Sales \cup {Null},
             buyer: Accounts \cup {Null}, template_mint: (SUBSET Numbers) \cup {Null}]

(* What the filter table is made of.  A sale that names an offer has one.  *)
Tables(t) ==
  /\ {"owner", "mint", "offer", "sale"} \subseteq DOMAIN t
  /\ t.mint \in [Assets -> Numbers \cup {Null}]
  /\ t.sale \in [Sales -> SaleRows \cup {NoRow}]
  /\ t.offer = [s \in Sales |-> t.offer[s]]
  /\ \A s \in Sales : t.sale[s] # NoRow /\ t.sale[s].offer_id # Null => t.offer[s] # NoRow

(* A job that fails gives back what made its sales due. *)
JobKeeps ==
  /\ updates \cup job.taken \subseteq {"asset", "offer", "sale"} \X (Assets \cup Sales)
  /\ ~ job.running => job.sales_to_update = {}
  /\ \A s \in job.sales_to_update :
       /\ \E r \in filters : r.sale_id = s
       /\ \E a \in SaleInfo[s].assets : <<"asset", a>> \in job.taken

Inv ==
  traffic = "sales" =>
    /\ Tables(db)
    /\ before # NoRow => Tables(before)
    /\ JobKeeps
    /\ StaleIsDue

-----------------------------------------------------------------------------
(* The rows of a sale depend on the sale, its offer and the owners and     *)
(* numbers of its assets.                                                  *)
LEMMA FilterOfColumns ==
  ASSUME NEW s \in Sales, NEW t, NEW u,
         t.sale[s] = u.sale[s],
         \A a \in SaleInfo[s].assets : t.owner[a] = u.owner[a]
  PROVE  Filter(s, t) = Filter(s, u)
<1> DEFINE assets == SaleInfo[s].assets
<1>1. {t.owner[a] : a \in assets} = {u.owner[a] : a \in assets}
  OBVIOUS
<1>2. (\A a \in assets : t.owner[a] = Null) <=> (\A a \in assets : u.owner[a] = Null)
  OBVIOUS
<1>3. Flags(assets, t.owner) = Flags(assets, u.owner)
  BY <1>2 DEF Flags
<1>4. QED
  BY <1>1, <1>3 DEF Filter

LEMMA RowsOfColumns ==
  ASSUME NEW s \in Sales, NEW t, NEW u,
         t.sale[s] = u.sale[s], t.offer[s] = u.offer[s],
         \A a \in SaleInfo[s].assets : t.owner[a] = u.owner[a] /\ t.mint[a] = u.mint[a]
  PROVE  RowsOf(s, t) = RowsOf(s, u)
<1>1. Mints(t.mint, SaleInfo[s].assets) = Mints(u.mint, SaleInfo[s].assets)
  BY DEF Mints
<1>2. Filter(s, t) = Filter(s, u)
  BY FilterOfColumns
<1>3. QED
  BY <1>1, <1>2 DEF RowsOf

LEMMA RowsAreOfSale ==
  ASSUME NEW s, NEW t, NEW r \in RowsOf(s, t)
  PROVE  r.sale_id = s
BY DEF RowsOf

(* Without rows, and with the same sale, there are none for any offer.     *)
LEMMA StillNoRows ==
  ASSUME NEW s \in Sales, NEW t, NEW u, Tables(t), Tables(u),
         t.sale[s] = u.sale[s], RowsOf(s, t) = {}
  PROVE  RowsOf(s, u) = {}
<1>1. CASE t.sale[s] = NoRow
  BY <1>1 DEF RowsOf
<1>2. CASE t.sale[s] # NoRow
  <2>1. t.sale[s].state = CANCELED \/ t.sale[s].offer_id = Null \/ t.offer[s] = NoRow
    BY <1>2 DEF RowsOf
  <2>2. t.sale[s].offer_id # Null => t.offer[s] # NoRow
    BY <1>2 DEF Tables
  <2>3. QED
    BY <1>2, <2>1, <2>2 DEF RowsOf
<1>3. QED
  BY <1>1, <1>2

-----------------------------------------------------------------------------
(* The transactions keep the tables in order. *)
LEMMA CheckedOffers ==
  ASSUME NEW t, Tables(t), NEW owners, NEW s \in Sales
  PROVE  Checked(t.offer, owners)[s] = NoRow <=> t.offer[s] = NoRow
BY OfferAssumption DEF Checked, PENDING, INVALID

LEMMA MovedTables ==
  ASSUME NEW t, Tables(t), NEW assets, NEW to
  PROVE  Tables(Moved(t, assets, to))
<1> DEFINE owners == [a \in Assets |-> IF a \in assets THEN to ELSE t.owner[a]]
           m == [t EXCEPT !.owner = owners, !.offer = Checked(t.offer, owners)]
<1>1. Moved(t, assets, to) = m
  BY DEF Moved
<1>2. /\ {"owner", "mint", "offer", "sale"} \subseteq DOMAIN m
      /\ m.offer = Checked(t.offer, owners)
      /\ m.sale = t.sale /\ m.mint = t.mint
  BY DEF Tables
<1> HIDE DEF m, owners
<1>3. m.offer = [s \in Sales |-> m.offer[s]]
  BY <1>2 DEF Checked
<1>4. ASSUME NEW s \in Sales, m.sale[s] # NoRow /\ m.sale[s].offer_id # Null
      PROVE  m.offer[s] # NoRow
  <2>1. m.sale[s] = t.sale[s] /\ m.offer[s] = Checked(t.offer, owners)[s]
    BY <1>2
  <2>2. t.offer[s] # NoRow
    BY <1>4, <2>1 DEF Tables
  <2>3. QED
    BY <2>1, <2>2, CheckedOffers
<1>5. Tables(m)
  BY <1>2, <1>3, <1>4 DEF Tables
<1>6. QED
  BY <1>1, <1>5

(* A sale and its offer are written together. *)
LEMMA WrittenTables ==
  ASSUME NEW t, Tables(t), NEW s \in Sales, NEW row \in SaleRows, NEW o,
         row.offer_id # Null => o # NoRow,
         NEW m, {"owner", "mint", "offer", "sale"} \subseteq DOMAIN m,
         m.sale = [t.sale EXCEPT ![s] = row], m.offer = [t.offer EXCEPT ![s] = o], m.mint = t.mint
  PROVE  Tables(m)
<1>1. m.sale \in [Sales -> SaleRows \cup {NoRow}]
  BY DEF Tables
<1>2. m.offer = [x \in Sales |-> m.offer[x]]
  BY DEF Tables
<1>3. ASSUME NEW x \in Sales, m.sale[x] # NoRow /\ m.sale[x].offer_id # Null
      PROVE  m.offer[x] # NoRow
  <2>1. CASE x = s
    <3>1. m.sale[x] = row /\ m.offer[x] = o
      BY <2>1 DEF Tables
    <3>2. QED
      BY <1>3, <3>1
  <2>2. CASE x # s
    <3>1. m.sale[x] = t.sale[x] /\ m.offer[x] = t.offer[x]
      BY <2>2 DEF Tables
    <3>2. QED
      BY <1>3, <3>1 DEF Tables
  <2>3. QED
    BY <2>1, <2>2
<1>4. QED
  BY <1>1, <1>2, <1>3 DEF Tables

LEMMA TransactionTables ==
  ASSUME Tables(db), traffic = "sales", Transaction
  PROVE  Tables(db') /\ before' = db /\ traffic' = traffic
<1> USE DEF Commit
<1>1. ASSUME NEW s \in Sales, AnnounceSale(s)
      PROVE  Tables(db') /\ before' = db /\ traffic' = traffic
  <2> DEFINE row == NewSale
  <2>1. row \in SaleRows /\ (row.offer_id # Null => db.offer[s] # NoRow)
    BY DEF SaleRows, NewSale
  <2>2. db' = [db EXCEPT !.sale[s] = row]
    BY <1>1 DEF AnnounceSale
  <2>3. /\ {"owner", "mint", "offer", "sale"} \subseteq DOMAIN db'
        /\ db'.sale = [db.sale EXCEPT ![s] = row] /\ db'.offer = db.offer /\ db'.mint = db.mint
    BY <2>2 DEF Tables
  <2>4. db'.offer = [db.offer EXCEPT ![s] = db.offer[s]]
    BY <2>3 DEF Tables
  <2> HIDE DEF row
  <2>5. Tables(db')
    BY <2>1, <2>3, <2>4, WrittenTables
  <2>6. QED
    BY <1>1, <2>5 DEF AnnounceSale
<1>2. ASSUME NEW s \in Sales, StartSale(s)
      PROVE  Tables(db') /\ before' = db /\ traffic' = traffic
  <2> DEFINE row == [db.sale[s] EXCEPT !.state = LISTED, !.offer_id = s]
  <2>1. db.sale[s] \in SaleRows
    BY <1>2 DEF StartSale, Tables, Exists
  <2>2. row \in SaleRows /\ PENDING # NoRow
    BY <2>1, OfferAssumption DEF SaleRows
  <2>3. db' = [db EXCEPT !.offer[s] = PENDING,
                         !.sale[s] = [@ EXCEPT !.state = LISTED, !.offer_id = s]]
    BY <1>2 DEF StartSale
  <2>4. /\ {"owner", "mint", "offer", "sale"} \subseteq DOMAIN db'
        /\ db'.sale = [db.sale EXCEPT ![s] = row] /\ db'.offer = [db.offer EXCEPT ![s] = PENDING]
        /\ db'.mint = db.mint
    BY <2>3 DEF Tables
  <2> HIDE DEF row
  <2>5. Tables(db')
    BY <2>2, <2>4, WrittenTables
  <2>6. QED
    BY <1>2, <2>5 DEF StartSale
<1>3. ASSUME NEW s \in Sales, CancelSale(s)
      PROVE  Tables(db') /\ before' = db /\ traffic' = traffic
  <2> DEFINE row == [db.sale[s] EXCEPT !.state = CANCELED]
             o == IF db.offer[s] = NoRow THEN db.offer[s] ELSE DECLINED
  <2>1. db.sale[s] \in SaleRows /\ db.sale[s] # NoRow
    BY <1>3 DEF CancelSale, Tables, Exists
  <2>2. row \in SaleRows /\ row.offer_id = db.sale[s].offer_id
    BY <2>1 DEF SaleRows
  <2>3. row.offer_id # Null => o # NoRow
    BY <2>1, <2>2, OfferAssumption DEF Tables
  <2>4. db' = [db EXCEPT !.sale[s].state = CANCELED, !.offer[s] = IF @ = NoRow THEN @ ELSE DECLINED]
    BY <1>3 DEF CancelSale
  <2>5. /\ {"owner", "mint", "offer", "sale"} \subseteq DOMAIN db'
        /\ db'.sale = [db.sale EXCEPT ![s] = row] /\ db'.offer = [db.offer EXCEPT ![s] = o]
        /\ db'.mint = db.mint
    BY <2>4 DEF Tables
  <2> HIDE DEF row, o
  <2>6. Tables(db')
    BY <2>2, <2>3, <2>5, WrittenTables
  <2>7. QED
    BY <1>3, <2>6 DEF CancelSale
<1>4. ASSUME NEW s \in Sales, NEW buyer \in Accounts, PurchaseSale(s, buyer)
      PROVE  Tables(db') /\ before' = db /\ traffic' = traffic
  <2> DEFINE row == [db.sale[s] EXCEPT !.state = SOLD, !.buyer = buyer]
             t == [db EXCEPT !.sale[s] = [@ EXCEPT !.state = SOLD, !.buyer = buyer],
                             !.offer[s] = ACCEPTED]
  <2>1. db.sale[s] \in SaleRows
    BY <1>4 DEF PurchaseSale, Tables, Exists
  <2>2. row \in SaleRows /\ ACCEPTED # NoRow
    BY <2>1, OfferAssumption DEF SaleRows
  <2>3. /\ {"owner", "mint", "offer", "sale"} \subseteq DOMAIN t
        /\ t.sale = [db.sale EXCEPT ![s] = row] /\ t.offer = [db.offer EXCEPT ![s] = ACCEPTED]
        /\ t.mint = db.mint
    BY DEF Tables
  <2>4. db' = Moved(t, SaleInfo[s].assets, buyer)
    BY <1>4 DEF PurchaseSale
  <2> HIDE DEF row, t
  <2>5. Tables(t)
    BY <2>2, <2>3, WrittenTables
  <2>6. Tables(db')
    BY <2>4, <2>5, MovedTables
  <2>7. QED
    BY <1>4, <2>6 DEF PurchaseSale
<1>5. ASSUME NEW a \in Assets, NEW to, Transfer(a, to) \/ MintAsset(a, to) \/ BurnAsset(a)
      PROVE  Tables(db') /\ before' = db /\ traffic' = traffic
  <2>1. Tables(Moved(db, {a}, to)) /\ Tables(Moved(db, {a}, Null))
    BY MovedTables
  <2>2. QED
    BY <1>5, <2>1 DEF Transfer, MintAsset, BurnAsset
<1>6. QED
  BY <1>1, <1>2, <1>3, <1>4, <1>5 DEF Transaction

(* The numbers that the jobs of the mints write.                           *)
LEMMA NumberedAsset ==
  ASSUME NEW t, Tables(t), NEW a \in Assets
  PROVE  Tables([t EXCEPT !.mint[a] = AssetInfo[a].mint])
<1> DEFINE m == [t EXCEPT !.mint[a] = AssetInfo[a].mint]
<1>1. /\ {"owner", "mint", "offer", "sale"} \subseteq DOMAIN m
      /\ m.mint = [t.mint EXCEPT ![a] = AssetInfo[a].mint]
      /\ m.sale = t.sale /\ m.offer = t.offer
  BY DEF Tables
<1> HIDE DEF m
<1>2. m.mint \in [Assets -> Numbers \cup {Null}]
  BY <1>1 DEF Tables, Numbers
<1>3. Tables(m)
  BY <1>1, <1>2 DEF Tables
<1>4. QED
  BY <1>3 DEF m

LEMMA NumberedSale ==
  ASSUME NEW t, Tables(t), NEW s \in Sales, t.sale[s] # NoRow, NEW range \in SUBSET Numbers
  PROVE  Tables([t EXCEPT !.sale[s] = [@ EXCEPT !.template_mint = range]])
<1> DEFINE row == [t.sale[s] EXCEPT !.template_mint = range]
           m == [t EXCEPT !.sale[s] = [@ EXCEPT !.template_mint = range]]
<1>1. t.sale[s] \in SaleRows
  BY DEF Tables
<1>2. row \in SaleRows /\ row.offer_id = t.sale[s].offer_id
  BY <1>1 DEF SaleRows
<1>3. row.offer_id # Null => t.offer[s] # NoRow
  BY <1>2 DEF Tables
<1>4. /\ {"owner", "mint", "offer", "sale"} \subseteq DOMAIN m
      /\ m.sale = [t.sale EXCEPT ![s] = row] /\ m.offer = t.offer /\ m.mint = t.mint
  BY DEF Tables
<1>5. m.offer = [t.offer EXCEPT ![s] = t.offer[s]]
  BY <1>4 DEF Tables
<1> HIDE DEF row, m
<1>6. Tables(m)
  BY <1>2, <1>3, <1>4, <1>5, WrittenTables
<1>7. QED
  BY <1>6 DEF m

LEMMA NumberingTables ==
  ASSUME Tables(db), before # NoRow => Tables(before), traffic = "sales", Numbering
  PROVE  Tables(db') /\ (before' # NoRow => Tables(before')) /\ traffic' = traffic
<1>1. ASSUME NEW a \in Assets, NumberAsset(a)
      PROVE  Tables(db') /\ (before' # NoRow => Tables(before')) /\ traffic' = traffic
  <2>1. /\ db' = [db EXCEPT !.mint[a] = AssetInfo[a].mint]
        /\ before' = IF before = NoRow THEN NoRow ELSE [before EXCEPT !.mint[a] = AssetInfo[a].mint]
        /\ traffic' = traffic
    BY <1>1 DEF NumberAsset, Write
  <2>2. QED
    BY <2>1, NumberedAsset
<1>2. ASSUME NEW s \in Sales, NumberSale(s)
      PROVE  Tables(db') /\ (before' # NoRow => Tables(before')) /\ traffic' = traffic
  <2> DEFINE range == Mints(db.mint, SaleInfo[s].assets)
  <2>1. /\ db' = [db EXCEPT !.sale[s] = [@ EXCEPT !.template_mint = range]]
        /\ before' = IF before = NoRow THEN NoRow
                      ELSE [before EXCEPT !.sale[s] = [@ EXCEPT !.template_mint = range]]
        /\ traffic' = traffic
        /\ db.sale[s] # NoRow /\ (before # NoRow => before.sale[s] # NoRow)
    BY <1>2 DEF NumberSale, Write, Exists, Irreversible
  <2>2. range \in SUBSET Numbers
    BY MarketAssumption DEF Mints, Tables
  <2> HIDE DEF range
  <2>3. Tables(db')
    BY <2>1, <2>2, NumberedSale
  <2>4. ASSUME before # NoRow
        PROVE  Tables(before')
    BY <2>1, <2>2, <2>4, NumberedSale
  <2>5. QED
    BY <2>1, <2>3, <2>4
<1>3. QED
  BY <1>1, <1>2 DEF Numbering

-----------------------------------------------------------------------------
(* Whatever changes the tables queues the sales whose rows it makes stale. *)
LEMMA Unqueued ==
  ASSUME NEW s \in Sales, Tables(db), Tables(db'), Triggers
  PROVE  /\ <<"sale", s>> \notin updates' => db'.sale[s] = db.sale[s]
         /\ <<"offer", s>> \notin updates' => db'.offer[s] = db.offer[s]
         /\ \A a \in SaleInfo[s].assets :
              <<"asset", a>> \notin updates' => db'.owner[a] = db.owner[a] /\ db'.mint[a] = db.mint[a]
         /\ updates \subseteq updates' /\ filters' = filters /\ job' = job
BY MarketAssumption DEF Triggers, Queued

LEMMA ChangesAreDue ==
  ASSUME Tables(db), Tables(db'), traffic = "sales", traffic' = "sales", StaleIsDue, Triggers
  PROVE  StaleIsDue'
<1> SUFFICES ASSUME NEW s \in Sales, ~ Due(s)'
             PROVE  Fresh(s)'
  BY DEF StaleIsDue
<1>1. /\ <<"sale", s>> \notin updates' => db'.sale[s] = db.sale[s]
      /\ <<"offer", s>> \notin updates' => db'.offer[s] = db.offer[s]
      /\ \A a \in SaleInfo[s].assets :
           <<"asset", a>> \notin updates' => db'.owner[a] = db.owner[a] /\ db'.mint[a] = db.mint[a]
      /\ updates \subseteq updates' /\ filters' = filters /\ job' = job
  BY Unqueued
<1>2. ~ Due(s)
  BY <1>1 DEF Due
<1>3. {r \in filters : r.sale_id = s} = RowsOf(s, db)
  BY <1>2 DEF StaleIsDue, Fresh
<1>4. db'.sale[s] = db.sale[s]
  BY <1>1 DEF Due
<1>5. CASE RowsOf(s, db) = {}
  <2>1. RowsOf(s, db') = {}
    BY <1>4, <1>5, StillNoRows
  <2>2. QED
    BY <1>1, <1>3, <1>5, <2>1 DEF Fresh
<1>6. CASE RowsOf(s, db) # {}
  <2>1. \E r \in filters' : r.sale_id = s
    BY <1>1, <1>3, <1>6
  <2>2. /\ <<"offer", s>> \notin updates'
        /\ \A a \in SaleInfo[s].assets : <<"asset", a>> \notin updates'
    BY <2>1 DEF Due
  <2>3. /\ db'.offer[s] = db.offer[s]
        /\ \A a \in SaleInfo[s].assets : db'.owner[a] = db.owner[a] /\ db'.mint[a] = db.mint[a]
    BY <1>1, <2>2
  <2>4. RowsOf(s, db') = RowsOf(s, db)
    BY <1>4, <2>3, RowsOfColumns
  <2>5. QED
    BY <1>1, <1>3, <2>4 DEF Fresh
<1>7. QED
  BY <1>5, <1>6

(* Queues stay queues when the reader commits. *)
LEMMA ChangesKeepJob ==
  ASSUME JobKeeps, Triggers
  PROVE  JobKeeps'
<1>1. filters' = filters /\ job' = job /\ updates' = updates \cup Queued(db, db')
  BY DEF Triggers
<1>2. Queued(db, db') \subseteq {"asset", "offer", "sale"} \X (Assets \cup Sales)
  BY DEF Queued
<1>3. QED
  BY <1>1, <1>2 DEF JobKeeps

-----------------------------------------------------------------------------
(* The job.  What it deletes it has noted. *)
LEMMA CollectKeeps ==
  ASSUME StaleIsDue, JobKeeps, traffic = "sales", CollectAssets, UNCHANGED marketVars
  PROVE  StaleIsDue' /\ JobKeeps'
<1> DEFINE assets == {u[2] : u \in OfKind("asset")}
           noted == {r.sale_id : r \in {x \in filters : SaleInfo[x.sale_id].assets \cap assets # {}}}
<1>1. /\ job.sales_to_update = {} /\ filters' = filters /\ db' = db /\ traffic' = traffic
      /\ job' = [running |-> TRUE, taken |-> OfKind("asset"), sales_to_update |-> noted]
      /\ updates' = updates \ OfKind("asset")
  BY DEF CollectAssets, JobKeeps, marketVars
<1>2. job'.sales_to_update = noted /\ job'.running = TRUE /\ job'.taken = OfKind("asset")
  BY <1>1
<1>3. \A u \in OfKind("asset") : u = <<"asset", u[2]>>
  BY DEF OfKind, JobKeeps
<1>4. \A s : s \in noted <=> \E r \in filters : r.sale_id = s /\ SaleInfo[s].assets \cap assets # {}
  OBVIOUS
<1>5. \A a : a \in assets <=> <<"asset", a>> \in updates
  <2>1. ASSUME NEW a, <<"asset", a>> \in updates
        PROVE  a \in assets
    BY <2>1 DEF OfKind
  <2>2. QED
    BY <1>3, <2>1 DEF OfKind
<1>6. \A a : a \in assets => <<"asset", a>> \in OfKind("asset")
  BY <1>3
<1> HIDE DEF noted, assets
<1>7. JobKeeps'
  <2>1. updates' \cup job'.taken \subseteq {"asset", "offer", "sale"} \X (Assets \cup Sales)
    BY <1>1, <1>2 DEF JobKeeps, OfKind
  <2>2. ASSUME NEW s \in noted
        PROVE  /\ \E r \in filters : r.sale_id = s
               /\ \E a \in SaleInfo[s].assets : <<"asset", a>> \in OfKind("asset")
    BY <1>4, <1>6
  <2>3. QED
    BY <1>1, <1>2, <2>1, <2>2 DEF JobKeeps
<1>8. ASSUME NEW s \in Sales
      PROVE  Fresh(s)' \/ Due(s)'
  <2>1. CASE Fresh(s)
    BY <1>1, <2>1 DEF Fresh
  <2>2. CASE <<"sale", s>> \in updates
    <3>1. <<"sale", s>> \in updates'
      BY <1>1, <2>2 DEF OfKind
    <3>2. QED
      BY <3>1 DEF Due
  <2>3. CASE /\ \E r \in filters : r.sale_id = s
             /\ <<"offer", s>> \in updates
    <3>1. <<"offer", s>> \in updates'
      BY <1>1, <2>3 DEF OfKind
    <3>2. QED
      BY <1>1, <2>3, <3>1 DEF Due
  <2>4. CASE /\ \E r \in filters : r.sale_id = s
             /\ \E a \in SaleInfo[s].assets : <<"asset", a>> \in updates
    <3>1. s \in noted
      BY <1>4, <1>5, <2>4
    <3>2. QED
      BY <1>2, <3>1 DEF Due
  <2>5. Fresh(s) \/ Due(s)
    BY DEF StaleIsDue
  <2>6. QED
    BY <1>1, <2>1, <2>2, <2>3, <2>4, <2>5 DEF Due
<1>9. QED
  BY <1>1, <1>7, <1>8 DEF StaleIsDue

LEMMA RefreshKeeps ==
  ASSUME StaleIsDue, JobKeeps, traffic = "sales", RefreshSales, UNCHANGED marketVars
  PROVE  StaleIsDue' /\ JobKeeps'
<1> DEFINE rows == UNION {RowsOf(s, db) : s \in SalesToUpdate}
<1>1. /\ filters' = {r \in filters : r.sale_id \notin SalesToUpdate} \cup rows
      /\ updates' = OfKind("asset") /\ job' = NoJob /\ db' = db /\ traffic' = traffic
  BY DEF RefreshSales, marketVars
<1>2. JobKeeps'
  <2>1. job'.taken = {} /\ job'.sales_to_update = {}
    BY <1>1 DEF NoJob
  <2>2. updates' \subseteq updates
    BY <1>1 DEF OfKind
  <2>3. QED
    BY <2>1, <2>2 DEF JobKeeps
<1>3. \A r \in rows : r \in RowsOf(r.sale_id, db) /\ r.sale_id \in SalesToUpdate
  BY RowsAreOfSale
<1>4. ASSUME NEW s \in SalesToUpdate
      PROVE  RowsOf(s, db) \subseteq rows
  OBVIOUS
<1> HIDE DEF rows
<1>5. ASSUME NEW s \in Sales
      PROVE  Fresh(s)' \/ Due(s)'
  <2>1. CASE s \in SalesToUpdate
    <3>1. {r \in filters' : r.sale_id = s} = {r \in rows : r.sale_id = s}
      BY <1>1, <2>1
    <3>2. {r \in rows : r.sale_id = s} = RowsOf(s, db)
      BY <1>3, <1>4, <2>1, RowsAreOfSale
    <3>3. QED
      BY <1>1, <3>1, <3>2 DEF Fresh
  <2>2. CASE s \notin SalesToUpdate
    <3>1. {r \in filters' : r.sale_id = s} = {r \in filters : r.sale_id = s}
      BY <1>1, <1>3, <2>2
    <3>2. CASE Fresh(s)
      BY <1>1, <3>1, <3>2 DEF Fresh
    <3>3. CASE Due(s)
      <4>1. s \notin job.sales_to_update
        BY <2>2 DEF SalesToUpdate
      <4>2. <<"sale", s>> \notin updates
        BY <2>2 DEF SalesToUpdate, OfKind
      <4>3. \E r \in filters : r.sale_id = s
        BY <3>3, <4>1, <4>2 DEF Due
      <4>4. <<"offer", s>> \notin updates
        BY <2>2, <4>3 DEF SalesToUpdate, OfKind
      <4>5. PICK a \in SaleInfo[s].assets : <<"asset", a>> \in updates
        BY <3>3, <4>1, <4>2, <4>4 DEF Due
      <4>6. <<"asset", a>> \in updates'
        BY <1>1, <4>5 DEF OfKind
      <4>7. \E r \in filters' : r.sale_id = s
        BY <3>1, <4>3
      <4>8. QED
        BY <4>5, <4>6, <4>7 DEF Due
    <3>4. QED
      BY <3>2, <3>3 DEF StaleIsDue
  <2>3. QED
    BY <2>1, <2>2
<1>6. QED
  BY <1>1, <1>2, <1>5 DEF StaleIsDue

LEMMA FailureKeeps ==
  ASSUME StaleIsDue, JobKeeps, traffic = "sales", JobFails, UNCHANGED marketVars
  PROVE  StaleIsDue' /\ JobKeeps'
<1>1. /\ updates' = updates \cup job.taken /\ filters' = filters
      /\ job' = NoJob /\ db' = db /\ traffic' = traffic
  BY DEF JobFails, marketVars
<1>2. JobKeeps'
  BY <1>1 DEF JobKeeps, NoJob
<1>3. ASSUME NEW s \in Sales
      PROVE  Fresh(s)' \/ Due(s)'
  <2>1. CASE s \in job.sales_to_update
    <3>1. PICK a \in SaleInfo[s].assets : <<"asset", a>> \in job.taken
      BY <2>1 DEF JobKeeps
    <3>2. \E r \in filters : r.sale_id = s
      BY <2>1 DEF JobKeeps
    <3>3. QED
      BY <1>1, <3>1, <3>2 DEF Due
  <2>2. CASE s \notin job.sales_to_update
    BY <1>1, <2>2 DEF StaleIsDue, Fresh, Due
  <2>3. QED
    BY <2>1, <2>2
<1>4. QED
  BY <1>1, <1>2, <1>3 DEF StaleIsDue

-----------------------------------------------------------------------------
LEMMA InitInv == Init => Inv
<1> SUFFICES ASSUME Init, traffic = "sales"
             PROVE  Tables(db) /\ JobKeeps /\ StaleIsDue
  BY DEF Inv, Init, InitMarket
<1> DEFINE row(s) == [NewSale EXCEPT !.state = LISTED, !.offer_id = s,
                                      !.template_mint = InitialRange(SaleInfo[s].assets)]
<1>1. /\ db.sale = [s \in Sales |-> IF s \in InitialSales THEN row(s) ELSE NoRow]
      /\ db.offer = [s \in Sales |-> IF s \in InitialSales THEN PENDING ELSE NoRow]
      /\ db.mint = InitialMint
      /\ {"owner", "mint", "offer", "sale"} \subseteq DOMAIN db
  BY DEF Init, InitMarket
<1>2. Tables(db)
  <2>1. InitialMint \in [Assets -> Numbers \cup {Null}]
    BY DEF InitialMint, Numbers
  <2>2. \A s \in Sales : InitialRange(SaleInfo[s].assets) \in (SUBSET Numbers) \cup {Null}
    BY <2>1, MarketAssumption DEF InitialRange, Mints
  <2>3. \A s \in Sales : row(s) \in SaleRows
    BY <2>2 DEF SaleRows, NewSale
  <2> HIDE DEF row
  <2>4. db.sale \in [Sales -> SaleRows \cup {NoRow}]
    BY <1>1, <2>3
  <2>5. \A s \in Sales : db.sale[s] # NoRow => db.offer[s] # NoRow
    BY <1>1, OfferAssumption
  <2>6. QED
    BY <1>1, <2>1, <2>4, <2>5 DEF Tables
<1>3. JobKeeps
  BY DEF JobKeeps, Init, InitFilters, NoJob
<1>4. ASSUME NEW s \in Sales
      PROVE  Fresh(s)
  <2>1. filters = UNION {RowsOf(x, db) : x \in Sales}
    BY DEF Init, InitFilters
  <2>2. QED
    BY <2>1, RowsAreOfSale DEF Fresh
<1>5. QED
  BY <1>2, <1>3, <1>4 DEF StaleIsDue

LEMMA NextInv == Inv /\ [Next]_vars => Inv'
<1> SUFFICES ASSUME Inv, [Next]_vars, traffic' = "sales"
             PROVE  Inv'
  BY DEF Inv
<1>1. traffic = "sales"
  BY DEF Next, vars, marketVars, Transaction, AnnounceSale, StartSale, CancelSale, PurchaseSale,
         AnnounceAuction, ChangeAuction, UpdateAuction, AnnounceBuyoffer, CloseBuyoffer,
         ChangeTemplateBuyoffer, Transfer, BurnAsset, MintAsset, Fork, Tick, Commit, Write, Numbering,
         NumberAsset, NumberSale, NumberAuction, NumberBuyoffer
<1>2. Tables(db) /\ (before # NoRow => Tables(before)) /\ JobKeeps /\ StaleIsDue
  BY <1>1 DEF Inv
<1>3. CASE Transaction /\ Triggers
  <2>1. Tables(db') /\ before' = db
    BY <1>1, <1>2, <1>3, TransactionTables
  <2>2. QED
    BY <1>1, <1>2, <1>3, <2>1, ChangesAreDue, ChangesKeepJob DEF Inv
<1>4. CASE Fork /\ Triggers
  <2>1. Tables(db') /\ before' = NoRow
    BY <1>2, <1>4 DEF Fork
  <2>2. QED
    BY <1>1, <1>2, <1>4, <2>1, ChangesAreDue, ChangesKeepJob DEF Inv
<1>5. CASE Numbering /\ Triggers
  <2>1. Tables(db') /\ (before' # NoRow => Tables(before'))
    BY <1>1, <1>2, <1>5, NumberingTables
  <2>2. QED
    BY <1>1, <1>2, <1>5, <2>1, ChangesAreDue, ChangesKeepJob DEF Inv
<1>6. CASE Tick /\ UNCHANGED filterVars
  BY <1>1, <1>6 DEF Tick
<1>7. CASE CollectAssets /\ UNCHANGED marketVars
  BY <1>1, <1>2, <1>7, CollectKeeps DEF Inv, marketVars
<1>8. CASE RefreshSales /\ UNCHANGED marketVars
  BY <1>1, <1>2, <1>8, RefreshKeeps DEF Inv, marketVars
<1>9. CASE JobFails /\ UNCHANGED marketVars
  BY <1>1, <1>2, <1>9, FailureKeeps DEF Inv, marketVars
<1>10. CASE UNCHANGED vars
  BY <1>2, <1>10 DEF Inv, vars, marketVars, filterVars, JobKeeps, StaleIsDue, Fresh, Due
<1>11. QED
  BY <1>3, <1>4, <1>5, <1>6, <1>7, <1>8, <1>9, <1>10 DEF Next

(* The invariant of reader and job. *)
THEOREM Invariance == Spec => []Inv
<1>1. Init => Inv
  BY InitInv
<1>2. Inv /\ [Next]_vars => Inv'
  BY NextInv
<1>3. QED
  BY <1>1, <1>2, PTL DEF Spec

(* However reader, forks and job interleave, a row that is not what the    *)
(* tables amount to is refreshed by the running job or the next one        *)
(* (update_atomicmarket_sales_filters and its triggers).                   *)
THEOREM StaleIsDueTheorem == Spec => []StaleIsDue
<1>1. Inv => StaleIsDue
  BY DEF Inv, StaleIsDue
<1>2. QED
  BY <1>1, Invariance, PTL


-----------------------------------------------------------------------------
(* The sockets.  What their clients keep is right only because of what is  *)
(* on its way to them: the invariant relates the block in process, the     *)
(* messages, the calls of the listeners and the events of the clients.     *)

Traced(n) == n.type = "trace"
Forked(n) == n.type = "fork"

Notices == [type : {"fork"}, num : Nat \ {0}]
             \cup [type : {"trace"}, num : Nat \ {0}, block : Nat, trace : Logged]

(* Blocks up to this one have been committed, or never will be. *)
Finished == IF pc = "commit" THEN blocks - 1 ELSE blocks

(* n is about a trace of a block of the present branch. *)
OnBranch(n) == n.num \in DOMAIN committed /\ committed[n.num].id = n.block

(* Of a block that is on the branch, or that never comes back to it. *)
Genuine(n) ==
  /\ n.num \in Nat \ {0} /\ n.block \in Nat /\ n.block <= Finished
  /\ OnBranch(n) => n.trace \in ToSet(committed[n.num].traces)

(* The block in process and its notifications: the fork is the first. *)
ReaderInv ==
  /\ committed \in Seq([id : Nat, traces : Seq(Logged)])
  /\ pc \in {"idle", "commit", "publish"} /\ blocks \in Nat /\ sent \in Nat
  /\ lost \in BOOLEAN
  /\ \A k \in DOMAIN committed : committed[k].id <= Finished
  /\ notifications \in Seq(Notices)
  /\ pc \in {"commit", "publish"} =>
       /\ block.num \in 1 .. Len(committed) + 1 /\ block.id = blocks /\ blocks # 0
       /\ block.traces \in Seq(Logged)
       /\ \A i \in DOMAIN notifications :
            LET n == notifications[i] IN
            /\ n.num = block.num
            /\ Traced(n) => n.block = block.id /\ n.trace \in ToSet(block.traces)
            /\ Forked(n) => i = 1
  /\ pc = "commit" =>
       /\ (\E i \in DOMAIN notifications : Forked(notifications[i])) <=> block.num <= Len(committed)
       /\ \A t \in ToSet(block.traces) :
            \E i \in DOMAIN notifications : Traced(notifications[i]) /\ notifications[i].trace = t
  /\ pc = "publish" =>
       /\ block.num \in DOMAIN committed
       /\ committed[block.num] = [id |-> block.id, traces |-> block.traces]

(* A message is about one block, and the fork is the first. *)
TaskInv(t) ==
  /\ t = [no |-> t.no, channel |-> t.channel, notifications |-> t.notifications, at |-> t.at, rows |-> t.rows]
  /\ t.no \in Nat \ {0} /\ t.no <= sent /\ t.channel \in Listened
  /\ t.notifications \in Seq(Notices)
  /\ \A i \in DOMAIN t.notifications :
       LET n == t.notifications[i] IN
       /\ Forked(n) => i = 1
       /\ Traced(n) =>
            /\ Genuine(n) /\ ChannelOf(n.trace) = t.channel
            /\ \A j \in DOMAIN t.notifications :
                 Traced(t.notifications[j]) => t.notifications[j].num = n.num /\ t.notifications[j].block = n.block
            /\ t.at = "emit" /\ OnBranch(n) => n.trace \in t.rows[i]

TasksInv ==
  /\ \A t \in tasks : TaskInv(t)
  /\ \A t, u \in tasks : t.channel = u.channel /\ t.no = u.no => t = u

ClientsInv ==
  /\ clients = [c \in Listened |-> clients[c]]
  /\ \A c \in Listened : \A e \in clients[c] :
       /\ Genuine(e) /\ ChannelOf(e.trace) = c /\ e.trace.name \in Emits
       /\ OnBranch(e) => e.trace \in e.row

(* A fork below num + 1 is announced to the listener after message no. *)
Announced(c, no, num) ==
  \/ \E t \in tasks : /\ t.channel = c /\ t.no > no
                      /\ \E i \in DOMAIN t.notifications :
                           Forked(t.notifications[i]) /\ t.notifications[i].num <= num
  \/ /\ pc = "publish"
     /\ \E i \in DOMAIN notifications : Forked(notifications[i]) /\ notifications[i].num <= num

(* Events leave the branch with a fork that is on its way. *)
ForksInv(c) ==
  /\ \A e \in clients[c] : OnBranch(e) <=> ~ Announced(c, 0, e.num)
  /\ \A t \in tasks : t.channel = c =>
       \A i \in DOMAIN t.notifications :
         LET n == t.notifications[i] IN Traced(n) => (OnBranch(n) <=> ~ Announced(c, t.no, n.num))

(* A client has an event of trace tr, or it is on its way. *)
Told(c, k, tr) ==
  \/ \E e \in clients[c] : e.num = k /\ e.block = committed[k].id /\ e.trace = tr
  \/ \E t \in tasks : /\ t.channel = c
                      /\ \E i \in DOMAIN t.notifications :
                           LET n == t.notifications[i]
                           IN  Traced(n) /\ n.num = k /\ n.block = committed[k].id /\ n.trace = tr
  \/ /\ pc = "publish"
     /\ \E i \in DOMAIN notifications :
          LET n == notifications[i]
          IN  Traced(n) /\ n.num = k /\ n.block = committed[k].id /\ n.trace = tr

Complete(c) ==
  \A k \in DOMAIN committed : \A tr \in ToSet(committed[k].traces) :
    ChannelOf(tr) = c /\ tr.name \in Emits => Told(c, k, tr)

FollowInv == ~ lost => \A c \in Listened \ overtaken : ForksInv(c) /\ Complete(c)

SocketsInv == ReaderInv /\ TasksInv /\ ClientsInv /\ FollowInv

-----------------------------------------------------------------------------
(* Messages and what is heard of them *)

LEMMA LeastNumber ==
  ASSUME NEW S \in SUBSET Nat, S # {}
  PROVE  \E n \in S : \A m \in S : n <= m
<1>1. PICK n \in S : \A m \in S : ~ (<<m, n>> \in OpToRel(<, Nat))
  BY WFMin, NatLessThanWellFounded, Zenon
<1>2. \A m \in S : m < n => <<m, n>> \in OpToRel(<, Nat)
  BY Zenon DEF OpToRel
<1>3. \A m \in S : ~ (m < n)
  BY <1>1, <1>2, Zenon
<1> QED
  BY <1>3

LEMMA MinIs ==
  ASSUME NEW S \in SUBSET Nat, S # {}
  PROVE  Min(S) \in S /\ \A y \in S : Min(S) <= y
BY LeastNumber, Zenon DEF Min

PlaceIn(kept, i) == Cardinality({j \in kept : j <= i})

(* A listener is given those of a message that are kept, in their order. *)
LEMMA FilteredIs ==
  ASSUME NEW message \in Seq(Notices), NEW c
  PROVE  LET kept == Kept(message, c)
             list == Filtered(message, c)
             Place(i) == PlaceIn(kept, i)
         IN  /\ list \in Seq(Notices) /\ DOMAIN list = 1 .. Len(list)
             /\ \A p \in DOMAIN list : \E i \in kept : list[p] = message[i] /\ Place(i) = p
             /\ \A i \in kept : \E p \in DOMAIN list : list[p] = message[i] /\ Place(i) = p
             /\ \A i \in kept : i = 1 => Place(i) = 1
<1> DEFINE kept == Kept(message, c)
           list == Filtered(message, c)
           Place(i) == Cardinality({j \in kept : j <= i})
           n == Cardinality(kept)
<1>1. /\ kept \subseteq DOMAIN message /\ DOMAIN message = 1 .. Len(message) /\ Len(message) \in Nat
      /\ \A i \in DOMAIN message : message[i] \in Notices
  BY DEF Kept
<1> HIDE DEF kept
<1>2. IsFiniteSet(kept) /\ n \in Nat /\ \A i \in kept : i \in Nat /\ i >= 1
  <2>1. IsFiniteSet(1 .. Len(message))
    BY <1>1, FS_Interval
  <2> QED
    BY <1>1, <2>1, FS_Subset, FS_CardinalityType
<1>3. \A i \in kept : Place(i) \in 1 .. n
  <2> TAKE i \in kept
  <2> DEFINE below == {j \in kept : j <= i}
  <2>1. below \in SUBSET kept /\ i \in below
    BY <1>2
  <2> HIDE DEF below
  <2>2. IsFiniteSet(below) /\ Cardinality(below) <= n
    BY <1>2, <2>1, FS_Subset
  <2>3. Cardinality(below) \in Nat /\ Cardinality(below) # 0
    BY <2>1, <2>2, FS_CardinalityType, FS_EmptySet
  <2>4. Cardinality(below) \in 1 .. n
    BY <1>2, <2>2, <2>3
  <2> QED
    BY <2>4 DEF below
<1>4. ASSUME NEW i \in kept, NEW j \in kept, i < j
      PROVE  Place(i) < Place(j)
  <2> DEFINE a == {x \in kept : x <= i}
             b == {x \in kept : x <= j}
  <2>1. a \in SUBSET b /\ b \in SUBSET kept /\ j \in b /\ j \notin a
    BY <1>2, <1>4
  <2> HIDE DEF a, b
  <2>2. IsFiniteSet(b)
    BY <1>2, <2>1, FS_Subset
  <2>3. Cardinality(a) <= Cardinality(b) /\ Cardinality(a) # Cardinality(b) /\ IsFiniteSet(a)
    BY <2>1, <2>2, FS_Subset
  <2>4. Cardinality(a) \in Nat /\ Cardinality(b) \in Nat
    BY <2>2, <2>3, FS_CardinalityType
  <2>5. Cardinality(a) < Cardinality(b)
    BY <2>3, <2>4
  <2> QED
    BY <2>5 DEF a, b
<1> DEFINE f == [i \in kept |-> Place(i)]
<1>5. f \in Injection(kept, 1 .. n)
  <2>1. \A i \in kept : f[i] \in 1 .. n
    BY <1>3
  <2>2. \A i, j \in kept : i # j => f[i] # f[j]
    <3> SUFFICES ASSUME NEW i \in kept, NEW j \in kept, i # j
                 PROVE  f[i] # f[j]
      OBVIOUS
    <3>1. i < j \/ j < i
      BY <1>2
    <3>2. Place(i) < Place(j) \/ Place(j) < Place(i)
      BY <1>4, <3>1
    <3>3. Place(i) \in 1 .. n /\ Place(j) \in 1 .. n
      BY <1>3
    <3>4. Place(i) # Place(j)
      BY <3>2, <3>3
    <3> QED
      BY <3>4
  <2>3. f \in [kept -> 1 .. n]
    BY <2>1
  <2> HIDE DEF f
  <2> QED
    BY <2>2, <2>3 DEF Injection, IsInjective
<1>6. f \in Surjection(kept, 1 .. n)
  <2>1. IsFiniteSet(1 .. n) /\ Cardinality(1 .. n) = n
    BY <1>2, FS_Interval
  <2> HIDE DEF f
  <2> QED
    BY <1>5, <2>1, FS_Injection
<1>7. \A k \in 1 .. n : \E i \in kept : Place(i) = k
  BY <1>6 DEF Surjection
<1> DEFINE Kth(k) == CHOOSE i \in kept : Place(i) = k
<1>8. list = [k \in 1 .. n |-> message[Kth(k)]]
  BY DEF Filtered, kept
<1>9. \A k \in 1 .. n : Kth(k) \in kept /\ Place(Kth(k)) = k /\ list[k] = message[Kth(k)]
  BY <1>7, <1>8
<1>10. \A i \in kept : Kth(Place(i)) = i
  <2> TAKE i \in kept
  <2> DEFINE k == Place(i)
  <2>1. k \in 1 .. n
    BY <1>3
  <2> DEFINE j == Kth(k)
  <2>2. j \in kept /\ Place(j) = k
    BY <1>9, <2>1
  <2> HIDE DEF j
  <2>3. i < j \/ j < i \/ i = j
    BY <1>2, <2>2
  <2>4. i < j => Place(i) < Place(j)
    BY <1>4, <2>2
  <2>5. j < i => Place(j) < Place(i)
    BY <1>4, <2>2
  <2>6. Place(i) = Place(j) /\ Place(i) \in Nat
    BY <2>1, <2>2
  <2>7. i = j
    BY <2>3, <2>4, <2>5, <2>6
  <2> QED
    BY <2>7 DEF j
<1> HIDE DEF Kth, Place
<1>11. DOMAIN list = 1 .. n /\ list \in Seq(Notices) /\ Len(list) = n
  <2>1. \A k \in 1 .. n : message[Kth(k)] \in Notices
    BY <1>1, <1>9
  <2>2. list \in [1 .. n -> Notices]
    BY <1>8, <2>1
  <2> HIDE DEF list
  <2>3. list \in Seq(Notices)
    BY <1>2, <2>2
  <2> QED
    BY <1>2, <2>2, <2>3, LenProperties
<1>12. \A i \in kept : i = 1 => Place(i) = 1
  <2> SUFFICES ASSUME 1 \in kept
               PROVE  Place(1) = 1
    OBVIOUS
  <2>1. {j \in kept : j <= 1} = {1}
    BY <1>2
  <2>2. Cardinality({1}) = 1
    BY FS_Singleton
  <2> QED
    BY <2>1, <2>2 DEF Place
<1>13. \A k \in DOMAIN list : \E i \in kept : list[k] = message[i] /\ Place(i) = k
  BY <1>9, <1>11
<1>14. \A i \in kept : \E k \in DOMAIN list : list[k] = message[i] /\ Place(i) = k
  <2> TAKE i \in kept
  <2>1. Place(i) \in 1 .. n
    BY <1>3 DEF Place
  <2>2. list[Place(i)] = message[i]
    BY <1>9, <1>10, <2>1
  <2> QED
    BY <1>11, <2>1, <2>2
<1> QED
  BY <1>11, <1>12, <1>13, <1>14 DEF kept, Place, PlaceIn

LEMMA ElementsAre ==
  ASSUME NEW X, NEW s \in Seq(X)
  PROVE  DOMAIN s = 1 .. Len(s) /\ Len(s) \in Nat /\ \A k \in DOMAIN s : s[k] \in X
OBVIOUS


(* f[i] is what is known after i notices. *)
Hears(f, known, list, rows, n) ==
  f = [i \in 0 .. n |-> IF i = 0 THEN known ELSE Heard(f[i - 1], list[i], rows[i])]

LEMMA SomeHears ==
  ASSUME NEW known, NEW list, NEW rows, NEW n \in Nat
  PROVE  \E f : Hears(f, known, list, rows, n)
<1> DEFINE Bad == {m \in Nat : ~ \E f : Hears(f, known, list, rows, m)}
<1> SUFFICES ASSUME Bad # {}
             PROVE  FALSE
  OBVIOUS
<1>1. PICK m \in Bad : \A k \in Bad : m <= k
  <2>1. Bad \in SUBSET Nat
    OBVIOUS
  <2> HIDE DEF Bad
  <2> QED
    BY <2>1, LeastNumber
<1>2. m \in Nat /\ ~ \E f : Hears(f, known, list, rows, m)
  BY <1>1
<1>3. CASE m = 0
  <2> DEFINE f == [i \in 0 .. 0 |-> known]
  <2>1. \A i \in 0 .. 0 : i = 0
    OBVIOUS
  <2>2. f = [i \in 0 .. 0 |-> IF i = 0 THEN known ELSE Heard(f[i - 1], list[i], rows[i])]
    BY <2>1
  <2> QED
    BY <1>2, <1>3, <2>2 DEF Hears
<1>4. CASE m # 0
  <2>1. m - 1 \in Nat /\ ~ (m <= m - 1)
    BY <1>2, <1>4
  <2>2. m - 1 \notin Bad
    BY <1>1, <2>1
  <2>3. PICK f : Hears(f, known, list, rows, m - 1)
    BY <2>1, <2>2
  <2>4. \A i \in 0 .. m - 1 : f[i] = IF i = 0 THEN known ELSE Heard(f[i - 1], list[i], rows[i])
    BY <2>3, Zenon DEF Hears
  <2> DEFINE g == [i \in 0 .. m |-> IF i = m THEN Heard(f[m - 1], list[m], rows[m]) ELSE f[i]]
  <2>5. \A i \in 0 .. m : i = m \/ i \in 0 .. m - 1
    BY <1>2
  <2>6. \A i \in 0 .. m - 1 : g[i] = f[i]
    <3>1. \A i \in 0 .. m - 1 : i \in 0 .. m /\ i # m
      BY <1>2
    <3> QED
      BY <3>1
  <2>7. g[m] = Heard(f[m - 1], list[m], rows[m])
    <3>1. m \in 0 .. m
      BY <1>2
    <3> QED
      BY <3>1
  <2>8. \A i \in 0 .. m : g[i] = IF i = 0 THEN known ELSE Heard(g[i - 1], list[i], rows[i])
    <3> HIDE DEF g
    <3> SUFFICES ASSUME NEW i \in 0 .. m
                 PROVE  g[i] = IF i = 0 THEN known ELSE Heard(g[i - 1], list[i], rows[i])
      OBVIOUS
    <3>1. CASE i = m
      <4>1. m - 1 \in 0 .. m - 1
        BY <2>1
      <4>2. g[m - 1] = f[m - 1]
        BY <2>6, <4>1
      <4> QED
        BY <1>4, <2>7, <3>1, <4>2
    <3>2. CASE i # m
      <4>1. i \in 0 .. m - 1
        BY <2>5, <3>2
      <4>2. i # 0 => i - 1 \in 0 .. m - 1
        BY <1>2, <4>1
      <4>3. g[i] = f[i] /\ (i # 0 => g[i - 1] = f[i - 1])
        BY <2>6, <4>1, <4>2
      <4>4. f[i] = IF i = 0 THEN known ELSE Heard(f[i - 1], list[i], rows[i])
        BY <2>4, <4>1
      <4> QED
        BY <4>3, <4>4
    <3> QED
      BY <3>1, <3>2
  <2>9. g = [i \in 0 .. m |-> IF i = 0 THEN known ELSE Heard(g[i - 1], list[i], rows[i])]
    <3> DEFINE h == [i \in 0 .. m |-> IF i = 0 THEN known ELSE Heard(g[i - 1], list[i], rows[i])]
    <3>1. \A i \in 0 .. m : g[i] = h[i]
      BY <2>8
    <3>2. g = [i \in 0 .. m |-> g[i]]
      OBVIOUS
    <3>3. h = [i \in 0 .. m |-> h[i]]
      OBVIOUS
    <3> HIDE DEF g, h
    <3>4. [i \in 0 .. m |-> g[i]] = [i \in 0 .. m |-> h[i]]
      BY <3>1
    <3>5. g = h
      BY <3>2, <3>3, <3>4
    <3> QED
      BY <3>5 DEF h
  <2> HIDE DEF g
  <2>10. Hears(g, known, list, rows, m)
    BY <2>9 DEF Hears
  <2> QED
    BY <1>2, <2>10
<1> QED
  BY <1>3, <1>4

RowEvent(n, row) == [num |-> n.num, block |-> n.block, trace |-> n.trace, row |-> row]

(* No fork from the i-th to the m-th notice takes block num back. *)
Spared(list, i, m, num) == \A j \in i .. m : Forked(list[j]) => num < list[j].num

(* An event that is known after n notices. *)
KnownAfter(e, known, list, rows, n) ==
  \/ e \in known /\ Spared(list, 1, n, e.num)
  \/ \E i \in 1 .. n : /\ Traced(list[i]) /\ list[i].trace.name \in Emits
                       /\ e = RowEvent(list[i], rows[i]) /\ Spared(list, i + 1, n, e.num)

LEMMA HeardIs ==
  ASSUME NEW known, NEW list, NEW rows, NEW n \in Nat, NEW f, Hears(f, known, list, rows, n),
         \A i \in 1 .. n : list[i] \in Notices
  PROVE  \A e : e \in f[n] <=> KnownAfter(e, known, list, rows, n)
<1> DEFINE New(i, e) == Traced(list[i]) /\ list[i].trace.name \in Emits /\ e = RowEvent(list[i], rows[i])
           Right(m) == \A e : e \in f[m] <=>
                         \/ e \in known /\ Spared(list, 1, m, e.num)
                         \/ \E i \in 1 .. m : New(i, e) /\ Spared(list, i + 1, m, e.num)
           Bad == {m \in 0 .. n : ~ Right(m)}
<1>1. \A i \in 0 .. n : f[i] = IF i = 0 THEN known ELSE Heard(f[i - 1], list[i], rows[i])
  BY Zenon DEF Hears
<1>2. ASSUME Bad # {}
      PROVE  FALSE
  <2>1. PICK m \in Bad : \A k \in Bad : m <= k
    <3>1. Bad \in SUBSET Nat
      OBVIOUS
    <3> HIDE DEF Bad
    <3> QED
      BY <1>2, <3>1, LeastNumber
  <2>2. m \in 0 .. n /\ m \in Nat /\ ~ Right(m)
    BY <2>1
  <2>3. CASE m = 0
    <3>1. f[0] = known
      BY <1>1, <2>2, <2>3
    <3>2. \A e : Spared(list, 1, 0, e.num)
      BY DEF Spared
    <3>3. 1 .. 0 = {}
      OBVIOUS
    <3>4. Right(0)
      BY <3>1, <3>2, <3>3
    <3> HIDE DEF Right
    <3> QED
      BY <2>2, <2>3, <3>4
  <2>4. CASE m # 0
    <3>1. m - 1 \in 0 .. n /\ m - 1 \in Nat /\ ~ (m <= m - 1) /\ m \in 1 .. n
      BY <2>2, <2>4
    <3>2. Right(m - 1)
      <4> HIDE DEF Right
      <4> QED
        BY <2>1, <3>1
    <3>3. f[m] = Heard(f[m - 1], list[m], rows[m])
      BY <1>1, <2>2, <2>4
    <3>4. \A i \in Nat : \A num : i <= m =>
            (Spared(list, i, m, num) <=> Spared(list, i, m - 1, num) /\ (Forked(list[m]) => num < list[m].num))
      <4> SUFFICES ASSUME NEW i \in Nat, NEW num, i <= m
                   PROVE  Spared(list, i, m, num) <=>
                            Spared(list, i, m - 1, num) /\ (Forked(list[m]) => num < list[m].num)
        OBVIOUS
      <4>1. \A j : j \in i .. m <=> j \in i .. m - 1 \/ j = m
        BY <2>2
      <4> QED
        BY <4>1 DEF Spared
    <3>5. \A j : j \in 1 .. m <=> j \in 1 .. m - 1 \/ j = m
      BY <3>1
    <3>6. \A num : Spared(list, m + 1, m, num)
      <4>1. m + 1 .. m = {}
        BY <2>2
      <4> QED
        BY <4>1 DEF Spared
    <3>7. \A i \in 1 .. m - 1 : i + 1 \in Nat /\ i + 1 <= m
      BY <2>2
    <3>8. m \notin 1 .. m - 1 /\ 1 \in Nat /\ 1 <= m
      BY <2>2, <2>4
    <3> DEFINE Old(e) == \/ e \in known /\ Spared(list, 1, m - 1, e.num)
                         \/ \E i \in 1 .. m - 1 : New(i, e) /\ Spared(list, i + 1, m - 1, e.num)
               Now(e) == \/ e \in known /\ Spared(list, 1, m, e.num)
                         \/ \E i \in 1 .. m : New(i, e) /\ Spared(list, i + 1, m, e.num)
    <3>9. ASSUME NEW e
          PROVE  Now(e) <=> (Old(e) /\ (Forked(list[m]) => e.num < list[m].num)) \/ New(m, e)
      <4> HIDE DEF New
      <4>1. \A i \in 1 .. m - 1 : Spared(list, i + 1, m, e.num) <=>
              Spared(list, i + 1, m - 1, e.num) /\ (Forked(list[m]) => e.num < list[m].num)
        BY <3>4, <3>7
      <4>2. Spared(list, 1, m, e.num) <=>
              Spared(list, 1, m - 1, e.num) /\ (Forked(list[m]) => e.num < list[m].num)
        BY <3>4, <3>8
      <4>3. (\E i \in 1 .. m : New(i, e) /\ Spared(list, i + 1, m, e.num)) <=>
              \/ \E i \in 1 .. m - 1 : New(i, e) /\ Spared(list, i + 1, m, e.num)
              \/ New(m, e)
        BY <3>5, <3>6
      <4> QED
        BY <4>1, <4>2, <4>3
    <3>10. ASSUME NEW e
           PROVE  e \in f[m] <=> (e \in f[m - 1] /\ (Forked(list[m]) => e.num < list[m].num)) \/ New(m, e)
      <4>1. list[m] \in Notices
        BY <3>1
      <4>2. Forked(list[m]) <=> ~ Traced(list[m])
        BY <4>1 DEF Notices, Forked, Traced
      <4>3. CASE Forked(list[m])
        BY <3>3, <4>2, <4>3 DEF Heard, Forked
      <4>4. CASE Traced(list[m])
        BY <3>3, <4>2, <4>4 DEF Heard, Forked, RowEvent
      <4> QED
        BY <4>2, <4>3, <4>4
    <3>11. \A e : e \in f[m - 1] <=> Old(e)
      BY <3>2
    <3>12. \A e : e \in f[m] <=> Now(e)
      <4> HIDE DEF Old, Now, New
      <4> QED
        BY <3>9, <3>10, <3>11
    <3>13. Right(m)
      BY <3>12
    <3> HIDE DEF Right
    <3> QED
      BY <2>2, <3>13
  <2> QED
    BY <2>3, <2>4
<1>3. Right(n)
  <2>1. n \in 0 .. n
    OBVIOUS
  <2> HIDE DEF Right
  <2> QED
    BY <1>2, <2>1
<1> QED
  BY <1>3 DEF KnownAfter

(* The loop of a listener: it ends, or it throws. *)
LEMMA EmittedIs ==
  ASSUME NEW task, task.notifications \in Seq(Notices), EmitEvents(task)
  PROVE  \E last \in 0 .. Len(task.notifications) : \E known :
           /\ clients' = [clients EXCEPT ![task.channel] = known]
           /\ last # Len(task.notifications) =>
                last + 1 \in DOMAIN task.notifications /\ Throws(task, last + 1)
           /\ \A e : e \in known <=>
                \/ e \in clients[task.channel] /\ Spared(task.notifications, 1, last, e.num)
                \/ \E i \in 1 .. last :
                     LET n == task.notifications[i]
                     IN  /\ Traced(n) /\ n.trace.name \in Emits
                         /\ e = RowEvent(n, task.rows[i]) /\ Spared(task.notifications, i + 1, last, e.num)
<1> DEFINE list == task.notifications
           throwing == {i \in DOMAIN list : Throws(task, i)}
           last == IF throwing = {} THEN Len(list) ELSE Min(throwing) - 1
           heard == CHOOSE f : Hears(f, clients[task.channel], list, task.rows, last)
<1>1. clients' = [clients EXCEPT ![task.channel] = heard[last]]
  BY DEF EmitEvents, Hears
<1>2. DOMAIN list = 1 .. Len(list) /\ Len(list) \in Nat /\ \A i \in DOMAIN list : list[i] \in Notices
  OBVIOUS
<1>3. /\ last \in 0 .. Len(list) /\ last \in Nat
      /\ last # Len(list) => last + 1 \in DOMAIN list /\ Throws(task, last + 1)
  <2>1. CASE throwing = {}
    BY <1>2, <2>1
  <2>2. CASE throwing # {}
    <3>1. throwing \in SUBSET Nat
      BY <1>2
    <3>2. Min(throwing) \in throwing
      <4> HIDE DEF throwing
      <4> QED
        BY <2>2, <3>1, MinIs
    <3>3. Min(throwing) \in 1 .. Len(list) /\ last = Min(throwing) - 1 /\ Throws(task, Min(throwing))
      BY <1>2, <2>2, <3>2
    <3> HIDE DEF last, throwing
    <3>4. last + 1 = Min(throwing)
      BY <1>2, <3>3
    <3> QED
      BY <1>2, <3>3, <3>4
  <2> QED
    BY <2>1, <2>2
<1> HIDE DEF last
<1>5. Hears(heard, clients[task.channel], list, task.rows, last)
  BY <1>3, SomeHears
<1> HIDE DEF heard
<1>6. \A i \in 1 .. last : list[i] \in Notices
  BY <1>2, <1>3
<1> DEFINE known == clients[task.channel]
           rows == task.rows
<1> HIDE DEF list, known, rows
<1>7. \A e : e \in heard[last] <=> KnownAfter(e, known, list, rows, last)
  <2>1. Hears(heard, known, list, rows, last)
    BY <1>5 DEF known, rows
  <2> QED
    BY <1>3, <1>6, <2>1, HeardIs
<1> QED
  BY <1>1, <1>3, <1>7, Zenon DEF list, known, rows, KnownAfter

LEMMA ChunkIs ==
  ASSUME notifications \in Seq(Notices), notifications # <<>>
  PROVE  \E k \in 1 .. Len(notifications) :
           /\ Chunk \in Seq(Notices) /\ DOMAIN Chunk = 1 .. k
           /\ \A i \in 1 .. k : Chunk[i] = notifications[i]
           /\ AfterChunk \in Seq(Notices) /\ DOMAIN AfterChunk = 1 .. (Len(notifications) - k)
           /\ \A i \in 1 .. (Len(notifications) - k) : AfterChunk[i] = notifications[k + i]
<1> DEFINE n == Len(notifications)
           k == Min({ChunkSize, n})
<1>1. n \in Nat /\ n # 0 /\ DOMAIN notifications = 1 .. n /\ \A i \in 1 .. n : notifications[i] \in Notices
  <2>1. n \in Nat /\ DOMAIN notifications = 1 .. n /\ \A i \in 1 .. n : notifications[i] \in Notices
    OBVIOUS
  <2> QED
    BY <2>1, EmptySeq
<1>2. k \in 1 .. n
  <2>1. ChunkSize \in Nat \ {0}
    BY SocketsAssumption
  <2>2. {ChunkSize, n} \in SUBSET Nat
    BY <1>1, <2>1
  <2>3. k \in {ChunkSize, n} /\ k <= n
    BY <2>2, MinIs
  <2> QED
    BY <1>1, <2>1, <2>3
<1>3. Chunk = SubSeq(notifications, 1, k)
  BY DEF Chunk
<1> HIDE DEF n, k
<1>4. Chunk \in Seq(Notices) /\ Len(Chunk) = k /\ \A i \in 1 .. k : Chunk[i] = notifications[i]
  <2>1. \A i \in 1 .. k : notifications[i] \in Notices
    BY <1>1, <1>2
  <2>2. /\ SubSeq(notifications, 1, k) \in Seq(Notices)
        /\ Len(SubSeq(notifications, 1, k)) = IF 1 <= k THEN k - 1 + 1 ELSE 0
        /\ \A i \in 1 .. k - 1 + 1 : SubSeq(notifications, 1, k)[i] = notifications[1 + i - 1]
    <3>1. k \in Int /\ 1 \in Int
      BY <1>1, <1>2
    <3> QED
      BY <2>1, <3>1, SubSeqProperties
  <2>3. k - 1 + 1 = k /\ 1 <= k /\ \A i \in 1 .. k : 1 + i - 1 = i
    BY <1>1, <1>2
  <2> QED
    BY <1>3, <2>2, <2>3
<1>5. /\ AfterChunk \in Seq(Notices) /\ Len(AfterChunk) = n - k
      /\ \A i \in 1 .. (n - k) : AfterChunk[i] = notifications[k + i]
  <2>1. AfterChunk = SubSeq(notifications, k + 1, n)
    BY <1>4 DEF AfterChunk, n
  <2>2. \A i \in k + 1 .. n : notifications[i] \in Notices
    BY <1>1, <1>2
  <2>3. /\ SubSeq(notifications, k + 1, n) \in Seq(Notices)
        /\ Len(SubSeq(notifications, k + 1, n)) = IF k + 1 <= n THEN n - (k + 1) + 1 ELSE 0
        /\ \A i \in 1 .. n - (k + 1) + 1 : SubSeq(notifications, k + 1, n)[i] = notifications[k + 1 + i - 1]
    <3>1. k + 1 \in Int /\ n \in Int
      BY <1>1, <1>2
    <3> QED
      BY <2>2, <3>1, SubSeqProperties
  <2>4. /\ n - (k + 1) + 1 = n - k /\ (k + 1 <= n \/ n - k = 0)
        /\ \A i \in 1 .. (n - k) : k + 1 + i - 1 = k + i
    BY <1>1, <1>2
  <2> QED
    BY <2>1, <2>3, <2>4
<1> QED
  BY <1>2, <1>4, <1>5, LenProperties DEF n

-----------------------------------------------------------------------------
(* What a step leaves alone *)

LEMMA FinishedIs ==
  ASSUME ReaderInv
  PROVE  Finished \in Int /\ Finished <= blocks /\ blocks \in Nat
BY DEF ReaderInv, Finished

LEMMA GenuineKept ==
  ASSUME committed' = committed, Finished \in Int, Finished' \in Int, Finished <= Finished',
         NEW n, Genuine(n)
  PROVE  Genuine(n)' /\ (OnBranch(n)' <=> OnBranch(n))
BY DEF Genuine, OnBranch

LEMMA TaskKept ==
  ASSUME committed' = committed, Finished \in Int, Finished' \in Int, Finished <= Finished',
         sent \in Nat, sent' \in Nat, sent <= sent', NEW t, TaskInv(t)
  PROVE  TaskInv(t)'
<1>1. \A i \in DOMAIN t.notifications :
        Traced(t.notifications[i]) => Genuine(t.notifications[i])' /\
          (OnBranch(t.notifications[i])' <=> OnBranch(t.notifications[i]))
  BY GenuineKept DEF TaskInv
<1> QED
  BY <1>1 DEF TaskInv

LEMMA ClientsKept ==
  ASSUME committed' = committed, Finished \in Int, Finished' \in Int, Finished <= Finished',
         clients' = clients, ClientsInv
  PROVE  ClientsInv'
<1>1. \A c \in Listened : \A e \in clients[c] : Genuine(e)' /\ (OnBranch(e)' <=> OnBranch(e))
  BY GenuineKept DEF ClientsInv
<1> QED
  BY <1>1 DEF ClientsInv

LEMMA TasksKept ==
  ASSUME committed' = committed, Finished \in Int, Finished' \in Int, Finished <= Finished',
         sent \in Nat, sent' = sent, tasks' = tasks, TasksInv
  PROVE  TasksInv'
BY TaskKept DEF TasksInv

(* Nobody waits for anything from the reader. *)
Silent == pc # "publish" \/ notifications = <<>>

LEMMA FollowKept ==
  ASSUME committed' = committed, tasks' = tasks, clients' = clients, overtaken' = overtaken,
         Silent, Silent', ~ lost, FollowInv
  PROVE  FollowInv'
<1>1. /\ ~ (pc = "publish" /\ \E i \in DOMAIN notifications : TRUE)
      /\ ~ (pc' = "publish" /\ \E i \in DOMAIN notifications' : TRUE)
  BY DEF Silent
<1>2. ASSUME NEW c, NEW no, NEW num
      PROVE  Announced(c, no, num)' <=> Announced(c, no, num)
  BY <1>1 DEF Announced
<1>3. ASSUME NEW c, NEW k, NEW tr
      PROVE  Told(c, k, tr)' <=> Told(c, k, tr)
  BY <1>1 DEF Told
<1>4. ASSUME NEW c \in Listened \ overtaken
      PROVE  ForksInv(c)' /\ Complete(c)'
  <2>1. ForksInv(c) /\ Complete(c)
    BY DEF FollowInv
  <2>2. ForksInv(c)'
    BY <1>2, <2>1 DEF ForksInv, OnBranch
  <2>3. Complete(c)'
    BY <1>3, <2>1 DEF Complete
  <2> QED
    BY <2>2, <2>3
<1> QED
  BY <1>4 DEF FollowInv

-----------------------------------------------------------------------------
(* The steps of the reader *)

LEMMA StepProcessBlock ==
  ASSUME SocketsInv, ProcessBlock
  PROVE  SocketsInv'
<1>1. /\ pc = "idle" /\ pc' = "commit" /\ blocks' = blocks + 1
      /\ committed' = committed /\ sent' = sent /\ tasks' = tasks /\ clients' = clients
      /\ overtaken' = overtaken /\ lost' = lost
  BY DEF ProcessBlock
<1>2. PICK n \in 1 .. Len(committed) + 1, traces \in SeqOf(Logged, MaxTraces) :
        LET b == [num |-> n, id |-> blocks + 1, traces |-> traces]
        IN  /\ block' = b
            /\ notifications' = (IF n <= Len(committed) THEN <<ForkNotice(n)>> ELSE <<>>) \o TraceNotices(b)
  BY DEF ProcessBlock
<1>3. blocks \in Nat /\ Finished' = Finished /\ Finished \in Int /\ committed \in Seq([id : Nat, traces : Seq(Logged)])
  BY <1>1 DEF SocketsInv, ReaderInv, Finished
<1>4. n \in Nat \ {0} /\ n \in 1 .. Len(committed) + 1
  BY <1>3
<1>5. traces \in Seq(Logged) /\ DOMAIN traces = 1 .. Len(traces) /\ Len(traces) \in Nat
  <2>1. PICK m \in 0 .. MaxTraces : traces \in [1 .. m -> Logged]
    BY DEF SeqOf
  <2>2. m \in Nat
    BY SocketsAssumption
  <2>3. traces \in Seq(Logged)
    BY <2>1, <2>2
  <2> QED
    BY <2>3
<1> DEFINE b == [num |-> n, id |-> blocks + 1, traces |-> traces]
           notices == TraceNotices(b)
           fork == IF n <= Len(committed) THEN <<ForkNotice(n)>> ELSE <<>>
           k == IF n <= Len(committed) THEN 1 ELSE 0
           m == Len(traces)
<1>6. /\ notices \in Seq(Notices) /\ Len(notices) = m /\ DOMAIN notices = 1 .. m
      /\ \A i \in 1 .. m : notices[i] = [type |-> "trace", num |-> n, block |-> blocks + 1, trace |-> traces[i]]
  <2>1. notices = [i \in 1 .. m |-> [type |-> "trace", num |-> n, block |-> blocks + 1, trace |-> traces[i]]]
    BY <1>5 DEF TraceNotices
  <2>2. \A i \in 1 .. m : [type |-> "trace", num |-> n, block |-> blocks + 1, trace |-> traces[i]] \in Notices
    BY <1>3, <1>4, <1>5 DEF Notices
  <2> HIDE DEF notices
  <2>3. notices \in [1 .. m -> Notices]
    BY <2>1, <2>2
  <2>4. notices \in Seq(Notices)
    BY <1>5, <2>3
  <2> QED
    BY <1>5, <2>1, <2>3, <2>4, LenProperties
<1>7. fork \in Seq(Notices) /\ Len(fork) = k /\ (k = 1 => fork[1] = ForkNotice(n))
  <2>1. ForkNotice(n) \in Notices
    BY <1>4 DEF ForkNotice, Notices
  <2> QED
    BY <2>1
<1>8. /\ notifications' \in Seq(Notices) /\ DOMAIN notifications' = 1 .. k + m
      /\ \A i \in 1 .. k + m : notifications'[i] = IF i <= k THEN fork[i] ELSE notices[i - k]
  <2>1. notifications' = fork \o notices
    BY <1>2
  <2> HIDE DEF fork, notices, k, m
  <2>2. /\ fork \o notices \in Seq(Notices)
        /\ Len(fork \o notices) = k + m
        /\ \A i \in 1 .. k + m : (fork \o notices)[i] = IF i <= k THEN fork[i] ELSE notices[i - k]
    BY <1>6, <1>7, ConcatProperties
  <2> QED
    BY <2>1, <2>2, LenProperties
<1>9. k \in {0, 1} /\ m \in Nat /\ (k = 1 <=> n <= Len(committed))
  BY <1>5
<1>10. block' = b /\ block'.num = n /\ block'.id = blocks + 1 /\ block'.traces = traces
  BY <1>2
<1> HIDE DEF fork, notices, k, b
<1>11. ASSUME NEW i \in DOMAIN notifications'
       PROVE  \/ i = 1 /\ k = 1 /\ notifications'[i] = ForkNotice(n)
              \/ /\ i - k \in 1 .. m
                 /\ notifications'[i] = [type |-> "trace", num |-> n, block |-> blocks + 1, trace |-> traces[i - k]]
  <2>1. i \in 1 .. k + m
    BY <1>8
  <2>2. CASE i <= k
    BY <1>7, <1>8, <1>9, <2>1, <2>2
  <2>3. CASE ~ (i <= k)
    <3>1. i - k \in 1 .. m
      BY <1>9, <2>1, <2>3
    <3> QED
      BY <1>6, <1>8, <2>1, <2>3, <3>1
  <2> QED
    BY <2>2, <2>3
<1>12. \A i \in DOMAIN notifications' :
         /\ notifications'[i].num = n
         /\ Traced(notifications'[i]) => notifications'[i].block = blocks + 1 /\ notifications'[i].trace \in ToSet(traces)
         /\ Forked(notifications'[i]) => i = 1 /\ k = 1
  <2>1. \A j \in 1 .. m : traces[j] \in ToSet(traces)
    BY <1>5 DEF ToSet
  <2> QED
    BY <1>11, <2>1 DEF ForkNotice, Traced, Forked
<1>13. k = 1 => 1 \in DOMAIN notifications' /\ Forked(notifications'[1])
  <2> SUFFICES ASSUME k = 1
               PROVE  1 \in DOMAIN notifications' /\ Forked(notifications'[1])
    OBVIOUS
  <2>1. 1 \in 1 .. k + m /\ 1 <= k
    BY <1>9
  <2>2. notifications'[1] = ForkNotice(n)
    BY <1>7, <1>8, <2>1
  <2> QED
    BY <1>8, <2>1, <2>2 DEF ForkNotice, Forked
<1>14. \A t \in ToSet(traces) : \E i \in DOMAIN notifications' : Traced(notifications'[i]) /\ notifications'[i].trace = t
  <2> TAKE t \in ToSet(traces)
  <2>1. PICK j \in 1 .. m : t = traces[j]
    BY <1>5 DEF ToSet
  <2>2. k + j \in 1 .. k + m /\ ~ (k + j <= k) /\ (k + j) - k = j
    BY <1>9, <2>1
  <2>3. notifications'[k + j] = notices[j]
    BY <1>8, <2>2
  <2>4. notifications'[k + j] = [type |-> "trace", num |-> n, block |-> blocks + 1, trace |-> traces[j]]
    BY <1>6, <2>3
  <2> QED
    BY <1>8, <2>1, <2>2, <2>4 DEF Traced
<1>15. ReaderInv'
  <2>1. blocks + 1 \in Nat /\ blocks + 1 # 0
    BY <1>3
  <2>2. \A j \in DOMAIN committed' : (committed[j].id <= Finished)'
    BY <1>1, <1>3 DEF SocketsInv, ReaderInv
  <2>3. block'.num \in 1 .. Len(committed') + 1 /\ block'.id = blocks' /\ blocks' # 0 /\ block'.traces \in Seq(Logged)
    BY <1>1, <1>4, <1>5, <1>10, <2>1
  <2>4. \A i \in DOMAIN notifications' :
          LET x == notifications'[i] IN
          /\ x.num = block'.num
          /\ Traced(x) => x.block = block'.id /\ x.trace \in ToSet(block'.traces)
          /\ Forked(x) => i = 1
    BY <1>10, <1>12
  <2>5. (\E i \in DOMAIN notifications' : Forked(notifications'[i])) <=> block'.num <= Len(committed')
    BY <1>1, <1>9, <1>10, <1>12, <1>13
  <2>6. \A t \in ToSet(block'.traces) :
          \E i \in DOMAIN notifications' : Traced(notifications'[i]) /\ notifications'[i].trace = t
    BY <1>10, <1>14
  <2>7. pc' # "publish" /\ pc' \in {"idle", "commit", "publish"}
    BY <1>1
  <2>8. committed' \in Seq([id : Nat, traces : Seq(Logged)]) /\ sent' \in Nat /\ lost' \in BOOLEAN /\ blocks' \in Nat
    BY <1>1, <1>3, <2>1 DEF SocketsInv, ReaderInv
  <2> QED
    BY <1>8, <2>2, <2>3, <2>4, <2>5, <2>6, <2>7, <2>8 DEF ReaderInv, Traced, Forked
<1>16. TasksInv' /\ ClientsInv'
  <2>1. sent \in Nat /\ Finished <= Finished'
    BY <1>3 DEF SocketsInv, ReaderInv
  <2> QED
    BY <1>1, <1>3, <2>1, TasksKept, ClientsKept DEF SocketsInv
<1>17. FollowInv'
  <2>1. CASE lost
    BY <1>1, <2>1 DEF FollowInv
  <2>2. CASE ~ lost
    BY <1>1, <2>2, FollowKept DEF SocketsInv, Silent
  <2> QED
    BY <2>1, <2>2
<1> QED
  BY <1>15, <1>16, <1>17 DEF SocketsInv

LEMMA StepStops ==
  ASSUME SocketsInv, Published \/ PublishFails
  PROVE  SocketsInv'
<1>1. /\ pc' = "idle" /\ committed' = committed /\ blocks' = blocks /\ sent' = sent
      /\ tasks' = tasks /\ clients' = clients /\ overtaken' = overtaken
      /\ notifications' \in {notifications, <<>>}
      /\ lost' \in BOOLEAN /\ (~ lost' => ~ lost /\ Silent)
  BY DEF Published, PublishFails, Silent, SocketsInv, ReaderInv
<1>2. Finished' = blocks /\ Finished \in Int /\ Finished' \in Int /\ Finished <= Finished'
  BY <1>1 DEF SocketsInv, ReaderInv, Finished
<1>3. ReaderInv'
  <2>1. notifications' \in Seq(Notices)
    <3>1. notifications \in Seq(Notices)
      BY DEF SocketsInv, ReaderInv
    <3>2. <<>> \in Seq(Notices)
      OBVIOUS
    <3> QED
      BY <1>1, <3>1, <3>2
  <2>2. \A k \in DOMAIN committed' : committed'[k].id <= Finished'
    <3>1. \A k \in DOMAIN committed : committed[k].id \in Nat /\ committed[k].id <= Finished
      <4>1. committed \in Seq([id : Nat, traces : Seq(Logged)])
        BY DEF SocketsInv, ReaderInv
      <4>2. \A k \in DOMAIN committed : committed[k] \in [id : Nat, traces : Seq(Logged)]
        BY <4>1, ElementsAre, Zenon
      <4>3. \A k \in DOMAIN committed : committed[k].id <= Finished
        BY DEF SocketsInv, ReaderInv
      <4> QED
        BY <4>2, <4>3
    <3> QED
      BY <1>1, <1>2, <3>1
  <2> QED
    BY <1>1, <2>1, <2>2 DEF SocketsInv, ReaderInv
<1>4. TasksInv' /\ ClientsInv'
  BY <1>1, <1>2, TasksKept, ClientsKept DEF SocketsInv, ReaderInv
<1>5. FollowInv'
  <2>1. CASE lost'
    BY <2>1 DEF FollowInv
  <2>2. CASE ~ lost'
    BY <1>1, <2>2, FollowKept DEF SocketsInv, Silent
  <2> QED
    BY <2>1, <2>2
<1> QED
  BY <1>3, <1>4, <1>5 DEF SocketsInv

LEMMA StepCommitBlock ==
  ASSUME SocketsInv, CommitBlock
  PROVE  SocketsInv'
<1> DEFINE Rows == [id : Nat, traces : Seq(Logged)]
           n == block.num
           row == [id |-> block.id, traces |-> block.traces]
<1>1. /\ pc = "commit" /\ pc' = "publish"
      /\ committed' = Append(SubSeq(committed, 1, n - 1), row)
      /\ block' = block /\ notifications' = notifications /\ blocks' = blocks /\ sent' = sent
      /\ tasks' = tasks /\ clients' = clients /\ overtaken' = overtaken /\ lost' = lost
  BY DEF CommitBlock
<1>2. /\ committed \in Seq(Rows) /\ blocks \in Nat /\ sent \in Nat /\ lost \in BOOLEAN
      /\ \A k \in DOMAIN committed : committed[k].id <= Finished
      /\ notifications \in Seq(Notices)
      /\ n \in 1 .. Len(committed) + 1 /\ block.id = blocks /\ blocks # 0 /\ block.traces \in Seq(Logged)
      /\ \A i \in DOMAIN notifications :
           LET x == notifications[i] IN
           /\ x.num = n
           /\ Traced(x) => x.block = block.id /\ x.trace \in ToSet(block.traces)
           /\ Forked(x) => i = 1
      /\ (\E i \in DOMAIN notifications : Forked(notifications[i])) <=> n <= Len(committed)
      /\ \A t \in ToSet(block.traces) :
           \E i \in DOMAIN notifications : Traced(notifications[i]) /\ notifications[i].trace = t
  BY <1>1, Zenon DEF SocketsInv, ReaderInv
<1>3. Finished = blocks - 1 /\ Finished' = blocks
  BY <1>1 DEF Finished
<1>4. /\ DOMAIN committed = 1 .. Len(committed) /\ Len(committed) \in Nat
      /\ \A k \in DOMAIN committed : committed[k] \in Rows
  <2>1. committed \in Seq(Rows)
    BY <1>2, Zenon
  <2> HIDE DEF Rows
  <2> QED
    BY <2>1, ElementsAre, Zenon
<1>5. n \in Nat \ {0} /\ n <= Len(committed) + 1
  BY <1>2, <1>4
<1>6. row \in Rows
  BY <1>2
<1> HIDE DEF row, n, Rows
<1>7. /\ committed' \in Seq(Rows) /\ DOMAIN committed' = 1 .. n
      /\ \A k \in 1 .. n : k # n => committed'[k] = committed[k]
      /\ committed'[n] = row
  <2> DEFINE old == SubSeq(committed, 1, n - 1)
  <2>1. /\ old \in Seq(Rows) /\ Len(old) = n - 1
        /\ \A k \in 1 .. n - 1 : old[k] = committed[k]
    <3>1. \A k \in 1 .. n - 1 : committed[k] \in Rows
      BY <1>4, <1>5
    <3>2. 1 \in Int /\ n - 1 \in Int
      BY <1>5
    <3>3. /\ old \in Seq(Rows)
          /\ Len(old) = IF 1 <= n - 1 THEN n - 1 - 1 + 1 ELSE 0
          /\ \A k \in 1 .. n - 1 - 1 + 1 : old[k] = committed[1 + k - 1]
      BY <3>1, <3>2, SubSeqProperties
    <3>4. /\ n - 1 - 1 + 1 = n - 1 /\ (1 <= n - 1 \/ n - 1 = 0)
          /\ \A k \in 1 .. n - 1 : 1 + k - 1 = k
      BY <1>5
    <3> HIDE DEF old
    <3> QED
      BY <3>3, <3>4
  <2> HIDE DEF old
  <2>2. /\ Append(old, row) \in Seq(Rows) /\ Len(Append(old, row)) = Len(old) + 1
        /\ \A k \in 1 .. Len(old) : Append(old, row)[k] = old[k]
        /\ Append(old, row)[Len(old) + 1] = row
    BY <1>6, <2>1, AppendProperties
  <2>3. n - 1 + 1 = n /\ \A k \in 1 .. n : k # n => k \in 1 .. n - 1
    BY <1>5
  <2>4. committed' = Append(old, row)
    BY <1>1 DEF old
  <2> QED
    BY <2>1, <2>2, <2>3, <2>4, LenProperties
<1>8. row.id = blocks /\ row.traces = block.traces
  BY <1>2 DEF row
<1>9. ASSUME NEW x, Genuine(x)
      PROVE  Genuine(x)' /\ (OnBranch(x)' <=> OnBranch(x) /\ x.num < n)
  <2>1. x.num \in Nat \ {0} /\ x.block \in Nat /\ x.block <= blocks - 1
        /\ (OnBranch(x) => x.trace \in ToSet(committed[x.num].traces))
    BY <1>3, <1>9 DEF Genuine
  <2>2. OnBranch(x) <=> x.num \in 1 .. Len(committed) /\ committed[x.num].id = x.block
    BY <1>4 DEF OnBranch
  <2>3. OnBranch(x)' <=> x.num \in 1 .. n /\ committed'[x.num].id = x.block
    BY <1>7 DEF OnBranch
  <2>4. CASE x.num < n
    <3>1. x.num \in 1 .. n /\ x.num \in 1 .. Len(committed) /\ committed'[x.num] = committed[x.num]
      BY <1>4, <1>5, <1>7, <2>1, <2>4
    <3> QED
      BY <1>2, <1>3, <2>1, <2>2, <2>3, <2>4, <3>1 DEF Genuine
  <2>5. CASE x.num = n
    <3>1. ~ OnBranch(x)'
      BY <1>2, <1>7, <1>8, <2>1, <2>3, <2>5
    <3> QED
      BY <1>2, <1>3, <1>5, <2>1, <2>5, <3>1 DEF Genuine
  <2>6. CASE x.num > n
    <3>1. ~ OnBranch(x)'
      BY <1>5, <2>1, <2>3, <2>6
    <3> QED
      BY <1>2, <1>3, <1>5, <2>1, <2>6, <3>1 DEF Genuine
  <2> QED
    BY <1>5, <2>1, <2>4, <2>5, <2>6
<1>10. ReaderInv'
  <2>1. \A k \in DOMAIN committed' : committed'[k].id <= Finished'
    <3> SUFFICES ASSUME NEW k \in 1 .. n
                 PROVE  committed'[k].id <= blocks
      BY <1>3, <1>7
    <3>1. CASE k = n
      BY <1>2, <1>7, <1>8, <3>1
    <3>2. CASE k # n
      <4>1. k \in DOMAIN committed /\ committed'[k] = committed[k]
        BY <1>4, <1>5, <1>7, <3>2
      <4>2. committed[k].id \in Nat /\ committed[k].id <= blocks - 1
        BY <1>2, <1>3, <1>4, <4>1 DEF Rows
      <4> QED
        BY <1>2, <4>1, <4>2
    <3> QED
      BY <3>1, <3>2
  <2>2. committed' \in Seq([id : Nat, traces : Seq(Logged)])
    BY <1>7 DEF Rows
  <2>3. n \in 1 .. Len(committed') + 1 /\ n \in DOMAIN committed'
    BY <1>5, <1>7
  <2>4. committed'[n] = [id |-> block.id, traces |-> block.traces]
    BY <1>7 DEF row
  <2> QED
    BY <1>1, <1>2, <2>1, <2>2, <2>3, <2>4, Zenon DEF ReaderInv, n, Traced, Forked
<1>11. TasksInv'
  <2>1. ASSUME NEW t \in tasks
        PROVE  TaskInv(t)'
    <3>1. TaskInv(t)
      BY DEF SocketsInv, TasksInv
    <3>2. \A i \in DOMAIN t.notifications :
            Traced(t.notifications[i]) =>
              Genuine(t.notifications[i])' /\ (OnBranch(t.notifications[i])' => OnBranch(t.notifications[i]))
      BY <1>9, <3>1 DEF TaskInv
    <3> QED
      BY <1>1, <3>1, <3>2 DEF TaskInv
  <2> QED
    BY <1>1, <2>1 DEF SocketsInv, TasksInv
<1>12. ClientsInv'
  <2>1. \A c \in Listened : \A e \in clients[c] : Genuine(e)' /\ (OnBranch(e)' => OnBranch(e))
    BY <1>9 DEF SocketsInv, ClientsInv
  <2> QED
    BY <1>1, <2>1 DEF SocketsInv, ClientsInv
<1>13. FollowInv'
  <2>1. ASSUME NEW c, NEW no, NEW num \in Nat
        PROVE  Announced(c, no, num)' <=> Announced(c, no, num) \/ (n <= Len(committed) /\ n <= num)
    <3>1. (\E i \in DOMAIN notifications : Forked(notifications[i]) /\ notifications[i].num <= num)
            <=> n <= Len(committed) /\ n <= num
      BY <1>2
    <3> QED
      BY <1>1, <3>1 DEF Announced
  <2>2. ASSUME NEW x, Genuine(x), NEW c, NEW no, OnBranch(x) <=> ~ Announced(c, no, x.num)
        PROVE  OnBranch(x)' <=> ~ Announced(c, no, x.num)'
    <3>1. x.num \in Nat
      BY <2>2 DEF Genuine
    <3>2. Announced(c, no, x.num)' <=> Announced(c, no, x.num) \/ (n <= Len(committed) /\ n <= x.num)
      BY <2>1, <3>1
    <3>3. OnBranch(x)' <=> OnBranch(x) /\ x.num < n
      BY <1>9, <2>2
    <3>4. OnBranch(x) => x.num <= Len(committed)
      BY <1>4 DEF OnBranch
    <3>5. x.num < n <=> ~ (n <= x.num)
      BY <1>5, <3>1
    <3>6. ~ (n <= Len(committed)) => (OnBranch(x) => x.num < n)
      BY <1>4, <1>5, <3>1, <3>4
    <3> QED
      BY <2>2, <3>2, <3>3, <3>5, <3>6
  <2>3. ASSUME ~ lost, NEW c \in Listened \ overtaken
        PROVE  ForksInv(c)' /\ Complete(c)'
    <3>1. ForksInv(c) /\ Complete(c) /\ c \in Listened
      BY <2>3 DEF SocketsInv, FollowInv
    <3>2. ForksInv(c)'
      <4>1. \A e \in clients[c] : OnBranch(e)' <=> ~ Announced(c, 0, e.num)'
        <5> TAKE e \in clients[c]
        <5>1. Genuine(e) /\ (OnBranch(e) <=> ~ Announced(c, 0, e.num))
          BY <3>1 DEF SocketsInv, ClientsInv, ForksInv
        <5> QED
          BY <2>2, <5>1
      <4>2. ASSUME NEW t \in tasks, t.channel = c, NEW i \in DOMAIN t.notifications, Traced(t.notifications[i])
            PROVE  OnBranch(t.notifications[i])' <=> ~ Announced(c, t.no, t.notifications[i].num)'
        <5> DEFINE x == t.notifications[i]
        <5>1. Genuine(x) /\ (OnBranch(x) <=> ~ Announced(c, t.no, x.num))
          BY <3>1, <4>2 DEF SocketsInv, TasksInv, TaskInv, ForksInv
        <5> HIDE DEF x
        <5>2. OnBranch(x)' <=> ~ Announced(c, t.no, x.num)'
          BY <2>2, <5>1
        <5> QED
          BY <5>2 DEF x
      <4> QED
        BY <1>1, <4>1, <4>2 DEF ForksInv
    <3>3. ASSUME NEW k \in 1 .. n, NEW tr \in ToSet(committed'[k].traces), ChannelOf(tr) = c, tr.name \in Emits
          PROVE  Told(c, k, tr)'
      <4>1. CASE k # n
        <5>1. k \in DOMAIN committed /\ committed'[k] = committed[k]
          BY <1>4, <1>5, <1>7, <4>1
        <5>2. Told(c, k, tr)
          BY <3>1, <3>3, <5>1 DEF Complete
        <5> QED
          BY <1>1, <5>1, <5>2 DEF Told
      <4>2. CASE k = n
        <5>1. committed'[k].id = blocks /\ tr \in ToSet(block.traces)
          BY <1>7, <1>8, <3>3, <4>2
        <5>2. PICK i \in DOMAIN notifications : Traced(notifications[i]) /\ notifications[i].trace = tr
          BY <1>2, <5>1
        <5>3. notifications[i].num = k /\ notifications[i].block = committed'[k].id
          BY <1>2, <4>2, <5>1, <5>2
        <5> QED
          BY <1>1, <5>2, <5>3 DEF Told
      <4> QED
        BY <4>1, <4>2
    <3> QED
      BY <1>7, <3>2, <3>3 DEF Complete
  <2> QED
    BY <1>1, <2>3 DEF FollowInv
<1> QED
  BY <1>10, <1>11, <1>12, <1>13 DEF SocketsInv

NewTask(c) == [no |-> sent + 1, channel |-> c, notifications |-> Filtered(Chunk, c), at |-> "query", rows |-> <<>>]

(* Each listener has what concerns it of the message; the fork is first. *)
LEMMA MessageIs ==
  ASSUME ReaderInv, PublishChunk
  PROVE  \E k \in 1 .. Len(notifications) :
           /\ notifications' \in Seq(Notices) /\ DOMAIN notifications' = 1 .. (Len(notifications) - k)
           /\ \A i \in 1 .. (Len(notifications) - k) : notifications'[i] = notifications[k + i]
           /\ \A c :
                LET list == Filtered(Chunk, c) IN
                /\ list \in Seq(Notices)
                /\ \A p \in DOMAIN list : \E i \in 1 .. k :
                     /\ list[p] = notifications[i] /\ (i = 1 => p = 1)
                     /\ Traced(list[p]) => ChannelOf(list[p].trace) = c
                /\ \A i \in 1 .. k :
                     (Traced(notifications[i]) => ChannelOf(notifications[i].trace) = c)
                       => \E p \in DOMAIN list : list[p] = notifications[i]
<1>1. notifications \in Seq(Notices) /\ notifications # <<>> /\ notifications' = AfterChunk
  BY DEF ReaderInv, PublishChunk, SendChunk
<1>2. PICK k \in 1 .. Len(notifications) :
        /\ Chunk \in Seq(Notices) /\ DOMAIN Chunk = 1 .. k
        /\ \A i \in 1 .. k : Chunk[i] = notifications[i]
        /\ AfterChunk \in Seq(Notices) /\ DOMAIN AfterChunk = 1 .. (Len(notifications) - k)
        /\ \A i \in 1 .. (Len(notifications) - k) : AfterChunk[i] = notifications[k + i]
  BY <1>1, ChunkIs
<1>3. ASSUME NEW c
      PROVE  LET list == Filtered(Chunk, c) IN
             /\ list \in Seq(Notices)
             /\ \A p \in DOMAIN list : \E i \in 1 .. k :
                  /\ list[p] = notifications[i] /\ (i = 1 => p = 1)
                  /\ Traced(list[p]) => ChannelOf(list[p].trace) = c
             /\ \A i \in 1 .. k :
                  (Traced(notifications[i]) => ChannelOf(notifications[i].trace) = c)
                    => \E p \in DOMAIN list : list[p] = notifications[i]
  <2> DEFINE list == Filtered(Chunk, c)
             kept == Kept(Chunk, c)
             Place(i) == PlaceIn(kept, i)
  <2>1. /\ list \in Seq(Notices) /\ DOMAIN list = 1 .. Len(list)
        /\ \A p \in DOMAIN list : \E i \in kept : list[p] = Chunk[i] /\ Place(i) = p
        /\ \A i \in kept : \E p \in DOMAIN list : list[p] = Chunk[i] /\ Place(i) = p
        /\ \A i \in kept : i = 1 => Place(i) = 1
    <3>1. Chunk \in Seq(Notices)
      BY <1>2
    <3> QED
      BY <3>1, FilteredIs
  <2> HIDE DEF list, Place
  <2>2. \A i : i \in kept <=> i \in 1 .. k /\ (Traced(notifications[i]) => ChannelOf(notifications[i].trace) = c)
    BY <1>2 DEF Kept, Traced
  <2> HIDE DEF kept
  <2>3. \A i \in kept : i \in 1 .. k /\ Chunk[i] = notifications[i]
    BY <1>2, <2>2
  <2>4. \A p \in DOMAIN list : \E i \in 1 .. k :
          /\ list[p] = notifications[i] /\ (i = 1 => p = 1)
          /\ Traced(list[p]) => ChannelOf(list[p].trace) = c
    <3> TAKE p \in DOMAIN list
    <3>1. PICK i \in kept : list[p] = Chunk[i] /\ Place(i) = p
      BY <2>1
    <3> QED
      BY <2>1, <2>2, <2>3, <3>1
  <2>5. \A i \in 1 .. k :
          (Traced(notifications[i]) => ChannelOf(notifications[i].trace) = c)
            => \E p \in DOMAIN list : list[p] = notifications[i]
    BY <2>1, <2>2, <2>3
  <2> QED
    BY <2>1, <2>4, <2>5 DEF list
<1> QED
  BY <1>1, <1>2, <1>3

LEMMA StepPublishChunk ==
  ASSUME SocketsInv, PublishChunk
  PROVE  SocketsInv'
<1>1. /\ pc = "publish" /\ pc' = "publish" /\ notifications # <<>>
      /\ committed' = committed /\ block' = block /\ blocks' = blocks /\ sent' = sent + 1
      /\ clients' = clients /\ overtaken' = overtaken /\ lost' = lost
      /\ tasks' = tasks \cup {NewTask(c) : c \in {x \in Listened : Filtered(Chunk, x) # <<>>}}
  BY DEF PublishChunk, SendChunk, NewTask
<1>2. ReaderInv /\ TasksInv /\ ClientsInv /\ FollowInv
  BY DEF SocketsInv
<1>3. PICK k \in 1 .. Len(notifications) :
        /\ notifications' \in Seq(Notices) /\ DOMAIN notifications' = 1 .. (Len(notifications) - k)
        /\ \A i \in 1 .. (Len(notifications) - k) : notifications'[i] = notifications[k + i]
        /\ \A c :
             LET list == Filtered(Chunk, c) IN
             /\ list \in Seq(Notices)
             /\ \A p \in DOMAIN list : \E i \in 1 .. k :
                  /\ list[p] = notifications[i] /\ (i = 1 => p = 1)
                  /\ Traced(list[p]) => ChannelOf(list[p].trace) = c
             /\ \A i \in 1 .. k :
                  (Traced(notifications[i]) => ChannelOf(notifications[i].trace) = c)
                    => \E p \in DOMAIN list : list[p] = notifications[i]
  BY <1>2, MessageIs
<1> DEFINE List(c) == Filtered(Chunk, c)
<1>4. ASSUME NEW c, NEW p \in DOMAIN List(c)
      PROVE  \E i \in 1 .. k : /\ List(c)[p] = notifications[i] /\ (i = 1 => p = 1)
                               /\ Traced(List(c)[p]) => ChannelOf(List(c)[p].trace) = c
  BY <1>3, Zenon
<1>5. ASSUME NEW c, NEW i \in 1 .. k, Traced(notifications[i]) => ChannelOf(notifications[i].trace) = c
      PROVE  \E p \in DOMAIN List(c) : List(c)[p] = notifications[i]
  BY <1>3, <1>5, Zenon
<1>6. /\ notifications \in Seq(Notices) /\ DOMAIN notifications = 1 .. Len(notifications)
      /\ Len(notifications) \in Nat
      /\ sent \in Nat /\ blocks \in Nat /\ block.id = blocks
      /\ block.num \in DOMAIN committed
      /\ committed[block.num] = [id |-> block.id, traces |-> block.traces]
      /\ \A i \in DOMAIN notifications :
           LET n == notifications[i] IN
           /\ n \in Notices /\ n.num = block.num
           /\ Traced(n) => n.block = block.id /\ n.trace \in ToSet(block.traces)
           /\ Forked(n) => i = 1
  BY <1>1, <1>2, ElementsAre DEF ReaderInv
<1>7. block.num \in Nat \ {0}
  <2>1. Len(committed) \in Nat /\ block.num \in 1 .. Len(committed) + 1
    BY <1>1, <1>2 DEF ReaderInv
  <2> QED
    BY <2>1
<1>8. 1 \in 1 .. k /\ k \in Nat /\ k <= Len(notifications)
  BY <1>6
<1>9. /\ \A i \in 1 .. k : i \in DOMAIN notifications
      /\ \A i \in DOMAIN notifications' :
           i \in Nat /\ k + i \in DOMAIN notifications /\ k + i # 1 /\ notifications'[i] = notifications[k + i]
  BY <1>3, <1>6, <1>8
<1>10. Finished = blocks /\ Finished' = blocks
  BY <1>1 DEF Finished
<1>11. ASSUME NEW c, NEW p \in DOMAIN List(c)
       PROVE  LET n == List(c)[p] IN
              /\ n.num = block.num
              /\ Forked(n) => p = 1
              /\ Traced(n) => /\ n.block = block.id /\ Genuine(n) /\ OnBranch(n)
                              /\ ChannelOf(n.trace) = c
  <2>1. PICK i \in 1 .. k : /\ List(c)[p] = notifications[i] /\ (i = 1 => p = 1)
                            /\ Traced(List(c)[p]) => ChannelOf(List(c)[p].trace) = c
    BY <1>4
  <2>2. /\ notifications[i].num = block.num
        /\ Traced(notifications[i]) => notifications[i].block = block.id /\ notifications[i].trace \in ToSet(block.traces)
        /\ Forked(notifications[i]) => i = 1
    BY <1>6, <1>9
  <2>3. Traced(notifications[i]) => Genuine(notifications[i]) /\ OnBranch(notifications[i])
    BY <1>6, <1>7, <1>10, <2>2 DEF Genuine, OnBranch
  <2> HIDE DEF List
  <2> QED
    BY <2>1, <2>2, <2>3
<1>12. ReaderInv'
  <2>1. \A j \in DOMAIN committed : committed'[j].id <= Finished'
    BY <1>1, <1>2, <1>10 DEF ReaderInv
  <2>2. \A i \in DOMAIN notifications' :
          LET n == notifications'[i] IN
          /\ n.num = block.num
          /\ Traced(n) => n.block = block.id /\ n.trace \in ToSet(block.traces)
          /\ Forked(n) => i = 1
    BY <1>6, <1>9
  <2>3. sent + 1 \in Nat
    BY <1>6
  <2> QED
    BY <1>1, <1>2, <1>3, <2>1, <2>2, <2>3, Zenon DEF ReaderInv, Traced, Forked
<1>13. ASSUME NEW t
       PROVE  t \in tasks' <=> \/ t \in tasks
                               \/ \E c \in Listened : List(c) # <<>> /\ t = NewTask(c)
  BY <1>1
<1>14. TasksInv'
  <2>1. ASSUME NEW t \in tasks
        PROVE  TaskInv(t)' /\ t.no <= sent
    <3>1. TaskInv(t)
      BY <1>2 DEF TasksInv
    <3>2. Finished \in Int /\ sent <= sent' /\ sent' \in Nat
      BY <1>1, <1>6, <1>10
    <3> QED
      <4>1. TaskInv(t)'
        BY <1>1, <1>6, <1>10, <3>1, <3>2, TaskKept
      <4>2. t.no <= sent
        BY <3>1 DEF TaskInv
      <4> QED
        BY <4>1, <4>2
  <2>2. ASSUME NEW c \in Listened, NEW t, t = NewTask(c)
        PROVE  TaskInv(t)'
    <3>1. /\ t.no = sent + 1 /\ t.channel = c /\ t.notifications = List(c) /\ t.at = "query" /\ t.rows = <<>>
          /\ t = [no |-> t.no, channel |-> t.channel, notifications |-> t.notifications, at |-> t.at, rows |-> t.rows]
      BY <2>2 DEF NewTask
    <3>2. t.no \in Nat \ {0} /\ t.no <= sent' /\ t.channel \in Listened
      BY <1>1, <1>6, <3>1
    <3>3. t.notifications \in Seq(Notices)
      BY <1>3, <3>1
    <3>4. \A i \in DOMAIN t.notifications :
            LET n == t.notifications[i] IN
            /\ n.num = block.num /\ (Forked(n) => i = 1)
            /\ Traced(n) => n.block = block.id /\ Genuine(n) /\ ChannelOf(n.trace) = t.channel
      BY <1>11, <3>1
    <3>5. \A n : Genuine(n)' <=> Genuine(n)
      BY <1>1, <1>10 DEF Genuine, OnBranch
    <3> HIDE DEF List
    <3>6. t.at # "emit"
      BY <3>1
    <3> QED
      BY <3>1, <3>2, <3>3, <3>4, <3>5, <3>6 DEF TaskInv
  <2>3. \A c : NewTask(c).no = sent + 1 /\ NewTask(c).channel = c
    BY DEF NewTask
  <2>4. ASSUME NEW t \in tasks', NEW u \in tasks', t.channel = u.channel, t.no = u.no
        PROVE  t = u
    <3>1. CASE t \in tasks /\ u \in tasks
      BY <1>2, <2>4, <3>1 DEF TasksInv
    <3>2. CASE t \in tasks /\ u \notin tasks
      <4>1. t.no <= sent /\ t.no \in Nat
        BY <1>2, <3>2 DEF TasksInv, TaskInv
      <4>2. u.no = sent + 1
        BY <1>13, <2>3, <3>2
      <4> QED
        BY <1>6, <2>4, <4>1, <4>2
    <3>3. CASE t \notin tasks /\ u \in tasks
      <4>1. u.no <= sent /\ u.no \in Nat
        BY <1>2, <3>3 DEF TasksInv, TaskInv
      <4>2. t.no = sent + 1
        BY <1>13, <2>3, <3>3
      <4> QED
        BY <1>6, <2>4, <4>1, <4>2
    <3>4. CASE t \notin tasks /\ u \notin tasks
      <4>1. PICK c : t = NewTask(c)
        BY <1>13, <3>4
      <4>2. PICK d : u = NewTask(d)
        BY <1>13, <3>4
      <4>3. c = d
        BY <2>3, <2>4, <4>1, <4>2
      <4> QED
        BY <4>1, <4>2, <4>3
    <3> QED
      BY <3>1, <3>2, <3>3, <3>4
  <2>5. \A t \in tasks' : TaskInv(t)'
    BY <1>13, <2>1, <2>2
  <2> QED
    BY <2>4, <2>5 DEF TasksInv
<1>15. ClientsInv'
  <2>1. Finished \in Int /\ Finished' \in Int /\ Finished <= Finished'
    BY <1>6, <1>10
  <2> QED
    BY <1>1, <1>2, <2>1, ClientsKept
<1>16. FollowInv'
  <2>1. \A c : /\ NewTask(c).no = sent + 1 /\ NewTask(c).channel = c /\ NewTask(c).notifications = List(c)
               /\ (c \in Listened /\ List(c) # <<>> => NewTask(c) \in tasks')
    BY <1>13 DEF NewTask
  <2>2. \A c : \A p \in DOMAIN List(c) : List(c) # <<>>
    BY EmptySeq
  <2>3. \A t \in tasks : t \in tasks' /\ t.no \in Nat /\ t.no <= sent
    BY <1>2, <1>13 DEF TasksInv, TaskInv
  <2> HIDE DEF List
  <2>4. ASSUME NEW c \in Listened, NEW no \in Nat, no <= sent, NEW num
        PROVE  Announced(c, no, num)' <=> Announced(c, no, num)
    <3>1. ASSUME Announced(c, no, num)
          PROVE  Announced(c, no, num)'
      <4>1. CASE \E t \in tasks : /\ t.channel = c /\ t.no > no
                                  /\ \E i \in DOMAIN t.notifications :
                                       Forked(t.notifications[i]) /\ t.notifications[i].num <= num
        BY <2>3, <4>1 DEF Announced
      <4>2. CASE \E i \in DOMAIN notifications : Forked(notifications[i]) /\ notifications[i].num <= num
        <5>1. PICK i \in DOMAIN notifications : Forked(notifications[i]) /\ notifications[i].num <= num
          BY <4>2
        <5>2. i = 1 /\ ~ Traced(notifications[i])
          BY <1>6, <5>1 DEF Forked, Traced
        <5>3. i \in 1 .. k
          BY <1>8, <5>2
        <5>4. PICK p \in DOMAIN List(c) : List(c)[p] = notifications[i]
          BY <1>5, <5>2, <5>3
        <5>5. NewTask(c) \in tasks' /\ NewTask(c).no > no
          BY <1>6, <2>1, <2>2, <2>4, <5>4
        <5> QED
          BY <2>1, <5>1, <5>4, <5>5 DEF Announced
      <4> QED
        BY <3>1, <4>1, <4>2 DEF Announced
    <3>2. ASSUME Announced(c, no, num)'
          PROVE  Announced(c, no, num)
      <4>1. CASE \E t \in tasks' : /\ t.channel = c /\ t.no > no
                                   /\ \E i \in DOMAIN t.notifications :
                                        Forked(t.notifications[i]) /\ t.notifications[i].num <= num
        <5>1. PICK t \in tasks' : /\ t.channel = c /\ t.no > no
                                  /\ \E i \in DOMAIN t.notifications :
                                       Forked(t.notifications[i]) /\ t.notifications[i].num <= num
          BY <4>1
        <5>2. CASE t \in tasks
          BY <5>1, <5>2 DEF Announced
        <5>3. CASE t = NewTask(c)
          <6>1. PICK p \in DOMAIN List(c) : Forked(List(c)[p]) /\ List(c)[p].num <= num
            BY <2>1, <5>1, <5>3
          <6>2. PICK i \in 1 .. k : List(c)[p] = notifications[i]
            BY <1>4, <6>1
          <6> QED
            BY <1>1, <1>9, <6>1, <6>2 DEF Announced
        <5> QED
          BY <1>13, <2>1, <5>1, <5>2, <5>3
      <4>2. CASE \E i \in DOMAIN notifications' : Forked(notifications'[i]) /\ notifications'[i].num <= num
        BY <1>1, <1>9, <4>2 DEF Announced
      <4> QED
        BY <3>2, <4>1, <4>2 DEF Announced, Forked
    <3> QED
      BY <3>1, <3>2
  <2>5. ASSUME NEW c, NEW num, NEW no, no = sent + 1
        PROVE  ~ Announced(c, no, num)'
    <3>1. \A t \in tasks' : ~ (t.no > no)
      BY <1>6, <1>13, <2>1, <2>3, <2>5
    <3>2. \A i \in DOMAIN notifications' : ~ Forked(notifications'[i])
      BY <1>6, <1>9
    <3> QED
      BY <3>1, <3>2 DEF Announced, Forked
  <2>6. ASSUME ~ lost, NEW c \in Listened \ overtaken
        PROVE  ForksInv(c)' /\ Complete(c)'
    <3>1. ForksInv(c) /\ Complete(c)
      BY <1>2, <2>6 DEF FollowInv
    <3>2. \A n : OnBranch(n)' <=> OnBranch(n)
      BY <1>1 DEF OnBranch
    <3>3. \A e \in clients[c] : OnBranch(e)' <=> ~ Announced(c, 0, e.num)'
      <4> TAKE e \in clients[c]
      <4>1. OnBranch(e) <=> ~ Announced(c, 0, e.num)
        BY <3>1 DEF ForksInv
      <4>2. 0 \in Nat /\ 0 <= sent
        BY <1>6
      <4>3. Announced(c, 0, e.num)' <=> Announced(c, 0, e.num)
        BY <2>4, <4>2
      <4> QED
        BY <3>2, <4>1, <4>3
    <3>4. ASSUME NEW t \in tasks', t.channel = c, NEW i \in DOMAIN t.notifications, Traced(t.notifications[i])
          PROVE  OnBranch(t.notifications[i])' <=> ~ Announced(c, t.no, t.notifications[i].num)'
      <4> DEFINE n == t.notifications[i]
      <4>1. CASE t \in tasks
        <5>1. OnBranch(n) <=> ~ Announced(c, t.no, n.num)
          BY <3>1, <3>4, <4>1 DEF ForksInv
        <5>2. t.no \in Nat /\ t.no <= sent
          BY <2>3, <4>1
        <5> HIDE DEF n
        <5>3. Announced(c, t.no, n.num)' <=> Announced(c, t.no, n.num)
          BY <2>4, <5>2
        <5>4. OnBranch(n)' <=> ~ Announced(c, t.no, n.num)'
          BY <3>2, <5>1, <5>3
        <5> QED
          BY <5>4 DEF n
      <4>2. CASE t = NewTask(c)
        <5>1. OnBranch(n) /\ t.no = sent + 1
          BY <1>11, <2>1, <3>4, <4>2
        <5> HIDE DEF n
        <5>2. OnBranch(n)' /\ ~ Announced(c, t.no, n.num)'
          BY <2>5, <3>2, <5>1
        <5> QED
          BY <5>2 DEF n
      <4> QED
        BY <1>13, <2>1, <3>4, <4>1, <4>2
    <3>5. ASSUME NEW j, NEW tr, ChannelOf(tr) = c, Told(c, j, tr)
          PROVE  Told(c, j, tr)'
      <4> DEFINE About(n) == Traced(n) /\ n.num = j /\ n.block = committed[j].id /\ n.trace = tr
      <4>1. CASE \E e \in clients[c] : e.num = j /\ e.block = committed[j].id /\ e.trace = tr
        BY <1>1, <4>1 DEF Told
      <4>2. CASE \E t \in tasks : t.channel = c /\ \E i \in DOMAIN t.notifications : About(t.notifications[i])
        BY <1>1, <2>3, <4>2 DEF Told
      <4>3. CASE \E i \in DOMAIN notifications : About(notifications[i])
        <5>1. PICK i \in DOMAIN notifications : About(notifications[i])
          BY <4>3
        <5>2. CASE i \in 1 .. k
          <6>1. PICK p \in DOMAIN List(c) : List(c)[p] = notifications[i]
            BY <1>5, <3>5, <5>1, <5>2
          <6>2. NewTask(c) \in tasks'
            BY <2>1, <2>2, <6>1
          <6> QED
            BY <1>1, <2>1, <5>1, <6>1, <6>2 DEF Told
        <5>3. CASE i \notin 1 .. k
          <6>1. i - k \in 1 .. (Len(notifications) - k) /\ k + (i - k) = i
            BY <1>6, <1>8, <5>3
          <6>2. i - k \in DOMAIN notifications' /\ notifications'[i - k] = notifications[i]
            BY <1>3, <6>1
          <6> QED
            BY <1>1, <5>1, <6>2 DEF Told
        <5> QED
          BY <5>2, <5>3
      <4> QED
        BY <3>5, <4>1, <4>2, <4>3 DEF Told
    <3>6. ForksInv(c)'
      BY <1>1, <3>3, <3>4 DEF ForksInv
    <3>7. Complete(c)'
      BY <1>1, <3>1, <3>5 DEF Complete
    <3> QED
      BY <3>6, <3>7
  <2> QED
    BY <1>1, <2>6 DEF FollowInv
<1> QED
  BY <1>12, <1>14, <1>15, <1>16 DEF SocketsInv

-----------------------------------------------------------------------------
(* The steps of the listeners *)

LEMMA AnsweredIs ==
  ASSUME NEW t, NEW rows,
         t = [no |-> t.no, channel |-> t.channel, notifications |-> t.notifications, at |-> t.at, rows |-> t.rows]
  PROVE  [t EXCEPT !.at = "emit", !.rows = rows] =
           [no |-> t.no, channel |-> t.channel, notifications |-> t.notifications, at |-> "emit", rows |-> rows]
<1> DEFINE no == t.no
           channel == t.channel
           list == t.notifications
           at == t.at
           old == t.rows
<1>1. t = [no |-> no, channel |-> channel, notifications |-> list, at |-> at, rows |-> old]
  OBVIOUS
<1> HIDE DEF no, channel, list, at, old
<1>2. [t EXCEPT !.at = "emit", !.rows = rows] = [[t EXCEPT !.at = "emit"] EXCEPT !.rows = rows]
  BY <1>1
<1>3. [t EXCEPT !.at = "emit"] =
        [no |-> no, channel |-> channel, notifications |-> list, at |-> "emit", rows |-> old]
  BY <1>1
<1>4. [[no |-> no, channel |-> channel, notifications |-> list, at |-> "emit", rows |-> old] EXCEPT !.rows = rows] =
        [no |-> no, channel |-> channel, notifications |-> list, at |-> "emit", rows |-> rows]
  OBVIOUS
<1>5. [t EXCEPT !.at = "emit", !.rows = rows] =
        [no |-> no, channel |-> channel, notifications |-> list, at |-> "emit", rows |-> rows]
  BY <1>2, <1>3, <1>4, Zenon
<1> QED
  BY <1>5 DEF no, channel, list

LEMMA StepQueryRows ==
  ASSUME SocketsInv, NEW task \in tasks, QueryRows(task)
  PROVE  SocketsInv'
<1>1. ReaderInv /\ TasksInv /\ ClientsInv /\ FollowInv
  BY DEF SocketsInv
<1>2. /\ committed' = committed /\ pc' = pc /\ block' = block /\ notifications' = notifications
      /\ blocks' = blocks /\ sent' = sent /\ clients' = clients /\ overtaken' = overtaken /\ lost' = lost
  BY DEF QueryRows
<1> DEFINE rows == [i \in DOMAIN task.notifications |->
                      IF task.notifications[i].type = "trace" THEN RowOf(task.notifications[i].trace) ELSE {}]
           new == [task EXCEPT !.at = "emit", !.rows = rows]
<1>3. tasks' = (tasks \ {task}) \cup {new}
  BY DEF QueryRows
<1>4. TaskInv(task)
  BY <1>1 DEF TasksInv
<1>5. /\ new.no = task.no /\ new.channel = task.channel /\ new.notifications = task.notifications
      /\ new.at = "emit" /\ new.rows = rows
      /\ new = [no |-> new.no, channel |-> new.channel, notifications |-> new.notifications,
                at |-> new.at, rows |-> new.rows]
  <2> HIDE DEF rows
  <2>1. task = [no |-> task.no, channel |-> task.channel, notifications |-> task.notifications,
                at |-> task.at, rows |-> task.rows]
    BY <1>4 DEF TaskInv
  <2>2. new = [no |-> task.no, channel |-> task.channel, notifications |-> task.notifications,
               at |-> "emit", rows |-> rows]
    BY <2>1, AnsweredIs, Zenon
  <2> HIDE DEF new
  <2> QED
    BY <2>2
<1> HIDE DEF new
<1>6. PICK u : u = new
  OBVIOUS
<1>7. \A n : (Genuine(n)' <=> Genuine(n)) /\ (OnBranch(n)' <=> OnBranch(n))
  BY <1>2 DEF Genuine, OnBranch, Finished
<1>8. TaskInv(u)'
  <2>1. \A i \in DOMAIN task.notifications :
          LET n == task.notifications[i] IN
          Traced(n) /\ OnBranch(n) => n.trace \in rows[i]
    <3> SUFFICES ASSUME NEW i \in DOMAIN task.notifications,
                        Traced(task.notifications[i]), OnBranch(task.notifications[i])
                 PROVE  task.notifications[i].trace \in rows[i]
      OBVIOUS
    <3> DEFINE n == task.notifications[i]
    <3>1. Genuine(n)
      BY <1>4 DEF TaskInv
    <3>2. n.num \in DOMAIN committed /\ n.trace \in ToSet(committed[n.num].traces)
      BY <3>1 DEF Genuine, OnBranch
    <3>3. n.trace \in RowOf(n.trace)
      BY <3>2 DEF RowOf, TracesOf
    <3>4. rows[i] = RowOf(n.trace)
      BY DEF Traced
    <3> QED
      BY <3>3, <3>4
  <2> HIDE DEF rows
  <2> QED
    BY <1>2, <1>4, <1>5, <1>6, <1>7, <2>1 DEF TaskInv
<1>9. TasksInv'
  <2>1. ASSUME NEW t \in tasks
        PROVE  TaskInv(t)'
    <3>1. TaskInv(t)
      BY <1>1 DEF TasksInv
    <3> QED
      BY <1>2, <1>7, <3>1 DEF TaskInv
  <2>2. \A t \in tasks' : TaskInv(t)'
    BY <1>3, <1>6, <1>8, <2>1
  <2>3. ASSUME NEW t \in tasks', NEW v \in tasks', t.channel = v.channel, t.no = v.no
        PROVE  t = v
    BY <1>1, <1>3, <1>5, <2>3 DEF TasksInv
  <2> QED
    BY <2>2, <2>3 DEF TasksInv
<1>10. ReaderInv'
  BY <1>1, <1>2, Zenon DEF ReaderInv, Finished
<1>11. ClientsInv'
  BY <1>1, <1>2, <1>7 DEF ClientsInv
<1>12. FollowInv'
  <2>1. ASSUME NEW c, NEW no, NEW num
        PROVE  Announced(c, no, num)' <=> Announced(c, no, num)
    BY <1>2, <1>3, <1>5 DEF Announced
  <2>2. ASSUME NEW c, NEW k, NEW tr
        PROVE  Told(c, k, tr)' <=> Told(c, k, tr)
    BY <1>2, <1>3, <1>5 DEF Told
  <2>3. ASSUME NEW c, ForksInv(c)
        PROVE  ForksInv(c)'
    BY <1>2, <1>3, <1>5, <1>7, <2>1, <2>3 DEF ForksInv
  <2>4. ASSUME NEW c, Complete(c)
        PROVE  Complete(c)'
    BY <1>2, <2>2, <2>4 DEF Complete
  <2> QED
    BY <1>1, <1>2, <2>3, <2>4 DEF FollowInv
<1> QED
  BY <1>9, <1>10, <1>11, <1>12 DEF SocketsInv

LEMMA StepEmitEvents ==
  ASSUME SocketsInv, NEW task \in tasks, EmitEvents(task)
  PROVE  SocketsInv'
<1> DEFINE C == task.channel
           N == task.notifications
<1>1. ReaderInv /\ TasksInv /\ ClientsInv /\ FollowInv /\ TaskInv(task)
  BY DEF SocketsInv, TasksInv
<1>2. /\ committed' = committed /\ pc' = pc /\ block' = block /\ notifications' = notifications
      /\ blocks' = blocks /\ sent' = sent /\ lost' = lost
      /\ tasks' = tasks \ {task} /\ task.at = "emit"
      /\ overtaken' = overtaken \cup {t.channel : t \in {x \in tasks : x.channel = C /\ x.no < task.no}}
  BY DEF EmitEvents
<1>3. /\ N \in Seq(Notices) /\ DOMAIN N = 1 .. Len(N) /\ Len(N) \in Nat
      /\ \A i \in DOMAIN N : N[i] \in Notices
      /\ C \in Listened /\ task.no \in Nat \ {0}
      /\ \A i \in DOMAIN N :
           LET n == N[i] IN
           /\ Forked(n) => i = 1
           /\ Traced(n) =>
                /\ Genuine(n) /\ ChannelOf(n.trace) = C
                /\ \A j \in DOMAIN N : Traced(N[j]) => N[j].num = n.num /\ N[j].block = n.block
                /\ OnBranch(n) => n.trace \in task.rows[i]
  <2>1. N \in Seq(Notices)
    BY <1>1 DEF TaskInv
  <2>2. DOMAIN N = 1 .. Len(N) /\ Len(N) \in Nat /\ \A i \in DOMAIN N : N[i] \in Notices
    BY <2>1, ElementsAre
  <2> QED
    BY <1>1, <1>2, <2>1, <2>2, Zenon DEF TaskInv
<1>4. PICK last \in 0 .. Len(N) : \E known :
           /\ clients' = [clients EXCEPT ![C] = known]
           /\ last # Len(N) => last + 1 \in DOMAIN N /\ Throws(task, last + 1)
           /\ \A e : e \in known <=>
                \/ e \in clients[C] /\ Spared(N, 1, last, e.num)
                \/ \E i \in 1 .. last :
                     LET n == N[i]
                     IN  /\ Traced(n) /\ n.trace.name \in Emits
                         /\ e = RowEvent(n, task.rows[i]) /\ Spared(N, i + 1, last, e.num)
  BY <1>3, EmittedIs
<1>5. PICK known :
           /\ clients' = [clients EXCEPT ![C] = known]
           /\ last # Len(N) => last + 1 \in DOMAIN N /\ Throws(task, last + 1)
           /\ \A e : e \in known <=>
                \/ e \in clients[C] /\ Spared(N, 1, last, e.num)
                \/ \E i \in 1 .. last :
                     LET n == N[i]
                     IN  /\ Traced(n) /\ n.trace.name \in Emits
                         /\ e = RowEvent(n, task.rows[i]) /\ Spared(N, i + 1, last, e.num)
  BY <1>4
<1>6. last \in Nat /\ \A i \in 1 .. last : i \in DOMAIN N /\ i \in Nat /\ i # 0
  BY <1>3
<1>7. \A n : (Genuine(n)' <=> Genuine(n)) /\ (OnBranch(n)' <=> OnBranch(n))
  BY <1>2 DEF Genuine, OnBranch, Finished
<1>8. /\ clients' = [c \in Listened |-> IF c = C THEN known ELSE clients[c]]
      /\ clients'[C] = known /\ \A c \in Listened : c # C => clients'[c] = clients[c]
      /\ clients' = [c \in Listened |-> clients'[c]]
  <2>1. clients = [c \in Listened |-> clients[c]]
    BY <1>1 DEF ClientsInv
  <2>2. clients' = [clients EXCEPT ![C] = known]
    BY <1>5
  <2> QED
    BY <1>3, <2>1, <2>2
<1> HIDE DEF N, C
<1>9. \A n, row : LET e == RowEvent(n, row)
                  IN  e.num = n.num /\ e.block = n.block /\ e.trace = n.trace /\ e.row = row
  BY DEF RowEvent
<1>10. ReaderInv'
  BY <1>1, <1>2, Zenon DEF ReaderInv, Finished
<1>11. TasksInv'
  <2>1. ASSUME NEW t \in tasks
        PROVE  TaskInv(t)'
    <3>1. TaskInv(t)
      BY <1>1 DEF TasksInv
    <3> QED
      BY <1>2, <1>7, <3>1 DEF TaskInv
  <2> QED
    BY <1>1, <1>2, <2>1 DEF TasksInv
<1>12. ClientsInv'
  <2>1. ASSUME NEW e \in clients[C]
        PROVE  /\ Genuine(e) /\ ChannelOf(e.trace) = C /\ e.trace.name \in Emits
               /\ OnBranch(e) => e.trace \in e.row
    BY <1>1, <1>3 DEF ClientsInv
  <2>2. ASSUME NEW i \in 1 .. last, Traced(N[i]), N[i].trace.name \in Emits,
               NEW e, e = RowEvent(N[i], task.rows[i])
        PROVE  /\ Genuine(e) /\ ChannelOf(e.trace) = C /\ e.trace.name \in Emits
               /\ OnBranch(e) => e.trace \in e.row
    <3>1. Genuine(N[i]) /\ ChannelOf(N[i].trace) = C /\ (OnBranch(N[i]) => N[i].trace \in task.rows[i])
      BY <1>3, <1>6, <2>2
    <3> QED
      BY <1>9, <2>2, <3>1 DEF Genuine, OnBranch
  <2>3. \A e \in known : /\ Genuine(e) /\ ChannelOf(e.trace) = C /\ e.trace.name \in Emits
                         /\ OnBranch(e) => e.trace \in e.row
    BY <1>5, <2>1, <2>2
  <2>4. ASSUME NEW c \in Listened, NEW e \in clients'[c]
        PROVE  /\ Genuine(e) /\ ChannelOf(e.trace) = c /\ e.trace.name \in Emits
               /\ OnBranch(e) => e.trace \in e.row
    BY <1>1, <1>8, <2>3 DEF ClientsInv
  <2> QED
    BY <1>7, <1>8, <2>4 DEF ClientsInv
<1>13. FollowInv'
  <2>1. ASSUME ~ lost, NEW c \in Listened \ overtaken', c # C
        PROVE  ForksInv(c)' /\ Complete(c)'
    <3>1. ForksInv(c) /\ Complete(c)
      BY <1>1, <1>2, <2>1 DEF FollowInv
    <3>2. \A t : t.channel = c => (t \in tasks' <=> t \in tasks)
      BY <1>2, <2>1 DEF C
    <3>3. clients'[c] = clients[c]
      BY <1>8, <2>1
    <3>4. ASSUME NEW no, NEW num
          PROVE  Announced(c, no, num)' <=> Announced(c, no, num)
      BY <1>2, <3>2 DEF Announced
    <3>5. ASSUME NEW k, NEW tr
          PROVE  Told(c, k, tr)' <=> Told(c, k, tr)
      BY <1>2, <3>2, <3>3 DEF Told
    <3>6. ForksInv(c)'
      BY <1>7, <3>1, <3>2, <3>3, <3>4 DEF ForksInv
    <3>7. Complete(c)'
      BY <1>2, <3>1, <3>5 DEF Complete
    <3> QED
      BY <3>6, <3>7
  <2>2. ASSUME ~ lost, C \notin overtaken'
        PROVE  ForksInv(C)' /\ Complete(C)'
    <3>1. ForksInv(C) /\ Complete(C)
      BY <1>1, <1>2, <1>3, <2>2 DEF FollowInv
    <3>2. ASSUME NEW t \in tasks', t.channel = C
          PROVE  t \in tasks /\ t # task /\ t.no \in Nat /\ t.no > task.no
      <4>1. t \in tasks /\ t # task
        BY <1>2
      <4>2. t.no \in Nat /\ t.no # task.no
        BY <1>1, <3>2, <4>1 DEF TasksInv, TaskInv, C
      <4>3. ~ (t.no < task.no)
        BY <1>2, <2>2, <3>2, <4>1
      <4> QED
        BY <1>3, <4>1, <4>2, <4>3
    <3> DEFINE TakesBack(num) == \E i \in DOMAIN N : Forked(N[i]) /\ N[i].num <= num
    <3>3. ASSUME NEW no \in Nat, NEW num, task.no <= no
          PROVE  Announced(C, no, num)' <=> Announced(C, no, num)
      <4>1. \A t \in tasks : t.channel = C /\ t.no > no => t \in tasks'
        BY <1>2, <1>3, <3>3
      <4> QED
        BY <1>2, <4>1 DEF Announced
    <3>4. ASSUME NEW num
          PROVE  /\ Announced(C, 0, num)' <=> Announced(C, task.no, num)
                 /\ Announced(C, 0, num) <=> Announced(C, task.no, num) \/ TakesBack(num)
      <4>1. \A t \in tasks : t.channel = C =>
              /\ t.no \in Nat /\ t.no > 0
              /\ t \in tasks' <=> t # task
              /\ t.no > task.no <=> t # task
        <5> TAKE t \in tasks
        <5>1. t.no \in Nat \ {0}
          BY <1>1 DEF TasksInv, TaskInv
        <5>2. t \in tasks' <=> t # task
          BY <1>2
        <5> QED
          BY <1>3, <3>2, <5>1, <5>2
      <4>2. \A t \in tasks' : t \in tasks
        BY <1>2
      <4>3. task.channel = C /\ task.notifications = N
        BY DEF C, N
      <4> DEFINE Notifies(t) == \E i \in DOMAIN t.notifications :
                              Forked(t.notifications[i]) /\ t.notifications[i].num <= num
                 Pending == pc = "publish" /\ \E i \in DOMAIN notifications :
                              Forked(notifications[i]) /\ notifications[i].num <= num
      <4>4. Announced(C, 0, num)' <=> (\E t \in tasks' : t.channel = C /\ t.no > 0 /\ Notifies(t)) \/ Pending
        BY <1>2 DEF Announced
      <4>5. Announced(C, 0, num) <=> (\E t \in tasks : t.channel = C /\ t.no > 0 /\ Notifies(t)) \/ Pending
        BY DEF Announced
      <4>6. Announced(C, task.no, num) <=> (\E t \in tasks : t.channel = C /\ t.no > task.no /\ Notifies(t)) \/ Pending
        BY DEF Announced
      <4>7. TakesBack(num) <=> Notifies(task)
        BY <4>3
      <4> HIDE DEF Notifies, Pending, TakesBack
      <4>8. Announced(C, 0, num)' <=> Announced(C, task.no, num)
        BY <4>1, <4>2, <4>4, <4>6
      <4>9. Announced(C, 0, num) <=> Announced(C, task.no, num) \/ TakesBack(num)
        BY <4>1, <4>3, <4>5, <4>6, <4>7
      <4> QED
        BY <4>8, <4>9
    <3>5. ASSUME NEW num \in Nat
          PROVE  Spared(N, 1, last, num) <=> ~ TakesBack(num)
      <4>1. \A i \in DOMAIN N : Forked(N[i]) => i \in 1 .. last
        <5> SUFFICES ASSUME NEW i \in DOMAIN N, Forked(N[i])
                     PROVE  i \in 1 .. last
          OBVIOUS
        <5>1. i = 1 /\ ~ Traced(N[i]) /\ Len(N) # 0
          BY <1>3 DEF Forked, Traced
        <5>2. last # 0
          <6> SUFFICES ASSUME last = 0
                       PROVE  FALSE
            OBVIOUS
          <6>1. Throws(task, 0 + 1)
            BY <1>5, <5>1
          <6>2. 0 + 1 = 1
            OBVIOUS
          <6>3. Throws(task, 1)
            BY <6>1, <6>2, Zenon
          <6> QED
            BY <5>1, <6>3 DEF Throws, Traced, N
        <5> QED
          BY <1>6, <5>1, <5>2
      <4>2. \A i \in 1 .. last : i \in DOMAIN N /\ N[i].num \in Nat
        BY <1>3, <1>6 DEF Notices
      <4>3. \A i \in DOMAIN N : N[i].num \in Nat
        BY <1>3 DEF Notices
      <4> QED
        BY <4>1, <4>2, <4>3 DEF Spared
    <3>6. ASSUME NEW i \in 1 .. last, NEW num
          PROVE  Spared(N, i + 1, last, num)
      <4>1. \A j \in i + 1 .. last : j \in DOMAIN N /\ j # 1
        BY <1>6
      <4> QED
        BY <1>3, <4>1 DEF Spared
    <3> HIDE DEF TakesBack
    <3>7. \A e \in clients'[C] : OnBranch(e)' <=> ~ Announced(C, 0, e.num)'
      <4> SUFFICES ASSUME NEW e, e \in known
                   PROVE  OnBranch(e) <=> ~ Announced(C, task.no, e.num)
        BY <1>7, <1>8, <3>4
      <4>1. CASE e \in clients[C] /\ Spared(N, 1, last, e.num)
        <5>1. e.num \in Nat
          BY <1>1, <1>3, <4>1 DEF ClientsInv, Genuine
        <5>2. ~ TakesBack(e.num)
          BY <3>5, <4>1, <5>1
        <5>3. OnBranch(e) <=> ~ Announced(C, 0, e.num)
          BY <3>1, <4>1 DEF ForksInv
        <5> QED
          BY <3>4, <5>2, <5>3
      <4>2. CASE \E i \in 1 .. last : Traced(N[i]) /\ e = RowEvent(N[i], task.rows[i])
        <5>1. PICK i \in 1 .. last : Traced(N[i]) /\ e = RowEvent(N[i], task.rows[i])
          BY <4>2
        <5>2. i \in DOMAIN N
          BY <1>6
        <5>3. OnBranch(N[i]) <=> ~ Announced(C, task.no, N[i].num)
          BY <3>1, <5>1, <5>2 DEF ForksInv, C, N
        <5>4. e.num = N[i].num /\ e.block = N[i].block
          BY <1>9, <5>1
        <5> QED
          BY <5>3, <5>4 DEF OnBranch
      <4> QED
        BY <1>5, <4>1, <4>2
    <3>8. ASSUME NEW t \in tasks', t.channel = C, NEW i \in DOMAIN t.notifications, Traced(t.notifications[i])
          PROVE  OnBranch(t.notifications[i])' <=> ~ Announced(C, t.no, t.notifications[i].num)'
      <4>1. t \in tasks /\ t.no \in Nat /\ task.no <= t.no
        BY <1>3, <3>2, <3>8
      <4> DEFINE n == t.notifications[i]
      <4>2. OnBranch(n) <=> ~ Announced(C, t.no, n.num)
        BY <3>1, <3>8, <4>1 DEF ForksInv
      <4> HIDE DEF n
      <4>3. Announced(C, t.no, n.num)' <=> Announced(C, t.no, n.num)
        BY <3>3, <4>1
      <4>4. OnBranch(n)' <=> ~ Announced(C, t.no, n.num)'
        BY <1>7, <4>2, <4>3
      <4> QED
        BY <4>4 DEF n
    <3>9. ASSUME NEW k \in DOMAIN committed, NEW tr, ChannelOf(tr) = C, tr.name \in Emits, Told(C, k, tr)
          PROVE  Told(C, k, tr)'
      <4> DEFINE About(n) == Traced(n) /\ n.num = k /\ n.block = committed[k].id /\ n.trace = tr
      <4>1. CASE \E e \in clients[C] : e.num = k /\ e.block = committed[k].id /\ e.trace = tr
        <5>1. PICK e \in clients[C] : e.num = k /\ e.block = committed[k].id /\ e.trace = tr
          BY <4>1
        <5>2. OnBranch(e) /\ e.num \in Nat
          BY <1>1, <1>3, <5>1 DEF OnBranch, ClientsInv, Genuine
        <5>3. ~ Announced(C, 0, e.num)
          BY <3>1, <5>2 DEF ForksInv
        <5>4. Spared(N, 1, last, e.num)
          BY <3>4, <3>5, <5>2, <5>3
        <5>5. e \in clients'[C]
          BY <1>5, <1>8, <5>4
        <5> QED
          BY <1>2, <5>1, <5>5 DEF Told
      <4>2. CASE \E t \in tasks : t # task /\ t.channel = C /\ \E i \in DOMAIN t.notifications : About(t.notifications[i])
        <5>1. \A t \in tasks : t # task => t \in tasks'
          BY <1>2
        <5> QED
          BY <1>2, <4>2, <5>1 DEF Told
      <4>3. CASE \E i \in DOMAIN N : About(N[i])
        <5>1. PICK i \in DOMAIN N : About(N[i])
          BY <4>3
        <5>2. OnBranch(N[i])
          BY <5>1 DEF OnBranch
        <5>3. i \in 1 .. last
          <6> SUFFICES ASSUME i \notin 1 .. last
                       PROVE  FALSE
            OBVIOUS
          <6>1. last # Len(N)
            BY <1>3, <1>6
          <6> DEFINE j == last + 1
          <6>2. j \in DOMAIN N /\ Throws(task, j)
            BY <1>5, <6>1
          <6> HIDE DEF j
          <6>3. Traced(N[j]) /\ task.rows[j] = {}
            BY <6>2 DEF Throws, Traced, N
          <6>4. N[j].num = N[i].num /\ N[j].block = N[i].block
            BY <1>3, <5>1, <6>2, <6>3
          <6>5. OnBranch(N[j])
            BY <5>2, <6>4 DEF OnBranch
          <6>6. N[j].trace \in task.rows[j]
            BY <1>3, <6>2, <6>3, <6>5
          <6> QED
            BY <6>3, <6>6
        <5> DEFINE e == RowEvent(N[i], task.rows[i])
        <5>4. e.num = N[i].num /\ e.block = N[i].block /\ e.trace = N[i].trace
          BY <1>9
        <5>5. e = RowEvent(N[i], task.rows[i])
          OBVIOUS
        <5> HIDE DEF e
        <5>6. Spared(N, i + 1, last, e.num)
          BY <3>6, <5>3
        <5>7. e \in clients'[C]
          BY <1>5, <1>8, <3>9, <5>1, <5>3, <5>5, <5>6
        <5> QED
          BY <1>2, <5>1, <5>4, <5>7 DEF Told
      <4>4. CASE pc = "publish" /\ \E i \in DOMAIN notifications : About(notifications[i])
        BY <1>2, <4>4 DEF Told
      <4>5. Told(C, k, tr) =>
              \/ \E e \in clients[C] : e.num = k /\ e.block = committed[k].id /\ e.trace = tr
              \/ \E t \in tasks : t.channel = C /\ \E i \in DOMAIN t.notifications : About(t.notifications[i])
              \/ pc = "publish" /\ \E i \in DOMAIN notifications : About(notifications[i])
        BY DEF Told
      <4>6. (\E i \in DOMAIN task.notifications : About(task.notifications[i])) => \E i \in DOMAIN N : About(N[i])
        BY DEF N
      <4> HIDE DEF About
      <4> QED
        BY <3>9, <4>1, <4>2, <4>3, <4>4, <4>5, <4>6
    <3>10. ForksInv(C)'
      BY <3>7, <3>8 DEF ForksInv, C
    <3>11. Complete(C)'
      <4>1. \A k \in DOMAIN committed : \A tr \in ToSet(committed[k].traces) :
              ChannelOf(tr) = C /\ tr.name \in Emits => Told(C, k, tr)'
        BY <3>1, <3>9 DEF Complete
      <4> QED
        BY <1>2, <4>1 DEF Complete, C
    <3> QED
      BY <3>10, <3>11
  <2> QED
    BY <1>2, <1>3, <2>1, <2>2 DEF FollowInv
<1> QED
  BY <1>10, <1>11, <1>12, <1>13 DEF SocketsInv

-----------------------------------------------------------------------------
(* What the invariant says of the events *)

Numbered(no, i, n) == [no |-> no, at |-> i, notice |-> n]

LEMMA WayIs ==
  ASSUME NEW c, NEW x
  PROVE  x \in OnItsWay(c) <=>
           \/ \E t \in tasks : t.channel = c /\ \E i \in DOMAIN t.notifications : x = Numbered(t.no, i, t.notifications[i])
           \/ /\ pc = "publish"
              /\ \E i \in DOMAIN Filtered(notifications, c) :
                   x = Numbered(sent + 1, i, Filtered(notifications, c)[i])
<1> DEFINE unanswered == UNION {{[no |-> t.no, at |-> i, notice |-> t.notifications[i]] : i \in DOMAIN t.notifications} :
                                  t \in {u \in tasks : u.channel = c}}
           unsent == IF pc = "publish"
                     THEN {[no |-> sent + 1, at |-> i, notice |-> Filtered(notifications, c)[i]] :
                             i \in DOMAIN Filtered(notifications, c)}
                     ELSE {}
<1>1. x \in unsent <=> /\ pc = "publish"
                       /\ \E i \in DOMAIN Filtered(notifications, c) :
                            x = Numbered(sent + 1, i, Filtered(notifications, c)[i])
  BY DEF Numbered
<1>2. x \in unanswered <=>
        \E t \in tasks : t.channel = c /\ \E i \in DOMAIN t.notifications : x = Numbered(t.no, i, t.notifications[i])
  BY DEF Numbered
<1>3. OnItsWay(c) = unanswered \cup unsent
  BY DEF OnItsWay
<1> HIDE DEF unanswered, unsent
<1> QED
  BY <1>1, <1>2, <1>3

(* What a listener will be given of the notifications still to be sent. *)
LEMMA ToBeSentIs ==
  ASSUME ReaderInv, pc = "publish", NEW c
  PROVE  LET list == Filtered(notifications, c) IN
         /\ \A p \in DOMAIN list :
              /\ p \in Nat \ {0}
              /\ \E i \in DOMAIN notifications : list[p] = notifications[i]
              /\ Forked(list[p]) => p = 1
              /\ Traced(list[p]) => OnBranch(list[p]) /\ Genuine(list[p]) /\ ChannelOf(list[p].trace) = c
         /\ \A i \in DOMAIN notifications :
              (Traced(notifications[i]) => ChannelOf(notifications[i].trace) = c)
                => \E p \in DOMAIN list : list[p] = notifications[i]
<1> DEFINE list == Filtered(notifications, c)
           kept == Kept(notifications, c)
           Place(i) == PlaceIn(kept, i)
<1>1. /\ notifications \in Seq(Notices) /\ blocks \in Nat /\ block.id = blocks
      /\ block.num \in DOMAIN committed
      /\ committed[block.num] = [id |-> block.id, traces |-> block.traces]
      /\ \A i \in DOMAIN notifications :
           LET n == notifications[i] IN
           /\ n.num = block.num
           /\ Traced(n) => n.block = block.id /\ n.trace \in ToSet(block.traces)
           /\ Forked(n) => i = 1
  BY DEF ReaderInv
<1>2. /\ list \in Seq(Notices) /\ DOMAIN list = 1 .. Len(list)
      /\ \A p \in DOMAIN list : \E i \in kept : list[p] = notifications[i] /\ Place(i) = p
      /\ \A i \in kept : \E p \in DOMAIN list : list[p] = notifications[i] /\ Place(i) = p
      /\ \A i \in kept : i = 1 => Place(i) = 1
  BY <1>1, FilteredIs
<1> HIDE DEF list, Place
<1>3. \A i : i \in kept <=> /\ i \in DOMAIN notifications
                            /\ Traced(notifications[i]) => ChannelOf(notifications[i].trace) = c
  BY DEF Kept, Traced
<1> HIDE DEF kept
<1>4. block.num \in Nat \ {0}
  <2>1. Len(committed) \in Nat /\ block.num \in 1 .. Len(committed) + 1
    BY DEF ReaderInv
  <2> QED
    BY <2>1
<1>5. Finished = blocks
  BY DEF Finished
<1>6. ASSUME NEW p \in DOMAIN list
      PROVE  /\ p \in Nat \ {0}
             /\ \E i \in DOMAIN notifications : list[p] = notifications[i]
             /\ Forked(list[p]) => p = 1
             /\ Traced(list[p]) => OnBranch(list[p]) /\ Genuine(list[p]) /\ ChannelOf(list[p].trace) = c
  <2>1. PICK i \in kept : list[p] = notifications[i] /\ Place(i) = p
    BY <1>2
  <2>2. i \in DOMAIN notifications /\ (Traced(notifications[i]) => ChannelOf(notifications[i].trace) = c)
    BY <1>3
  <2>3. Forked(list[p]) => p = 1
    BY <1>1, <1>2, <2>1, <2>2
  <2>4. Traced(list[p]) => OnBranch(list[p]) /\ Genuine(list[p])
    BY <1>1, <1>4, <1>5, <2>1, <2>2 DEF OnBranch, Genuine
  <2>5. p \in Nat \ {0}
    BY <1>2
  <2> QED
    BY <2>1, <2>2, <2>3, <2>4, <2>5
<1>7. \A i \in DOMAIN notifications :
        (Traced(notifications[i]) => ChannelOf(notifications[i].trace) = c)
          => \E p \in DOMAIN list : list[p] = notifications[i]
  BY <1>2, <1>3
<1> QED
  BY <1>6, <1>7 DEF list

LEMMA ClientsAreTold ==
  ASSUME SocketsInv
  PROVE  ClientsFollow
<1> SUFFICES ASSUME ~ lost, NEW c \in Listened \ overtaken
             PROVE  LET way  == OnItsWay(c)
                        kept == {e \in clients[c] : ~ TakenBack(e.num, way)}
                        come == {x \in way : /\ x.notice.type = "trace" /\ x.notice.trace.name \in Emits
                                             /\ ~ TakenBack(x.notice.num, {y \in way : Later(x, y)})}
                    IN  {EventOf(e) : e \in kept} \cup {EventOf(x.notice) : x \in come} = EventsOf(c)
  BY DEF ClientsFollow
<1> DEFINE way == OnItsWay(c)
           F == Filtered(notifications, c)
           FromTask(x, t, i) == t.channel = c /\ i \in DOMAIN t.notifications /\ x = Numbered(t.no, i, t.notifications[i])
           FromReader(x, i) == pc = "publish" /\ i \in DOMAIN F /\ x = Numbered(sent + 1, i, F[i])
<1>1. ReaderInv /\ TasksInv /\ ClientsInv /\ ForksInv(c) /\ Complete(c) /\ sent \in Nat /\ c \in Listened
  BY DEF SocketsInv, FollowInv, ReaderInv
<1>2. \A x : x \in way <=> (\E t \in tasks : \E i : FromTask(x, t, i)) \/ \E i : FromReader(x, i)
  BY WayIs
<1>3. \A no, i, n : LET x == Numbered(no, i, n) IN x.no = no /\ x.at = i /\ x.notice = n
  BY DEF Numbered
<1>4. ASSUME NEW t \in tasks
      PROVE  /\ t.no \in Nat \ {0} /\ t.no <= sent
             /\ \A i \in DOMAIN t.notifications :
                  LET n == t.notifications[i] IN
                  /\ i \in Nat \ {0}
                  /\ Forked(n) => i = 1
                  /\ Traced(n) => Genuine(n) /\ ChannelOf(n.trace) = t.channel
  <2>1. TaskInv(t)
    BY <1>1 DEF TasksInv
  <2>2. DOMAIN t.notifications = 1 .. Len(t.notifications) /\ Len(t.notifications) \in Nat
    BY <2>1, ElementsAre DEF TaskInv
  <2> QED
    BY <2>1, <2>2 DEF TaskInv
<1>5. ASSUME pc = "publish"
      PROVE  /\ \A p \in DOMAIN F :
                  /\ p \in Nat \ {0}
                  /\ \E i \in DOMAIN notifications : F[p] = notifications[i]
                  /\ Forked(F[p]) => p = 1
                  /\ Traced(F[p]) => OnBranch(F[p]) /\ Genuine(F[p]) /\ ChannelOf(F[p].trace) = c
             /\ \A i \in DOMAIN notifications :
                  (Traced(notifications[i]) => ChannelOf(notifications[i].trace) = c)
                    => \E p \in DOMAIN F : F[p] = notifications[i]
  BY <1>1, <1>5, ToBeSentIs
<1> HIDE DEF way, F, FromTask, FromReader
<1>6. \A n : Forked(n) => ~ Traced(n)
  BY DEF Forked, Traced
<1>7. ASSUME NEW num
      PROVE  TakenBack(num, way) <=> Announced(c, 0, num)
  <2>1. ASSUME NEW y \in way, Forked(y.notice), y.notice.num <= num
        PROVE  Announced(c, 0, num)
    <3>1. CASE \E t \in tasks : \E i : FromTask(y, t, i)
      <4>1. PICK t \in tasks : \E i : FromTask(y, t, i)
        BY <3>1
      <4>2. PICK i : FromTask(y, t, i)
        BY <4>1
      <4>3. t.channel = c /\ i \in DOMAIN t.notifications /\ y.notice = t.notifications[i]
        BY <1>3, <4>2 DEF FromTask
      <4>4. t.no > 0
        BY <1>4
      <4> QED
        BY <2>1, <4>3, <4>4 DEF Announced
    <3>2. CASE \E i : FromReader(y, i)
      <4>1. PICK p : FromReader(y, p)
        BY <3>2
      <4>2. pc = "publish" /\ p \in DOMAIN F /\ y.notice = F[p]
        BY <1>3, <4>1 DEF FromReader
      <4>3. PICK i \in DOMAIN notifications : F[p] = notifications[i]
        BY <1>5, <4>2
      <4> QED
        BY <2>1, <4>2, <4>3 DEF Announced
    <3> QED
      BY <1>2, <3>1, <3>2
  <2>2. ASSUME Announced(c, 0, num)
        PROVE  \E y \in way : Forked(y.notice) /\ y.notice.num <= num
    <3>1. CASE \E t \in tasks : /\ t.channel = c
                                /\ \E i \in DOMAIN t.notifications :
                                     Forked(t.notifications[i]) /\ t.notifications[i].num <= num
      <4>1. PICK t \in tasks : /\ t.channel = c
                               /\ \E i \in DOMAIN t.notifications :
                                    Forked(t.notifications[i]) /\ t.notifications[i].num <= num
        BY <3>1
      <4>2. PICK i \in DOMAIN t.notifications : Forked(t.notifications[i]) /\ t.notifications[i].num <= num
        BY <4>1
      <4>3. FromTask(Numbered(t.no, i, t.notifications[i]), t, i)
        BY <4>1, <4>2 DEF FromTask
      <4> QED
        BY <1>2, <1>3, <4>2, <4>3
    <3>2. CASE pc = "publish" /\ \E i \in DOMAIN notifications : Forked(notifications[i]) /\ notifications[i].num <= num
      <4>1. PICK i \in DOMAIN notifications : Forked(notifications[i]) /\ notifications[i].num <= num
        BY <3>2
      <4>2. PICK p \in DOMAIN F : F[p] = notifications[i]
        BY <1>5, <1>6, <3>2, <4>1
      <4>3. FromReader(Numbered(sent + 1, p, F[p]), p)
        BY <3>2, <4>2 DEF FromReader
      <4> QED
        BY <1>2, <1>3, <4>1, <4>2, <4>3
    <3> QED
      BY <2>2, <3>1, <3>2 DEF Announced
  <2> QED
    BY <2>1, <2>2 DEF TakenBack, Forked
<1> DEFINE after(x) == {y \in way : Later(x, y)}
<1>8. ASSUME NEW x, NEW t \in tasks, NEW i, FromTask(x, t, i), Traced(x.notice), NEW num
      PROVE  TakenBack(num, after(x)) <=> Announced(c, t.no, num)
  <2>1. x.no = t.no /\ x.at = i /\ i \in Nat \ {0} /\ t.no \in Nat \ {0} /\ t.no <= sent /\ t.channel = c
    BY <1>3, <1>4, <1>8 DEF FromTask
  <2>2. ASSUME NEW y \in way, Later(x, y), Forked(y.notice), y.notice.num <= num
        PROVE  Announced(c, t.no, num)
    <3>1. CASE \E u \in tasks : \E j : FromTask(y, u, j)
      <4>1. PICK u \in tasks : \E j : FromTask(y, u, j)
        BY <3>1
      <4>2. PICK j : FromTask(y, u, j)
        BY <4>1
      <4>3. /\ u.channel = c /\ j \in DOMAIN u.notifications /\ y.notice = u.notifications[j]
            /\ y.no = u.no /\ y.at = j /\ j = 1
        BY <1>3, <1>4, <2>2, <4>2 DEF FromTask
      <4>4. u.no > t.no
        BY <2>1, <2>2, <4>3 DEF Later
      <4> QED
        BY <2>2, <4>3, <4>4 DEF Announced
    <3>2. CASE \E j : FromReader(y, j)
      <4>1. PICK p : FromReader(y, p)
        BY <3>2
      <4>2. pc = "publish" /\ p \in DOMAIN F /\ y.notice = F[p]
        BY <1>3, <4>1 DEF FromReader
      <4>3. PICK j \in DOMAIN notifications : F[p] = notifications[j]
        BY <1>5, <4>2
      <4> QED
        BY <2>2, <4>2, <4>3 DEF Announced
    <3> QED
      BY <1>2, <3>1, <3>2
  <2>3. ASSUME Announced(c, t.no, num)
        PROVE  \E y \in way : Later(x, y) /\ Forked(y.notice) /\ y.notice.num <= num
    <3>1. CASE \E u \in tasks : /\ u.channel = c /\ u.no > t.no
                                /\ \E j \in DOMAIN u.notifications :
                                     Forked(u.notifications[j]) /\ u.notifications[j].num <= num
      <4>1. PICK u \in tasks : /\ u.channel = c /\ u.no > t.no
                               /\ \E j \in DOMAIN u.notifications :
                                    Forked(u.notifications[j]) /\ u.notifications[j].num <= num
        BY <3>1
      <4>2. PICK j \in DOMAIN u.notifications : Forked(u.notifications[j]) /\ u.notifications[j].num <= num
        BY <4>1
      <4> DEFINE y == Numbered(u.no, j, u.notifications[j])
      <4>3. y.no = u.no /\ y.notice = u.notifications[j]
        BY <1>3
      <4>4. FromTask(y, u, j)
        BY <4>1, <4>2 DEF FromTask
      <4> HIDE DEF y
      <4>5. y \in way /\ Later(x, y)
        BY <1>2, <2>1, <4>1, <4>3, <4>4 DEF Later
      <4> QED
        BY <4>2, <4>3, <4>5
    <3>2. CASE pc = "publish" /\ \E j \in DOMAIN notifications : Forked(notifications[j]) /\ notifications[j].num <= num
      <4>1. PICK j \in DOMAIN notifications : Forked(notifications[j]) /\ notifications[j].num <= num
        BY <3>2
      <4>2. PICK p \in DOMAIN F : F[p] = notifications[j]
        BY <1>5, <1>6, <3>2, <4>1
      <4> DEFINE y == Numbered(sent + 1, p, F[p])
      <4>3. y.no = sent + 1 /\ y.notice = F[p]
        BY <1>3
      <4>4. FromReader(y, p)
        BY <3>2, <4>2 DEF FromReader
      <4> HIDE DEF y
      <4>5. y \in way /\ Later(x, y)
        BY <1>1, <1>2, <2>1, <4>3, <4>4 DEF Later
      <4> QED
        BY <4>1, <4>2, <4>3, <4>5
    <3> QED
      BY <2>3, <3>1, <3>2 DEF Announced
  <2> QED
    BY <2>2, <2>3 DEF TakenBack, Forked
<1>9. ASSUME NEW x, NEW i, FromReader(x, i), Traced(x.notice), NEW num
      PROVE  ~ TakenBack(num, after(x))
  <2>1. pc = "publish" /\ x.no = sent + 1 /\ x.at = i /\ i \in DOMAIN F /\ i \in Nat \ {0}
    BY <1>3, <1>5, <1>9 DEF FromReader
  <2>2. ASSUME NEW y \in way, Later(x, y), Forked(y.notice)
        PROVE  FALSE
    <3>1. CASE \E u \in tasks : \E j : FromTask(y, u, j)
      <4>1. PICK u \in tasks : \E j : FromTask(y, u, j)
        BY <3>1
      <4>2. y.no = u.no /\ u.no \in Nat /\ u.no <= sent
        BY <1>3, <1>4, <4>1 DEF FromTask
      <4> QED
        BY <1>1, <2>1, <2>2, <4>2 DEF Later
    <3>2. CASE \E j : FromReader(y, j)
      <4>1. PICK p : FromReader(y, p)
        BY <3>2
      <4>2. y.no = sent + 1 /\ y.at = p /\ p \in DOMAIN F /\ y.notice = F[p]
        BY <1>3, <4>1 DEF FromReader
      <4>3. p = 1
        BY <1>5, <2>1, <2>2, <4>2
      <4> QED
        BY <1>1, <2>1, <2>2, <4>2, <4>3 DEF Later
    <3> QED
      BY <1>2, <3>1, <3>2
  <2> QED
    BY <2>2 DEF TakenBack, Forked
<1>10. ASSUME NEW x \in way, Traced(x.notice)
       PROVE  /\ ~ TakenBack(x.notice.num, after(x)) <=> OnBranch(x.notice)
              /\ Genuine(x.notice) /\ ChannelOf(x.notice.trace) = c
  <2>1. CASE \E t \in tasks : \E i : FromTask(x, t, i)
    <3>1. PICK t \in tasks : \E i : FromTask(x, t, i)
      BY <2>1
    <3>2. PICK i : FromTask(x, t, i)
      BY <3>1
    <3>3. t.channel = c /\ i \in DOMAIN t.notifications /\ x.notice = t.notifications[i]
      BY <1>3, <3>2 DEF FromTask
    <3>4. OnBranch(x.notice) <=> ~ Announced(c, t.no, x.notice.num)
      BY <1>1, <1>10, <3>3 DEF ForksInv
    <3>5. TakenBack(x.notice.num, after(x)) <=> Announced(c, t.no, x.notice.num)
      BY <1>8, <1>10, <3>2
    <3> HIDE DEF after
    <3> QED
      BY <1>4, <1>10, <3>3, <3>4, <3>5
  <2>2. CASE \E i : FromReader(x, i)
    <3>1. PICK i : FromReader(x, i)
      BY <2>2
    <3>2. pc = "publish" /\ i \in DOMAIN F /\ x.notice = F[i]
      BY <1>3, <3>1 DEF FromReader
    <3>3. ~ TakenBack(x.notice.num, after(x))
      BY <1>9, <1>10, <3>1
    <3> HIDE DEF after
    <3> QED
      BY <1>5, <1>10, <3>2, <3>3
  <2> QED
    BY <1>2, <2>1, <2>2
<1> DEFINE kept == {e \in clients[c] : ~ TakenBack(e.num, way)}
           come == {x \in way : /\ x.notice.type = "trace" /\ x.notice.trace.name \in Emits
                                /\ ~ TakenBack(x.notice.num, after(x))}
<1> HIDE DEF after
<1>11. \A e : e \in kept <=> e \in clients[c] /\ OnBranch(e)
  BY <1>1, <1>7 DEF ForksInv
<1>12. \A x : x \in come <=> /\ x \in way /\ Traced(x.notice) /\ x.notice.trace.name \in Emits
                             /\ OnBranch(x.notice)
  BY <1>10 DEF Traced
<1> HIDE DEF kept, come
<1>13. \A ev : ev \in EventsOf(c) <=>
         \E k \in DOMAIN committed : \E tr \in ToSet(committed[k].traces) :
           /\ ChannelOf(tr) = c /\ tr.name \in Emits
           /\ ev = [num |-> k, block |-> committed[k].id, trace |-> tr]
  BY DEF EventsOf
<1>14. ASSUME NEW n, Genuine(n), OnBranch(n), ChannelOf(n.trace) = c, n.trace.name \in Emits
       PROVE  EventOf(n) \in EventsOf(c)
  BY <1>13, <1>14 DEF Genuine, OnBranch, EventOf
<1>15. \A e \in kept : EventOf(e) \in EventsOf(c)
  BY <1>1, <1>11, <1>14 DEF ClientsInv
<1>16. \A x \in come : EventOf(x.notice) \in EventsOf(c)
  BY <1>10, <1>12, <1>14
<1>17. ASSUME NEW ev \in EventsOf(c)
       PROVE  (\E e \in kept : ev = EventOf(e)) \/ \E x \in come : ev = EventOf(x.notice)
  <2>1. PICK k \in DOMAIN committed : \E tr \in ToSet(committed[k].traces) :
          /\ ChannelOf(tr) = c /\ tr.name \in Emits
          /\ ev = [num |-> k, block |-> committed[k].id, trace |-> tr]
    BY <1>13
  <2>2. PICK tr \in ToSet(committed[k].traces) :
          /\ ChannelOf(tr) = c /\ tr.name \in Emits
          /\ ev = [num |-> k, block |-> committed[k].id, trace |-> tr]
    BY <2>1
  <2> DEFINE About(n) == Traced(n) /\ n.num = k /\ n.block = committed[k].id /\ n.trace = tr
  <2>3. \A n : n.num = k /\ n.block = committed[k].id /\ n.trace = tr => OnBranch(n) /\ ev = EventOf(n)
    BY <2>2 DEF OnBranch, EventOf
  <2>4. Told(c, k, tr)
    BY <1>1, <2>2 DEF Complete
  <2>5. CASE \E e \in clients[c] : e.num = k /\ e.block = committed[k].id /\ e.trace = tr
    BY <1>11, <2>3, <2>5
  <2>6. CASE \E t \in tasks : t.channel = c /\ \E i \in DOMAIN t.notifications : About(t.notifications[i])
    <3>1. PICK t \in tasks : t.channel = c /\ \E i \in DOMAIN t.notifications : About(t.notifications[i])
      BY <2>6
    <3>2. PICK i \in DOMAIN t.notifications : About(t.notifications[i])
      BY <3>1
    <3> DEFINE x == Numbered(t.no, i, t.notifications[i])
    <3>3. FromTask(x, t, i) /\ x.notice = t.notifications[i]
      BY <1>3, <3>1 DEF FromTask
    <3> HIDE DEF x
    <3>4. x \in come /\ ev = EventOf(x.notice)
      BY <1>2, <1>12, <2>2, <2>3, <3>2, <3>3
    <3> QED
      BY <3>4
  <2>7. CASE pc = "publish" /\ \E i \in DOMAIN notifications : About(notifications[i])
    <3>1. PICK i \in DOMAIN notifications : About(notifications[i])
      BY <2>7
    <3>2. PICK p \in DOMAIN F : F[p] = notifications[i]
      BY <1>5, <2>2, <2>7, <3>1
    <3> DEFINE x == Numbered(sent + 1, p, F[p])
    <3>3. FromReader(x, p) /\ x.notice = F[p]
      BY <1>3, <2>7 DEF FromReader
    <3> HIDE DEF x
    <3>4. x \in come /\ ev = EventOf(x.notice)
      BY <1>2, <1>12, <2>2, <2>3, <3>1, <3>2, <3>3
    <3> QED
      BY <3>4
  <2> QED
    BY <2>4, <2>5, <2>6, <2>7 DEF Told
<1>18. {EventOf(e) : e \in kept} \cup {EventOf(x.notice) : x \in come} = EventsOf(c)
  BY <1>15, <1>16, <1>17
<1> QED
  BY <1>18 DEF kept, come, way, after

LEMMA EventsAreTrue ==
  ASSUME SocketsInv
  PROVE  EventsShowRows
BY DEF SocketsInv, ClientsInv, OnBranch, EventsShowRows

LEMMA SocketsStart ==
  ASSUME InitSockets
  PROVE  SocketsInv
<1>1. /\ committed = <<>> /\ pc = "idle" /\ notifications = <<>> /\ blocks = 0 /\ sent = 0 /\ tasks = {}
      /\ clients = [c \in Listened |-> {}] /\ overtaken = {} /\ lost = FALSE
  BY DEF InitSockets
<1>2. /\ committed \in Seq([id : Nat, traces : Seq(Logged)]) /\ DOMAIN committed = {}
      /\ notifications \in Seq(Notices)
  BY <1>1
<1>3. ReaderInv
  BY <1>1, <1>2 DEF ReaderInv
<1>4. TasksInv /\ ClientsInv
  BY <1>1 DEF TasksInv, ClientsInv
<1>5. \A c \in Listened : ForksInv(c) /\ Complete(c)
  BY <1>1, <1>2 DEF ForksInv, Complete
<1> QED
  BY <1>3, <1>4, <1>5 DEF SocketsInv, FollowInv

LEMMA SocketsStay ==
  ASSUME SocketsInv, UNCHANGED socketVars
  PROVE  SocketsInv'
<1>1. /\ committed' = committed /\ pc' = pc /\ block' = block /\ notifications' = notifications
      /\ blocks' = blocks /\ sent' = sent /\ tasks' = tasks /\ clients' = clients
      /\ overtaken' = overtaken /\ lost' = lost
  BY DEF socketVars
<1>2. ReaderInv'
  BY <1>1, Zenon DEF SocketsInv, ReaderInv, Finished
<1>3. TasksInv' /\ ClientsInv'
  <2>1. Finished \in Int /\ Finished' = Finished /\ Finished <= Finished' /\ sent \in Nat
    BY <1>1 DEF SocketsInv, ReaderInv, Finished
  <2> QED
    BY <1>1, <2>1, TasksKept, ClientsKept DEF SocketsInv
<1>4. \A c, no, num : Announced(c, no, num)' <=> Announced(c, no, num)
  BY <1>1 DEF Announced
<1>5. \A c, k, tr : Told(c, k, tr)' <=> Told(c, k, tr)
  BY <1>1 DEF Told
<1>6. \A c : (ForksInv(c) => ForksInv(c)') /\ (Complete(c) => Complete(c)')
  BY <1>1, <1>4, <1>5 DEF ForksInv, Complete, OnBranch
<1>7. FollowInv'
  BY <1>1, <1>6 DEF SocketsInv, FollowInv
<1> QED
  BY <1>2, <1>3, <1>7 DEF SocketsInv

LEMMA SocketsStep ==
  ASSUME SocketsInv, [NextSockets]_socketVars
  PROVE  SocketsInv'
<1>1. CASE ProcessBlock
  BY <1>1, StepProcessBlock
<1>2. CASE CommitBlock
  BY <1>2, StepCommitBlock
<1>3. CASE PublishChunk
  BY <1>3, StepPublishChunk
<1>4. CASE Published \/ PublishFails
  BY <1>4, StepStops
<1>5. ASSUME NEW task \in tasks, QueryRows(task)
      PROVE  SocketsInv'
  BY <1>5, StepQueryRows
<1>6. ASSUME NEW task \in tasks, EmitEvents(task)
      PROVE  SocketsInv'
  BY <1>6, StepEmitEvents
<1>7. CASE UNCHANGED socketVars
  BY <1>7, SocketsStay
<1> QED
  BY <1>1, <1>2, <1>3, <1>4, <1>5, <1>6, <1>7 DEF NextSockets

(* The traffic of the sockets is a behaviour of NextSockets: the steps of  *)
(* the reader's tables and of the job leave it alone, and the other way    *)
(* round.                                                                  *)
LEMMA ApiSteps ==
  ASSUME [NextApi]_apiVars
  PROVE  [Next]_vars /\ [NextSockets]_socketVars
<1>1. CASE Next /\ UNCHANGED socketVars
  BY <1>1
<1>2. CASE NextSockets /\ UNCHANGED vars
  BY <1>2
<1>3. CASE UNCHANGED apiVars
  BY <1>3 DEF apiVars
<1> QED
  BY <1>1, <1>2, <1>3 DEF NextApi

(* The invariant of the sockets. *)
THEOREM SocketsInvariance == ApiSpec => []SocketsInv
<1>1. InitApi => SocketsInv
  BY SocketsStart DEF InitApi
<1>2. SocketsInv /\ [NextApi]_apiVars => SocketsInv'
  BY ApiSteps, SocketsStep
<1> QED
  BY <1>1, <1>2, PTL DEF ApiSpec

(* A stale row is due in the behaviours of the API server, too.            *)
THEOREM StaleIsDueInApi == ApiSpec => []StaleIsDue
<1>1. InitApi => Inv
  BY InitInv DEF InitApi
<1>2. Inv /\ [NextApi]_apiVars => Inv'
  BY ApiSteps, NextInv
<1>3. Inv => StaleIsDue
  BY DEF Inv, StaleIsDue
<1> QED
  BY <1>1, <1>2, <1>3, PTL DEF ApiSpec

(* While no message is lost and a listener answers in order, its clients   *)
(* have, or are about to be given, exactly the events of the branch that   *)
(* the tables show (ApiNotificationSender, ApiNotificationReceiver and the *)
(* sockets of the namespaces).                                             *)
THEOREM ClientsFollowTheorem == ApiSpec => []ClientsFollow
<1>1. SocketsInv => ClientsFollow
  BY ClientsAreTold
<1> QED
  BY <1>1, SocketsInvariance, PTL

(* However the answers of the listeners are delayed, an event shows the    *)
(* row after its action, unless its block was taken back: the messages are *)
(* published after the commit (ApiNotificationSender.publish).             *)
THEOREM EventsShowRowsTheorem == ApiSpec => []EventsShowRows
<1>1. SocketsInv => EventsShowRows
  BY EventsAreTrue
<1> QED
  BY <1>1, SocketsInvariance, PTL
=============================================================================
