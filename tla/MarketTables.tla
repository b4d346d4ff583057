----------------------------- MODULE MarketTables -----------------------------
(***************************************************************************)
(* The tables the API of the market reads, and the transactions of the     *)
(* reader that change them.  Each action is the committed effect of the    *)
(* handlers of src/filler/handlers/{atomicassets,atomicmarket} for one     *)
(* action of the contracts; how it comes about is modelled in AtomicAssets *)
(* and AtomicMarket.  What never changes here (the assets of a sale, the   *)
(* template of an asset) is a constant.  traffic picks, for a behaviour,   *)
(* the kind of listing that changes, or that none does ("events").         *)
(***************************************************************************)
EXTENDS Integers, FiniteSets

CONSTANTS
  Sales, Assets, Accounts,
  Templates,   \* their rows: [transferable, burnable, collection_name, schema_name, data]
  Auctions, Buyoffers, TemplateBuyoffers,
  SaleInfo, AuctionInfo, BuyofferInfo, TemplateBuyofferInfo,
               \* [seller, assets, collection_name, price, created, maker, symbol]
  AssetInfo,   \* [template_id, collection_name, schema_name, mint, mutable, immutable];
               \* mint is the number the asset gets among those of its template
  Null,        \* NULL of PostgreSQL
  NoRow,       \* there is no row
  InitialSales, InitialAuctions, \* those that are listed at the start
  LateAssets,  \* assets that are minted later
  LateNumbers, \* assets that have no number yet at the start
  Kinds,       \* kinds of traffic
  MaxChanges,  \* bound: transactions and numberings of a kind of traffic
  MaxTime      \* bound: clock

ASSUME MarketAssumption ==
  /\ Kinds \subseteq {"sales", "auctions", "buyoffers", "events"}
  /\ InitialSales \subseteq Sales /\ InitialAuctions \subseteq Auctions /\ LateAssets \subseteq Assets
  /\ LateNumbers \subseteq Assets
  /\ MaxChanges \in [Kinds -> Nat] /\ MaxTime \in Nat
  /\ \A s \in Sales : SaleInfo[s].assets \subseteq Assets
  /\ NoRow \notin Accounts \cup {Null} /\ Null \notin Accounts

VARIABLES
  db,       \* the committed tables
  before,   \* the tables before the last transaction that a fork can take back
  changes,  \* transactions and numberings so far
  now,      \* clock of the API, in half seconds
  traffic

marketVars == <<db, before, changes, now, traffic>>

(* OfferState, SaleState, AuctionState, BuyofferState, TemplateBuyofferState *)
PENDING == 0
INVALID == 1
ACCEPTED == 3
DECLINED == 4
CANCELLED == 5
WAITING == 0
LISTED == 1
CANCELED == 2
SOLD == 3
BUYOFFER_PENDING == 0
BUYOFFER_DECLINED == 1
BUYOFFER_CANCELED == 2
BUYOFFER_ACCEPTED == 3
TEMPLATE_LISTED == 0
TEMPLATE_CANCELED == 1
TEMPLATE_SOLD == 2

ASSUME OfferAssumption == NoRow \notin {PENDING, INVALID, ACCEPTED, DECLINED, CANCELLED}

Exists(table, id) == table[id] # NoRow
OwnsAll(owners, account, assets) == \A a \in assets : owners[a] = account

(* Math.floor(Date.now() / 1000) *)
Seconds == now \div 2

(* The numbers of those of the assets that have one: of their least and    *)
(* greatest the procedures and the filter table make a range, or 'empty'.  *)
Mints(mint, assets) == {mint[a] : a \in assets} \ {Null}

NewSale == [state |-> WAITING, offer_id |-> Null, buyer |-> Null, template_mint |-> Null]
NewAuction ==
  [state |-> WAITING, buyer |-> Null, end_time |-> Seconds + 1, bids |-> {},
   claimed_by_buyer |-> FALSE, claimed_by_seller |-> FALSE, template_mint |-> Null]
NewBuyoffer == [state |-> BUYOFFER_PENDING, template_mint |-> Null]
NewTemplateBuyoffer ==
  [state |-> TEMPLATE_LISTED, seller |-> Null, assets |-> {}, template_mint |-> Null]

(* Sales of assets that exist; nobody sells an asset that is not his.      *)
InitialOwner(a) ==
  IF \E s \in Sales : a \in SaleInfo[s].assets
  THEN SaleInfo[CHOOSE s \in Sales : a \in SaleInfo[s].assets].seller
  ELSE CHOOSE x \in Accounts : TRUE

MintedAtStart == IF traffic = "sales" THEN Assets ELSE Assets \ LateAssets
InitialMint == [a \in Assets |-> IF a \in MintedAtStart \ LateNumbers THEN AssetInfo[a].mint ELSE Null]
InitialRange(assets) == IF assets \cap LateNumbers = {} THEN Mints(InitialMint, assets) ELSE Null

InitMarket ==
  /\ traffic \in Kinds
  /\ now = 0
  /\ db = [owner |-> [a \in Assets |-> IF a \in MintedAtStart THEN InitialOwner(a) ELSE NoRow],
           mint  |-> InitialMint,
           offer |-> [s \in Sales |-> IF s \in InitialSales THEN PENDING ELSE NoRow],
           sale  |-> [s \in Sales |-> IF s \in InitialSales
                                      THEN [NewSale EXCEPT !.state = LISTED, !.offer_id = s,
                                                           !.template_mint = InitialRange(SaleInfo[s].assets)]
                                      ELSE NoRow],
           auction  |-> [i \in Auctions |-> IF i \in InitialAuctions
                                           THEN [NewAuction EXCEPT !.state = LISTED,
                                                  !.template_mint = InitialRange(AuctionInfo[i].assets)]
                                           ELSE NoRow],
           buyoffer |-> [i \in Buyoffers |-> NoRow],
           template_buyoffer |-> [i \in TemplateBuyoffers |-> NoRow]]
  /\ before = NoRow /\ changes = 0

-----------------------------------------------------------------------------
(* The offers that transfers and burns make invalid, or valid again, at    *)
(* the commit of their block.                                              *)
Checked(offers, owners) ==
  [s \in Sales |->
     IF offers[s] \in {PENDING, INVALID}
     THEN IF OwnsAll(owners, SaleInfo[s].seller, SaleInfo[s].assets) THEN PENDING ELSE INVALID
     ELSE offers[s]]

Moved(tables, assets, to) ==
  LET owners == [a \in Assets |-> IF a \in assets THEN to ELSE tables.owner[a]]
  IN  [tables EXCEPT !.owner = owners, !.offer = Checked(tables.offer, owners)]

Commit(tables) ==
  /\ changes < MaxChanges[traffic]
  /\ db' = tables /\ before' = db
  /\ changes' = changes + 1
  /\ UNCHANGED <<now, traffic>>

AnnounceSale(s) ==
  /\ ~ Exists(db.sale, s)
  /\ OwnsAll(db.owner, SaleInfo[s].seller, SaleInfo[s].assets)
  /\ Commit([db EXCEPT !.sale[s] = NewSale])

(* lognewoffer and logsalestart of one transaction. *)
StartSale(s) ==
  /\ Exists(db.sale, s) /\ db.sale[s].state = WAITING
  /\ OwnsAll(db.owner, SaleInfo[s].seller, SaleInfo[s].assets)
  /\ Commit([db EXCEPT !.offer[s] = PENDING,
                       !.sale[s] = [@ EXCEPT !.state = LISTED, !.offer_id = s]])

(* cancelsale declines the offer, if there is one. *)
CancelSale(s) ==
  /\ Exists(db.sale, s) /\ db.sale[s].state \in {WAITING, LISTED}
  /\ Commit([db EXCEPT !.sale[s].state = CANCELED,
                       !.offer[s] = IF @ = NoRow THEN @ ELSE DECLINED])

PurchaseSale(s, buyer) ==
  /\ Exists(db.sale, s) /\ db.sale[s].state = LISTED /\ db.offer[s] = PENDING
  /\ buyer # SaleInfo[s].seller
  /\ Commit(Moved([db EXCEPT !.sale[s] = [@ EXCEPT !.state = SOLD, !.buyer = buyer],
                             !.offer[s] = ACCEPTED], SaleInfo[s].assets, buyer))

Transfer(a, to) ==
  /\ db.owner[a] \in Accounts \ {to}
  /\ Commit(Moved(db, {a}, to))

BurnAsset(a) ==
  /\ db.owner[a] \in Accounts
  /\ Commit(Moved(db, {a}, Null))

MintAsset(a, to) ==
  /\ db.owner[a] = NoRow
  /\ Commit(Moved(db, {a}, to))

(* A fork takes the last transaction back. *)
Fork ==
  /\ before # NoRow
  /\ db' = before /\ before' = NoRow
  /\ UNCHANGED <<changes, now, traffic>>

-----------------------------------------------------------------------------
AnnounceAuction(i) ==
  /\ ~ Exists(db.auction, i)
  /\ OwnsAll(db.owner, AuctionInfo[i].seller, AuctionInfo[i].assets)
  /\ Commit([db EXCEPT !.auction[i] = NewAuction])

UpdateAuction(i, row) == Commit([db EXCEPT !.auction[i] = row])

(* logauctstart, auctionbid (late bids postpone the end), cancelauct (of   *)
(* an auction without bids), auctclaimbuy and auctclaimsel.  A bid may     *)
(* reach the tables after the end: its block is older than the clock of    *)
(* the API, and it may have postponed the end.                             *)
ChangeAuction(i) ==
  LET row == db.auction[i] IN
  /\ Exists(db.auction, i)
  /\ \/ row.state = WAITING /\ UpdateAuction(i, [row EXCEPT !.state = LISTED])
     \/ /\ row.state = LISTED /\ ~ row.claimed_by_buyer /\ ~ row.claimed_by_seller
        /\ \E bidder \in Accounts \ {AuctionInfo[i].seller}, end \in {row.end_time, row.end_time + 1} :
             UpdateAuction(i, [row EXCEPT !.buyer = bidder, !.bids = @ \cup {bidder}, !.end_time = end])
     \/ row.state # CANCELED /\ row.buyer = Null /\ UpdateAuction(i, [row EXCEPT !.state = CANCELED])
     \/ /\ row.state = LISTED /\ row.buyer # Null /\ Seconds >= row.end_time
        /\ \/ ~ row.claimed_by_buyer  /\ UpdateAuction(i, [row EXCEPT !.claimed_by_buyer = TRUE])
           \/ ~ row.claimed_by_seller /\ UpdateAuction(i, [row EXCEPT !.claimed_by_seller = TRUE])

AnnounceBuyoffer(i) ==
  /\ ~ Exists(db.buyoffer, i)
  /\ OwnsAll(db.owner, BuyofferInfo[i].seller, BuyofferInfo[i].assets)
  /\ Commit([db EXCEPT !.buyoffer[i] = NewBuyoffer])

CloseBuyoffer(i) ==
  LET info == BuyofferInfo[i] IN
  /\ Exists(db.buyoffer, i) /\ db.buyoffer[i].state = BUYOFFER_PENDING
  /\ \/ \E state \in {BUYOFFER_DECLINED, BUYOFFER_CANCELED} : Commit([db EXCEPT !.buyoffer[i].state = state])
     \/ /\ OwnsAll(db.owner, info.seller, info.assets)
        /\ Commit(Moved([db EXCEPT !.buyoffer[i].state = BUYOFFER_ACCEPTED], info.assets, info.buyer))

(* fulfilltbuyo names the seller of one of his assets of the template. *)
ChangeTemplateBuyoffer(i) ==
  LET info == TemplateBuyofferInfo[i] IN
  \/ /\ ~ Exists(db.template_buyoffer, i)
     /\ Commit([db EXCEPT !.template_buyoffer[i] = NewTemplateBuyoffer])
  \/ /\ Exists(db.template_buyoffer, i) /\ db.template_buyoffer[i].state = TEMPLATE_LISTED
     /\ \/ Commit([db EXCEPT !.template_buyoffer[i].state = TEMPLATE_CANCELED])
        \/ \E a \in Assets :
             /\ AssetInfo[a].template_id = info.template_id /\ db.owner[a] \in Accounts \ {info.buyer}
             /\ Commit(Moved([db EXCEPT !.template_buyoffer[i] =
                                [@ EXCEPT !.state = TEMPLATE_SOLD, !.seller = db.owner[a], !.assets = {a}]],
                             {a}, info.buyer))

Tick ==
  /\ now < MaxTime /\ traffic = "auctions"
  /\ now' = now + 1
  /\ UNCHANGED <<db, before, changes, traffic>>

-----------------------------------------------------------------------------
(* The jobs update_atomicassets_mints, update_atomicmarket_sale_mints and  *)
(* their like write the column template_mint of what is irreversible; what *)
(* they write no fork takes back.  Each row is committed on its own.  The  *)
(* procedure of template buyoffers is called by no job: theirs stay NULL.  *)
Irreversible == IF before = NoRow THEN db ELSE before

Write(new, undone) ==
  /\ changes < MaxChanges[traffic]
  /\ db' = new
  /\ before' = IF before = NoRow THEN NoRow ELSE undone
  /\ changes' = changes + 1
  /\ UNCHANGED <<now, traffic>>

(* The assets of a template are numbered in the order of their ids. *)
NumberAsset(a) ==
  LET Written(t) == [t EXCEPT !.mint[a] = AssetInfo[a].mint] IN
  /\ AssetInfo[a].template_id # Null /\ AssetInfo[a].mint # Null /\ db.mint[a] = Null
  /\ Exists(Irreversible.owner, a)
  /\ \A x \in Assets : /\ AssetInfo[x].template_id = AssetInfo[a].template_id
                       /\ db.mint[x] = Null /\ AssetInfo[x].mint # Null
                       => AssetInfo[a].mint <= AssetInfo[x].mint
  /\ Write(Written(db), Written(before))

(* A listing gets its range once all of its assets have their numbers. *)
MintsKnown(assets) == \A a \in assets : AssetInfo[a].template_id # Null => db.mint[a] # Null

NumberSale(s) ==
  LET assets == SaleInfo[s].assets
      Written(t) == [t EXCEPT !.sale[s] = [@ EXCEPT !.template_mint = Mints(db.mint, assets)]]
  IN  /\ Exists(db.sale, s) /\ Exists(Irreversible.sale, s)
      /\ db.sale[s].template_mint = Null /\ db.sale[s].offer_id # Null /\ MintsKnown(assets)
      /\ Write(Written(db), Written(before))

NumberAuction(i) ==
  LET assets == AuctionInfo[i].assets
      Written(t) == [t EXCEPT !.auction[i].template_mint = Mints(db.mint, assets)]
  IN  /\ Exists(Irreversible.auction, i) /\ db.auction[i].template_mint = Null /\ MintsKnown(assets)
      /\ Write(Written(db), Written(before))

NumberBuyoffer(i) ==
  LET assets == BuyofferInfo[i].assets
      Written(t) == [t EXCEPT !.buyoffer[i].template_mint = Mints(db.mint, assets)]
  IN  /\ Exists(Irreversible.buyoffer, i) /\ db.buyoffer[i].template_mint = Null /\ MintsKnown(assets)
      /\ Write(Written(db), Written(before))

Numbering ==
  \/ \E a \in Assets : NumberAsset(a)
  \/ /\ traffic = "sales"
     /\ \E s \in Sales : NumberSale(s)
  \/ /\ traffic = "auctions"
     /\ \E i \in Auctions : NumberAuction(i)
  \/ /\ traffic = "buyoffers"
     /\ \E i \in Buyoffers : NumberBuyoffer(i)

Transaction ==
  \/ /\ traffic = "sales"
     /\ \E s \in Sales : \/ AnnounceSale(s) \/ StartSale(s) \/ CancelSale(s)
                         \/ \E buyer \in Accounts : PurchaseSale(s, buyer)
  \/ /\ traffic = "auctions"
     /\ \E i \in Auctions : AnnounceAuction(i) \/ ChangeAuction(i)
  \/ /\ traffic = "buyoffers"
     /\ \/ \E i \in Buyoffers : AnnounceBuyoffer(i) \/ CloseBuyoffer(i)
        \/ \E i \in TemplateBuyoffers : ChangeTemplateBuyoffer(i)
  \/ \E a \in Assets : \/ BurnAsset(a)
                       \/ \E to \in Accounts : Transfer(a, to) \/ MintAsset(a, to)
=============================================================================
