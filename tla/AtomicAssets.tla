---------------------------- MODULE AtomicAssets ----------------------------
(***************************************************************************)
(* Assets and offers of the atomicassets contract: the handlers of         *)
(* processors/assets.ts and processors/offers.ts, run by the Processor on  *)
(* the traces of a contract.                                               *)
(*                                                                         *)
(* The contract is external: its actions are modelled from the traces the  *)
(* handlers subscribe to and the columns they fill.  Any number of its     *)
(* actions, of one block or several, may precede a commit.                 *)
(***************************************************************************)
EXTENDS Processor, Sequences

CONSTANTS
  Assets, Accounts, Offers,
  MaxTraces  \* bound: traces in one commit

ASSUME BoundAssumption == MaxTraces \in Nat

VARIABLES
  \* --- the contract
  holder,       \* owner of each asset on the chain
  deal,         \* terms and status of each offer on the chain
  \* --- the tables, as the transaction sees them
  owner,        \* atomicassets_assets.owner
  state,        \* atomicassets_offers.state
  offerAssets,  \* atomicassets_offers_assets
  \* --- memory of the handlers
  tableInserts, \* rows to be inserted when all mints were seen
  transferredAssets

chainVars == <<holder, deal>>
tableVars == <<owner, state, offerAssets>>
memory    == <<tableInserts, transferredAssets>>
vars == <<processorVars, chainVars, tableVars, memory>>

NoRow  == "no row"
Burned == "null"

ASSUME AccountAssumption == NoRow \notin Accounts /\ Burned \notin Accounts

Closed == {"ACCEPTED", "DECLINED", "CANCELLED"}
NoDeal     == [status |-> "none", sender |-> "none", recipient |-> "none", give |-> {}, take |-> {}]
Terms(d)   == [asset: d.give, owner: {d.sender}] \cup [asset: d.take, owner: {d.recipient}]

(* AtomicAssetsUpdatePriority. *)
INDEPENDENT         == 10
ACTION_MINT_ASSET   == 50
ACTION_UPDATE_ASSET == 60
AfterUpdates        == 95  \* mutant of ACTION_CREATE_OFFER
ACTION_CREATE_OFFER == 80
ACTION_UPDATE_OFFER == 90

On(action, callback, priority) == [action |-> action, callback |-> callback, priority |-> priority]

(* What both processors register with onActionTrace. *)
Listeners ==
  { On("logmint", "logmint", ACTION_MINT_ASSET),
    On("logtransfer", "logtransfer", ACTION_UPDATE_ASSET),
    On("logtransfer", "collect", INDEPENDENT),
    On("logburnasset", "logburnasset", ACTION_UPDATE_ASSET),
    On("logburnasset", "collect", INDEPENDENT),
    On("lognewoffer", "lognewoffer", ACTION_CREATE_OFFER),
    On("acceptoffer", "close", ACTION_UPDATE_OFFER),
    On("declineoffer", "close", ACTION_UPDATE_OFFER),
    On("canceloffer", "close", ACTION_UPDATE_OFFER) }

-----------------------------------------------------------------------------
(* The contract *)

Transfer(from, to, ids) == [action |-> "logtransfer", from |-> from, to |-> to, asset_ids |-> ids]

(* The traces of one action of the contract reach the reader. *)
Receive(ts) ==
  /\ traces + Cardinality(DOMAIN ts) <= MaxTraces
  /\ ProcessTraces(ts, Listeners)
  /\ UNCHANGED <<tableVars, memory>>

Mint(x, a) ==
  /\ holder[x] = NoRow
  /\ holder' = [holder EXCEPT ![x] = a]
  /\ UNCHANGED deal
  /\ Receive(<<[action |-> "logmint", asset_id |-> x, new_asset_owner |-> a]>>)

Give(a, b, ids) ==
  /\ a # b /\ ids # {} /\ \A x \in ids : holder[x] = a
  /\ holder' = [x \in Assets |-> IF x \in ids THEN b ELSE holder[x]]
  /\ UNCHANGED deal
  /\ Receive(<<Transfer(a, b, ids)>>)

Burn(x) ==
  /\ holder[x] \in Accounts
  /\ holder' = [holder EXCEPT ![x] = Burned]
  /\ UNCHANGED deal
  /\ Receive(<<[action |-> "logburnasset", asset_ids |-> {x}]>>)

Holds(d) == \A t \in Terms(d) : holder[t.asset] = t.owner

CreateOffer(o, d) ==
  /\ deal[o].status = "none"
  /\ d.sender # d.recipient /\ d.give \cup d.take # {} /\ Holds(d)
  /\ deal' = [deal EXCEPT ![o] = d]
  /\ UNCHANGED holder
  /\ Receive(<<[action |-> "lognewoffer", offer_id |-> o, terms |-> Terms(d)]>>)

(* An accepted offer exchanges its assets with up to two transfers. *)
AcceptOffer(o) ==
  LET d == deal[o]
      IfAny(t) == IF t.asset_ids = {} THEN <<>> ELSE <<t>>
  IN  /\ d.status = "PENDING" /\ Holds(d)
      /\ deal' = [deal EXCEPT ![o].status = "ACCEPTED"]
      /\ holder' = [x \in Assets |-> IF x \in d.give THEN d.recipient
                                     ELSE IF x \in d.take THEN d.sender ELSE holder[x]]
      /\ Receive(<<[action |-> "acceptoffer", offer_id |-> o, state |-> "ACCEPTED"]>>
                 \o IfAny(Transfer(d.sender, d.recipient, d.give))
                 \o IfAny(Transfer(d.recipient, d.sender, d.take)))

(* By the recipient or the sender. *)
RefuseOffer(o, action, status) ==
  /\ deal[o].status = "PENDING"
  /\ deal' = [deal EXCEPT ![o].status = status]
  /\ UNCHANGED holder
  /\ Receive(<<[action |-> action, offer_id |-> o, state |-> status]>>)

-----------------------------------------------------------------------------
(* The handlers *)

(* An update that finds no row throws, as does an insert that finds one.   *)
Throws(j) ==
  CASE j.callback = "logtransfer"  -> ~ \E x \in j.trace.asset_ids : owner[x] = j.trace.from
    [] j.callback = "logburnasset" -> \E x \in j.trace.asset_ids : owner[x] = NoRow
    [] j.callback = "lognewoffer"  -> state[j.trace.offer_id] # NoRow
    [] j.callback = "close"        -> state[j.trace.offer_id] = NoRow
    [] OTHER -> FALSE

Start == ExecuteHeadQueue /\ UNCHANGED <<chainVars, tableVars, memory>>

LogMint(j) ==
  /\ Runs(j, "logmint")
  /\ tableInserts' = tableInserts \cup {[asset |-> j.trace.asset_id, owner |-> j.trace.new_asset_owner]}
  /\ UNCHANGED <<chainVars, tableVars, transferredAssets>>

(* onPriorityComplete(ACTION_MINT_ASSET) inserts what the mints collected; *)
(* no other priority has a listener.                                       *)
PriorityComplete ==
  /\ CompletePriority
  /\ IF lastPriority = ACTION_MINT_ASSET
     THEN /\ owner' = [x \in Assets |-> IF \E r \in tableInserts : r.asset = x
                                        THEN (CHOOSE r \in tableInserts : r.asset = x).owner
                                        ELSE owner[x]]
          /\ tableInserts' = {}
     ELSE UNCHANGED <<owner, tableInserts>>
  /\ UNCHANGED <<chainVars, state, offerAssets, transferredAssets>>

LogTransfer(j) ==
  /\ Runs(j, "logtransfer")
  /\ owner' = [x \in Assets |-> IF x \in j.trace.asset_ids /\ owner[x] = j.trace.from
                                THEN j.trace.to ELSE owner[x]]
  /\ UNCHANGED <<chainVars, state, offerAssets, memory>>

LogBurnAsset(j) ==
  /\ Runs(j, "logburnasset")
  /\ owner' = [x \in Assets |-> IF x \in j.trace.asset_ids THEN Burned ELSE owner[x]]
  /\ UNCHANGED <<chainVars, state, offerAssets, memory>>

(* Mutant of Collect: only transfers are collected. *)
CollectTransfers(j) ==
  /\ Runs(j, "collect")
  /\ transferredAssets' = transferredAssets \cup
       (IF j.trace.action = "logtransfer" THEN j.trace.asset_ids ELSE {})
  /\ UNCHANGED <<chainVars, tableVars, tableInserts>>

(* offers.ts remembers every asset that changed hands or was burned. *)
Collect(j) ==
  /\ Runs(j, "collect")
  /\ transferredAssets' = transferredAssets \cup j.trace.asset_ids
  /\ UNCHANGED <<chainVars, tableVars, tableInserts>>

LogNewOffer(j) ==
  /\ Runs(j, "lognewoffer")
  /\ state' = [state EXCEPT ![j.trace.offer_id] = "PENDING"]
  /\ offerAssets' = [offerAssets EXCEPT ![j.trace.offer_id] = j.trace.terms]
  /\ UNCHANGED <<chainVars, owner, memory>>

(* acceptoffer, declineoffer, canceloffer. *)
CloseOffer(j) ==
  /\ Runs(j, "close")
  /\ state' = [state EXCEPT ![j.trace.offer_id] = j.trace.state]
  /\ UNCHANGED <<chainVars, owner, offerAssets, memory>>

(* Mutant of Related: of every offer, closed ones included. *)
RelatedAny == {o \in Offers : \E t \in offerAssets[o] : t.asset \in transferredAssets}

(* The open offers of an asset that was transferred or burned. *)
Related ==
  {o \in Offers : /\ state[o] \in {"PENDING", "INVALID"}
                  /\ \E t \in offerAssets[o] : t.asset \in transferredAssets}

(* One of the assets is not where it was when the offer was made. *)
Unfulfillable(o) == \E t \in offerAssets[o] : owner[t.asset] # NoRow /\ owner[t.asset] # t.owner

(* onCommit of offers.ts, and the commit. *)
Commit ==
  /\ FinishQueue
  /\ state' = [o \in Offers |-> IF o \notin Related THEN state[o]
                                ELSE IF Unfulfillable(o) THEN "INVALID" ELSE "PENDING"]
  /\ transferredAssets' = {}
  /\ UNCHANGED <<chainVars, owner, offerAssets, tableInserts>>

Init ==
  /\ liveQueue = {} /\ traces = 0 /\ executing = FALSE /\ queue = {} /\ lastPriority = None
  /\ holder = [x \in Assets |-> NoRow] /\ deal = [o \in Offers |-> NoDeal]
  /\ owner = [x \in Assets |-> NoRow] /\ state = [o \in Offers |-> NoRow]
  /\ offerAssets = [o \in Offers |-> {}]
  /\ tableInserts = {} /\ transferredAssets = {}

Deals == [status: {"PENDING"}, sender: Accounts, recipient: Accounts,
          give: SUBSET Assets, take: SUBSET Assets]

Contract ==
  /\ ~ executing /\ traces < MaxTraces
  /\ \/ \E x \in Assets, a \in Accounts : Mint(x, a)
     \/ \E a, b \in Accounts, ids \in SUBSET Assets : Give(a, b, ids)
     \/ \E x \in Assets : Burn(x)
     \/ \E o \in Offers, d \in Deals : CreateOffer(o, d)
     \/ \E o \in Offers : AcceptOffer(o)
     \/ \E o \in Offers : RefuseOffer(o, "declineoffer", "DECLINED")
     \/ \E o \in Offers : RefuseOffer(o, "canceloffer", "CANCELLED")

Handler ==
  \/ Start
  \/ PriorityComplete
  \/ \E j \in queue : \/ LogMint(j)
                      \/ LogTransfer(j)
                      \/ LogBurnAsset(j)
                      \/ Collect(j)
                      \/ LogNewOffer(j)
                      \/ CloseOffer(j)
  \/ Commit

Next == Contract \/ Handler

Spec == Init /\ [][Next]_vars

-----------------------------------------------------------------------------
(* Properties *)

(* Whatever blocks are executed together, and although their jobs run by   *)
(* priority: no job comes before the one whose row it needs.  A throw of   *)
(* executeHeadQueue ends the process, and again at each restart.           *)
NoJobThrows == executing /\ ~ PriorityDone => \A j \in queue : IsNext(j) => ~ Throws(j)

(* With nothing left to execute the tables show the contract. *)
UpToDate == ~ executing /\ liveQueue = {}

(* The owners are those the contract has, as if block by block. *)
OwnersMatch == UpToDate => owner = holder

(* An offer is closed as on the chain, PENDING if it could be accepted,    *)
(* and INVALID if not: no change of hands, before or after its creation or *)
(* back and forth in one commit, is missed.                                *)
OffersMatch ==
  UpToDate => \A o \in Offers :
    state[o] = CASE deal[o].status = "none"    -> NoRow
                 [] deal[o].status = "PENDING" -> IF Holds(deal[o]) THEN "PENDING" ELSE "INVALID"
                 [] OTHER                      -> deal[o].status

(* A closed offer keeps its state, also in the listener of the commit that *)
(* closes it and moves its assets.                                         *)
ClosedForGood == [][\A o \in Offers : state[o] \in Closed => state'[o] = state[o]]_vars
=============================================================================
