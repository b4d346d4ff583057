-------------------------- MODULE AtomicAssetsProofs --------------------------
(***************************************************************************)
(* Proofs about AtomicAssets: whatever actions of the contract precede a   *)
(* commit, and although their jobs run by priority, no job throws, the     *)
(* tables show the owners and the offers of the contract, and a closed     *)
(* offer stays closed; for any assets, accounts, offers and numbers of     *)
(* traces.                                                                 *)
(***************************************************************************)
EXTENDS AtomicAssets, FiniteSetTheorems, SequenceTheorems, TLAPS

-----------------------------------------------------------------------------
(* Types *)

MintTraces     == [action : {"logmint"}, asset_id : Assets, new_asset_owner : Accounts]
TransferTraces == [action : {"logtransfer"}, from : Accounts, to : Accounts, asset_ids : SUBSET Assets]
BurnTraces     == [action : {"logburnasset"}, asset_ids : SUBSET Assets]
AllTerms       == SUBSET [asset : Assets, owner : Accounts]
NewOfferTraces == [action : {"lognewoffer"}, offer_id : Offers, terms : AllTerms]
CloseTraces    == [action : {"acceptoffer", "declineoffer", "canceloffer"},
                   offer_id : Offers, state : Closed]
AllTraces      == MintTraces \cup TransferTraces \cup BurnTraces \cup NewOfferTraces \cup CloseTraces

Callbacks  == {"logmint", "logtransfer", "logburnasset", "collect", "lognewoffer", "close"}
Priorities == {INDEPENDENT, ACTION_MINT_ASSET, ACTION_UPDATE_ASSET, ACTION_CREATE_OFFER, ACTION_UPDATE_OFFER}

AnyJob == [callback : Callbacks, priority : Priorities, trace : AllTraces, index : Nat]

(* A job calls what its trace is for, with the priority of the callback.   *)
IsJob(j) ==
  /\ j \in AnyJob
  /\ \/ j.callback = "logmint" /\ j.priority = ACTION_MINT_ASSET /\ j.trace \in MintTraces
     \/ j.callback = "logtransfer" /\ j.priority = ACTION_UPDATE_ASSET /\ j.trace \in TransferTraces
          /\ j.trace.asset_ids # {}
     \/ j.callback = "logburnasset" /\ j.priority = ACTION_UPDATE_ASSET /\ j.trace \in BurnTraces
     \/ j.callback = "collect" /\ j.priority = INDEPENDENT /\ j.trace \in TransferTraces \cup BurnTraces
     \/ j.callback = "lognewoffer" /\ j.priority = ACTION_CREATE_OFFER /\ j.trace \in NewOfferTraces
     \/ j.callback = "close" /\ j.priority = ACTION_UPDATE_OFFER /\ j.trace \in CloseTraces

Owners == Accounts \cup {NoRow, Burned}
Made   == [status : {"PENDING"} \cup Closed, sender : Accounts, recipient : Accounts,
           give : SUBSET Assets, take : SUBSET Assets]

(* What is to be done still, before and after executeHeadQueue starts.     *)
Pending == liveQueue \cup queue

TypeOK ==
  /\ holder \in [Assets -> Owners] /\ owner \in [Assets -> Owners]
  /\ deal \in [Offers -> {NoDeal} \cup Made]
  /\ \A o \in Offers : deal[o] # NoDeal => deal[o].sender # deal[o].recipient
  /\ state \in [Offers -> {NoRow, "PENDING", "INVALID"} \cup Closed]
  /\ offerAssets \in [Offers -> AllTerms]
  /\ tableInserts \in SUBSET [asset : Assets, owner : Accounts]
  /\ transferredAssets \in SUBSET Assets
  /\ executing \in BOOLEAN /\ traces \in Nat /\ lastPriority \in Priorities \cup {None}
  /\ \A j \in Pending : IsJob(j)

(* The jobs of a trace have its index.                                     *)
QueueInv ==
  /\ \A j, k \in Pending : j.index = k.index => j.trace = k.trace
  /\ executing => liveQueue = {}
  /\ ~ executing =>
       /\ queue = {} /\ transferredAssets = {}
       /\ \A j \in Pending : j.index <= traces
  /\ lastPriority # None => \A j \in queue : j.priority >= lastPriority
  /\ tableInserts # {} => executing /\ lastPriority = ACTION_MINT_ASSET

-----------------------------------------------------------------------------
(* Assets *)

AssetsOf(trace) == IF trace.action = "logmint" THEN {trace.asset_id} ELSE trace.asset_ids

(* j changes the owner of x. *)
Moves(j, x) == j.callback \in {"logmint", "logtransfer", "logburnasset"} /\ x \in AssetsOf(j.trace)

MovesOf(x) == {j \in Pending : Moves(j, x)}

(* The owner it makes. *)
To(j) ==
  CASE j.callback = "logmint" -> j.trace.new_asset_owner
    [] j.callback = "logtransfer" -> j.trace.to
    [] OTHER -> Burned

(* It is right for an asset of this owner. *)
Fits(j, o) ==
  CASE j.callback = "logmint" -> o = NoRow
    [] j.callback = "logtransfer" -> o = j.trace.from
    [] OTHER -> o \in Accounts

(* The moves of S lead, one after the other, from one owner to another,    *)
(* and a mint is the first of them.                                        *)
Chain(S, from, to) ==
  /\ S = {} => from = to
  /\ \A j \in S :
       /\ (\A k \in S : j.index <= k.index) => Fits(j, from)
       /\ (\A k \in S : k.index <= j.index) => To(j) = to
       /\ j.callback = "logmint" => \A k \in S : j.index <= k.index
       /\ \A i \in S : i.index < j.index
            => Fits(j, To(i)) \/ \E k \in S : i.index < k.index /\ k.index < j.index

(* The owner of a row, inserted or yet to be inserted. *)
Inserted(x) == \E r \in tableInserts : r.asset = x
RowOwner(x) == IF Inserted(x) THEN (CHOOSE r \in tableInserts : r.asset = x).owner ELSE owner[x]

(* The pending moves of an asset lead from the owner of its row to its     *)
(* holder.                                                                 *)
Chained(x) ==
  /\ Chain(MovesOf(x), RowOwner(x), holder[x])
  /\ MovesOf(x) # {} => holder[x] # NoRow

AssetsInv ==
  /\ \A r, s \in tableInserts : r.asset = s.asset => r = s
  /\ \A x \in Assets : Chained(x)

-----------------------------------------------------------------------------
(* Offers *)

CreatesOf(o) == {j \in Pending : j.callback = "lognewoffer" /\ j.trace.offer_id = o}
ClosesOf(o)  == {j \in Pending : j.callback = "close" /\ j.trace.offer_id = o}

(* Among the assets that onCommit of offers.ts will look at. *)
Touched(x) ==
  \/ x \in transferredAssets
  \/ \E j \in Pending : j.callback = "collect" /\ x \in j.trace.asset_ids

(* The row of an offer comes with its job and is closed by another.        *)
Lives(o) ==
  /\ deal[o].status = "none" => state[o] = NoRow /\ CreatesOf(o) = {} /\ ClosesOf(o) = {}
  /\ deal[o].status # "none" /\ state[o] = NoRow => CreatesOf(o) # {}
  /\ deal[o].status = "PENDING" => state[o] \notin Closed /\ ClosesOf(o) = {}
  /\ deal[o].status \in Closed => state[o] = deal[o].status \/ ClosesOf(o) # {}
  /\ \A j \in CreatesOf(o) : state[o] = NoRow /\ j.trace.terms = Terms(deal[o])
  /\ \A j \in ClosesOf(o) : state[o] \notin Closed /\ j.trace.state = deal[o].status
  /\ \A j, k \in CreatesOf(o) : j = k
  /\ \A j, k \in ClosesOf(o) : j = k

(* Unless one of its assets is to be looked at, an open offer has the      *)
(* state it should have.                                                   *)
Agrees(o) ==
  /\ state[o] # NoRow => offerAssets[o] = Terms(deal[o])
  /\ deal[o].status # "none" => \A t \in Terms(deal[o]) : holder[t.asset] # NoRow
  /\ state[o] \in {"PENDING", "INVALID"} /\ (\A t \in Terms(deal[o]) : ~ Touched(t.asset)) =>
       (state[o] = "PENDING" <=> Holds(deal[o]))
  /\ CreatesOf(o) # {} => \A t \in Terms(deal[o]) : Touched(t.asset) \/ holder[t.asset] = t.owner

OffersInv == \A o \in Offers : Lives(o) /\ Agrees(o)

Inv == TypeOK /\ QueueInv /\ AssetsInv /\ OffersInv

-----------------------------------------------------------------------------
(* Chains *)

LEMMA ChainDrop ==
  ASSUME NEW S, NEW from, NEW to, Chain(S, from, to), \A k \in S : k.index \in Nat,
         NEW j \in S, \A k \in S : j.index <= k.index,
         \A k \in S : k.index = j.index => k = j
  PROVE  Fits(j, from) /\ Chain(S \ {j}, To(j), to)
<1> DEFINE R == S \ {j}
<1>1. Fits(j, from)
  BY DEF Chain
<1>2. R = {} => To(j) = to
  <2>1. SUFFICES ASSUME R = {} PROVE To(j) = to
    OBVIOUS
  <2>2. \A k \in S : k.index <= j.index
    BY <2>1
  <2>3. QED
    BY <2>2 DEF Chain
<1>3. ASSUME NEW i \in R
      PROVE  /\ (\A k \in R : i.index <= k.index) => Fits(i, To(j))
             /\ (\A k \in R : k.index <= i.index) => To(i) = to
             /\ i.callback = "logmint" => \A k \in R : i.index <= k.index
             /\ \A h \in R : h.index < i.index
                  => Fits(i, To(h)) \/ \E k \in R : h.index < k.index /\ k.index < i.index
  <2>1. i \in S /\ i # j /\ i.index \in Nat /\ j.index \in Nat /\ j.index < i.index
    BY <1>3
  <2>2. ASSUME \A k \in R : i.index <= k.index
        PROVE  Fits(i, To(j))
    <3>1. ~ \E k \in S : j.index < k.index /\ k.index < i.index
      BY <2>1, <2>2
    <3>2. QED
      BY <2>1, <3>1 DEF Chain
  <2>3. ASSUME \A k \in R : k.index <= i.index
        PROVE  To(i) = to
    <3>1. \A k \in S : k.index <= i.index
      BY <2>1, <2>3
    <3>2. QED
      BY <2>1, <3>1 DEF Chain
  <2>4. i.callback = "logmint" => \A k \in R : i.index <= k.index
    BY <2>1 DEF Chain
  <2>5. ASSUME NEW h \in R, h.index < i.index
        PROVE  Fits(i, To(h)) \/ \E k \in R : h.index < k.index /\ k.index < i.index
    <3>1. Fits(i, To(h)) \/ \E k \in S : h.index < k.index /\ k.index < i.index
      BY <2>1, <2>5 DEF Chain
    <3>2. \A k \in S : h.index < k.index => k \in R
      BY <2>5
    <3>3. QED
      BY <3>1, <3>2
  <2>6. QED
    BY <2>2, <2>3, <2>4, <2>5
<1>4. QED
  BY <1>1, <1>2, <1>3 DEF Chain

LEMMA ChainAdd ==
  ASSUME NEW S, NEW from, NEW to, Chain(S, from, to), \A k \in S : k.index \in Nat,
         NEW j, j.index \in Nat, \A k \in S : k.index < j.index, Fits(j, to),
         j.callback = "logmint" => S = {}
  PROVE  Chain(S \cup {j}, from, To(j))
<1> DEFINE R == S \cup {j}
<1>1. R # {}
  OBVIOUS
<1>2. ASSUME NEW i \in R
      PROVE  /\ (\A k \in R : i.index <= k.index) => Fits(i, from)
             /\ (\A k \in R : k.index <= i.index) => To(i) = To(j)
             /\ i.callback = "logmint" => \A k \in R : i.index <= k.index
             /\ \A h \in R : h.index < i.index
                  => Fits(i, To(h)) \/ \E k \in R : h.index < k.index /\ k.index < i.index
  <2>1. CASE i \in S
    <3>1. i.index < j.index /\ i.index \in Nat
      BY <2>1
    <3>2. (\A k \in R : i.index <= k.index) => Fits(i, from)
      BY <2>1 DEF Chain
    <3>3. ~ \A k \in R : k.index <= i.index
      BY <3>1
    <3>4. i.callback = "logmint" => \A k \in R : i.index <= k.index
      BY <2>1, <3>1 DEF Chain
    <3>5. ASSUME NEW h \in R, h.index < i.index
          PROVE  Fits(i, To(h)) \/ \E k \in R : h.index < k.index /\ k.index < i.index
      <4>1. h \in S
        BY <3>1, <3>5
      <4>2. QED
        BY <2>1, <3>5, <4>1 DEF Chain
    <3>6. QED
      BY <3>2, <3>3, <3>4, <3>5
  <2>2. CASE i = j
    <3>1. (\A k \in R : i.index <= k.index) => Fits(i, from)
      <4>1. SUFFICES ASSUME \A k \in R : i.index <= k.index PROVE Fits(i, from)
        OBVIOUS
      <4>2. \A k \in S : k.index \in Nat /\ k.index < j.index /\ j.index <= k.index
        BY <2>2, <4>1
      <4>3. S = {}
        BY <4>2
      <4>4. from = to
        BY <4>3 DEF Chain
      <4>5. QED
        BY <2>2, <4>4
    <3>2. i.callback = "logmint" => \A k \in R : i.index <= k.index
      BY <2>2
    <3>3. ASSUME NEW h \in R, h.index < i.index
          PROVE  Fits(i, To(h)) \/ \E k \in R : h.index < k.index /\ k.index < i.index
      <4>1. h \in S /\ h.index \in Nat
        BY <2>2, <3>3
      <4>2. CASE \A k \in S : k.index <= h.index
        <5>1. To(h) = to
          BY <4>1, <4>2 DEF Chain
        <5>2. QED
          BY <2>2, <5>1
      <4>3. CASE ~ \A k \in S : k.index <= h.index
        <5>1. PICK k \in S : ~ (k.index <= h.index)
          BY <4>3
        <5>2. k \in R /\ h.index < k.index /\ k.index < i.index
          BY <2>2, <4>1, <5>1
        <5>3. QED
          BY <5>2
      <4>4. QED
        BY <4>2, <4>3
    <3>4. QED
      BY <2>2, <3>1, <3>2, <3>3
  <2>3. QED
    BY <1>2, <2>1, <2>2
<1>3. QED
  BY <1>1, <1>2 DEF Chain

-----------------------------------------------------------------------------
(* Jobs *)

LEMMA JobKinds ==
  ASSUME NEW j, IsJob(j)
  PROVE  /\ j = [callback |-> j.callback, priority |-> j.priority, trace |-> j.trace, index |-> j.index]
         /\ j.index \in Nat /\ j.priority \in Int
         /\ j.callback \in Callbacks
         /\ j.callback = "logmint" => j.priority = 50 /\ j.trace \in MintTraces
         /\ j.callback = "logtransfer" => j.priority = 60 /\ j.trace \in TransferTraces /\ j.trace.asset_ids # {}
         /\ j.callback = "logburnasset" => j.priority = 60 /\ j.trace \in BurnTraces
         /\ j.callback = "collect" => j.priority = 10 /\ j.trace \in TransferTraces \cup BurnTraces
         /\ j.callback = "lognewoffer" => j.priority = 80 /\ j.trace \in NewOfferTraces
         /\ j.callback = "close" => j.priority = 90 /\ j.trace \in CloseTraces
<1>1. j \in AnyJob
  BY DEF IsJob
<1>2. j = [callback |-> j.callback, priority |-> j.priority, trace |-> j.trace, index |-> j.index]
  BY <1>1 DEF AnyJob
<1>3. j.index \in Nat /\ j.priority \in Priorities /\ j.callback \in Callbacks
  BY <1>1 DEF AnyJob
<1>4. j.priority \in Int
  BY <1>3 DEF Priorities, INDEPENDENT, ACTION_MINT_ASSET, ACTION_UPDATE_ASSET, ACTION_CREATE_OFFER, ACTION_UPDATE_OFFER
<1>5. QED
  BY <1>2, <1>3, <1>4, Zenon DEF IsJob, INDEPENDENT, ACTION_MINT_ASSET, ACTION_UPDATE_ASSET, ACTION_CREATE_OFFER, ACTION_UPDATE_OFFER

(* The trace and the callback make the job. *)
LEMMA SameJob ==
  ASSUME NEW j, NEW k, IsJob(j), IsJob(k), j.index = k.index, j.trace = k.trace, j.callback = k.callback
  PROVE  j = k
<1>1. j.priority = k.priority
  <2>1. j.callback \in Callbacks
    BY JobKinds
  <2>2. QED
    BY <2>1, JobKinds DEF Callbacks
<1>2. QED
  BY <1>1, JobKinds

(* An asset moves only once in a trace. *)
LEMMA MoveKinds ==
  ASSUME NEW j, IsJob(j), NEW x, Moves(j, x)
  PROVE  /\ j.callback = j.trace.action
         /\ j.callback = "logmint" => x = j.trace.asset_id
         /\ j.callback # "logmint" => x \in j.trace.asset_ids /\ j.priority = 60
         /\ j.priority \in {50, 60}
<1>1. j.callback \in {"logmint", "logtransfer", "logburnasset"}
  BY DEF Moves
<1>2. j.callback = j.trace.action
  BY <1>1, JobKinds DEF MintTraces, TransferTraces, BurnTraces
<1>3. QED
  BY <1>1, <1>2, JobKinds DEF Moves, AssetsOf

LEMMA OneMove ==
  ASSUME TypeOK, QueueInv, NEW x
  PROVE  /\ \A j \in MovesOf(x) : IsJob(j) /\ j.index \in Nat /\ j \in Pending
         /\ \A j, k \in MovesOf(x) : j.index = k.index => j = k
<1>1. \A j \in MovesOf(x) : IsJob(j) /\ j \in Pending /\ Moves(j, x)
  BY DEF MovesOf, TypeOK
<1>2. \A j \in MovesOf(x) : j.index \in Nat
  BY <1>1, JobKinds
<1>3. ASSUME NEW j \in MovesOf(x), NEW k \in MovesOf(x), j.index = k.index
      PROVE  j = k
  <2>1. j.trace = k.trace
    BY <1>1, <1>3 DEF QueueInv
  <2>2. j.callback = k.callback
    BY <1>1, <2>1, MoveKinds
  <2>3. QED
    BY <1>1, <1>3, <2>1, <2>2, SameJob
<1>4. QED
  BY <1>1, <1>2, <1>3

(* The owner of a row that is yet to be inserted. *)
LEMMA RowOwners ==
  ASSUME AssetsInv, NEW x
  PROVE  /\ \A r \in tableInserts : r.asset = x => RowOwner(x) = r.owner
         /\ ~ Inserted(x) => RowOwner(x) = owner[x]
<1>1. ASSUME NEW r \in tableInserts, r.asset = x
      PROVE  RowOwner(x) = r.owner
  <2> DEFINE c == CHOOSE s \in tableInserts : s.asset = x
  <2>1. c \in tableInserts /\ c.asset = x
    BY <1>1
  <2>2. c = r
    BY <1>1, <2>1 DEF AssetsInv
  <2>3. Inserted(x)
    BY <1>1 DEF Inserted
  <2>4. QED
    BY <2>2, <2>3 DEF RowOwner
<1>2. QED
  BY <1>1 DEF RowOwner

-----------------------------------------------------------------------------
(* A job runs *)

LEMMA RunFacts ==
  ASSUME TypeOK, QueueInv, NEW j \in queue, NEW cb, Runs(j, cb)
  PROVE  /\ IsJob(j) /\ j \in Pending /\ j.callback = cb /\ j.priority \in Priorities
         /\ executing /\ executing' /\ liveQueue = {} /\ liveQueue' = {}
         /\ Pending = queue /\ Pending' = Pending \ {j}
         /\ lastPriority' = j.priority /\ traces' = traces
         /\ \A k \in Pending : ~ Before(k, j) /\ k.priority >= j.priority
         /\ tableInserts # {} => j.callback = "logmint"
<1>1. /\ executing /\ j.callback = cb /\ ~ PriorityDone /\ IsNext(j)
      /\ queue' = queue \ {j} /\ lastPriority' = j.priority /\ UNCHANGED <<liveQueue, traces, executing>>
  BY DEF Runs
<1>2. liveQueue = {} /\ liveQueue' = {} /\ Pending = queue
  BY <1>1 DEF QueueInv, Pending
<1>3. Pending' = Pending \ {j}
  BY <1>1, <1>2 DEF Pending
<1>4. IsJob(j) /\ j \in Pending
  BY <1>2 DEF TypeOK
<1>5. j.priority \in Priorities /\ j.priority \in Int
  BY <1>4, JobKinds DEF IsJob, AnyJob
<1>6. \A k \in Pending : ~ Before(k, j)
  BY <1>1, <1>2 DEF IsNext
<1>7. \A k \in Pending : k.priority \in Int
  BY JobKinds DEF TypeOK
<1>8. \A k \in Pending : k.priority >= j.priority
  BY <1>5, <1>6, <1>7 DEF Before
<1>9. tableInserts # {} => j.callback = "logmint"
  <2>1. SUFFICES ASSUME tableInserts # {} PROVE j.callback = "logmint"
    OBVIOUS
  <2>2. lastPriority = 50
    BY <2>1 DEF QueueInv, ACTION_MINT_ASSET
  <2>3. PICK k \in queue : k.priority = 50
    BY <1>1, <2>2 DEF PriorityDone, None
  <2>4. j.priority <= 50
    BY <1>2, <1>5, <1>8, <2>3
  <2>5. j.priority >= 50
    BY <2>2 DEF QueueInv, None
  <2>6. j.priority = 50
    BY <1>5, <2>4, <2>5
  <2>7. QED
    BY <1>4, <2>6, JobKinds DEF Callbacks
<1>10. QED
  BY <1>1, <1>2, <1>3, <1>4, <1>5, <1>6, <1>8, <1>9

LEMMA QueueKept ==
  ASSUME TypeOK, QueueInv, NEW j \in queue, NEW cb, Runs(j, cb), tableInserts' # {} => j.callback = "logmint"
  PROVE  QueueInv' /\ (\A k \in Pending' : IsJob(k)) /\ executing' \in BOOLEAN
         /\ traces' \in Nat /\ lastPriority' \in Priorities \cup {None}
<1>1. /\ IsJob(j) /\ j.priority \in Priorities /\ executing' /\ liveQueue' = {} /\ Pending = queue
      /\ Pending' = Pending \ {j} /\ lastPriority' = j.priority /\ traces' = traces
      /\ \A k \in Pending : k.priority >= j.priority
  BY RunFacts
<1>2. queue' = Pending'
  BY <1>1 DEF Runs, Pending
<1>3. \A k \in queue' : k.priority >= lastPriority'
  BY <1>1, <1>2
<1>4. \A k, m \in Pending' : k.index = m.index => k.trace = m.trace
  BY <1>1 DEF QueueInv
<1>5. tableInserts' # {} => lastPriority' = ACTION_MINT_ASSET
  BY <1>1, JobKinds DEF ACTION_MINT_ASSET
<1>6. QueueInv'
  BY <1>1, <1>3, <1>4, <1>5 DEF QueueInv
<1>7. QED
  BY <1>1, <1>6 DEF TypeOK

(* What a job that moves nothing leaves alone. *)
LEMMA SameAssets ==
  ASSUME AssetsInv, NEW j, Pending' = Pending \ {j},
         j.callback \notin {"logmint", "logtransfer", "logburnasset"},
         UNCHANGED <<owner, tableInserts, holder>>
  PROVE  AssetsInv'
<1>1. \A x : MovesOf(x)' = MovesOf(x)
  <2>1. \A x : ~ Moves(j, x)
    BY DEF Moves
  <2>2. QED
    BY <2>1 DEF MovesOf
<1>2. \A x : RowOwner(x)' = RowOwner(x)
  BY DEF RowOwner, Inserted
<1>3. \A x \in Assets : Chained(x)'
  BY <1>1, <1>2 DEF AssetsInv, Chained
<1>4. QED
  BY <1>3 DEF AssetsInv

LEMMA SameLife ==
  ASSUME NEW o \in Offers, Lives(o), CreatesOf(o)' = CreatesOf(o), ClosesOf(o)' = ClosesOf(o),
         state'[o] = state[o], deal'[o] = deal[o]
  PROVE  Lives(o)'
BY DEF Lives

LEMMA TermsFacts ==
  ASSUME TypeOK, NEW o \in Offers
  PROVE  Terms(deal[o]) \in AllTerms /\ (deal[o].status = "none" => Terms(deal[o]) = {})
<1>1. CASE deal[o] = NoDeal
  <2>1. Terms(deal[o]) = {}
    <3>1. ASSUME NEW t \in Terms(deal[o]) PROVE FALSE
      BY <1>1 DEF Terms, NoDeal
    <3>2. QED
      BY <3>1
  <2>2. QED
    BY <2>1 DEF AllTerms
<1>2. CASE deal[o] # NoDeal
  <2>1. deal[o] \in Made
    BY <1>2 DEF TypeOK
  <2>2. deal[o].status # "none"
    BY <2>1 DEF Made, Closed
  <2>3. \A t \in Terms(deal[o]) : t \in [asset : Assets, owner : Accounts]
    BY <2>1 DEF Terms, Made
  <2>4. QED
    BY <2>2, <2>3 DEF AllTerms
<1>3. QED
  BY <1>1, <1>2

(* An offer stays right if what its assets do is remembered. *)
LEMMA StillAgrees ==
  ASSUME NEW o \in Offers, Agrees(o), CreatesOf(o)' = CreatesOf(o),
         state'[o] = state[o], offerAssets'[o] = offerAssets[o], Terms(deal'[o]) = Terms(deal[o]),
         deal'[o].status # "none" => deal[o].status # "none",
         \A t \in Terms(deal[o]) :
           /\ Touched(t.asset) => Touched(t.asset)'
           /\ Touched(t.asset)' \/ holder'[t.asset] = holder[t.asset]
           /\ holder[t.asset] # NoRow => holder'[t.asset] # NoRow
  PROVE  Agrees(o)'
<1> DEFINE T == Terms(deal[o])
<1>1. state'[o] # NoRow => offerAssets'[o] = Terms(deal'[o])
  BY DEF Agrees
<1>2. deal'[o].status # "none" => \A t \in Terms(deal'[o]) : holder'[t.asset] # NoRow
  BY DEF Agrees
<1>3. ASSUME state'[o] \in {"PENDING", "INVALID"}, \A t \in Terms(deal'[o]) : ~ Touched(t.asset)'
      PROVE  state'[o] = "PENDING" <=> Holds(deal[o])'
  <2>1. \A t \in T : ~ Touched(t.asset) /\ holder'[t.asset] = holder[t.asset]
    BY <1>3
  <2>2. Holds(deal[o])' <=> Holds(deal[o])
    BY <2>1 DEF Holds
  <2>3. state[o] = "PENDING" <=> Holds(deal[o])
    BY <1>3, <2>1 DEF Agrees
  <2>4. QED
    BY <2>2, <2>3
<1>4. CreatesOf(o)' # {} => \A t \in Terms(deal'[o]) : Touched(t.asset)' \/ holder'[t.asset] = t.owner
  <2>1. CreatesOf(o) # {} => \A t \in T : Touched(t.asset) \/ holder[t.asset] = t.owner
    BY DEF Agrees
  <2>2. QED
    BY <2>1
<1>5. QED
  BY <1>1, <1>2, <1>3, <1>4 DEF Agrees

(* What a job that has nothing to do with offers leaves alone.             *)
LEMMA SameOffers ==
  ASSUME OffersInv, NEW j, Pending' = Pending \ {j},
         j.callback \notin {"collect", "lognewoffer", "close"},
         UNCHANGED <<holder, deal, state, offerAssets, transferredAssets>>
  PROVE  OffersInv'
<1>1. \A o : CreatesOf(o)' = CreatesOf(o) /\ ClosesOf(o)' = ClosesOf(o)
  BY DEF CreatesOf, ClosesOf
<1>2. \A x : Touched(x)' <=> Touched(x)
  BY DEF Touched
<1>3. SUFFICES ASSUME NEW o \in Offers
               PROVE  Lives(o)' /\ Agrees(o)'
  BY DEF OffersInv
<1>4. Lives(o) /\ Agrees(o)
  BY DEF OffersInv
<1>5. Lives(o)'
  BY <1>1, <1>4, SameLife
<1>6. Agrees(o)'
  BY <1>1, <1>2, <1>4, StillAgrees
<1>7. QED
  BY <1>5, <1>6

-----------------------------------------------------------------------------
(* The handlers *)

LEMMA LogMintStep ==
  ASSUME Inv, NEW j \in queue, LogMint(j)
  PROVE  Inv' /\ state' = state
<1> DEFINE x == j.trace.asset_id
           a == j.trace.new_asset_owner
           row == [asset |-> x, owner |-> a]
<1>1. /\ Runs(j, "logmint") /\ tableInserts' = tableInserts \cup {row}
      /\ UNCHANGED <<holder, deal, owner, state, offerAssets, transferredAssets>>
  BY DEF LogMint, chainVars, tableVars
<1>2. TypeOK /\ QueueInv /\ AssetsInv /\ OffersInv
  BY DEF Inv
<1>3. /\ IsJob(j) /\ j \in Pending /\ j.callback = "logmint" /\ Pending' = Pending \ {j}
      /\ \A k \in Pending : ~ Before(k, j)
  BY <1>1, <1>2, RunFacts
<1>4. j.trace \in MintTraces /\ j.priority = 50
  BY <1>3, JobKinds
<1>5. x \in Assets /\ a \in Accounts /\ a # NoRow
  BY <1>4, AccountAssumption DEF MintTraces
<1>6. QueueInv' /\ (\A k \in Pending' : IsJob(k)) /\ executing' \in BOOLEAN
      /\ traces' \in Nat /\ lastPriority' \in Priorities \cup {None}
  BY <1>1, <1>2, <1>3, QueueKept
<1>7. TypeOK'
  <2>1. tableInserts' \in SUBSET [asset : Assets, owner : Accounts]
    BY <1>1, <1>2, <1>5 DEF TypeOK
  <2>2. QED
    BY <1>1, <1>2, <1>6, <2>1 DEF TypeOK
<1>8. j \in MovesOf(x) /\ To(j) = a
  BY <1>3, <1>4 DEF MovesOf, Moves, AssetsOf, To, MintTraces
<1>9. \A y : MovesOf(y)' = MovesOf(y) \ {j}
  BY <1>3 DEF MovesOf
<1>10. \A y : y # x => j \notin MovesOf(y)
  BY <1>3, MoveKinds DEF MovesOf
<1>11. Chain(MovesOf(x), RowOwner(x), holder[x]) /\ (MovesOf(x) # {} => holder[x] # NoRow)
  BY <1>2, <1>5 DEF AssetsInv, Chained
<1>12. \A k \in MovesOf(x) : j.index <= k.index
  BY <1>3, <1>8, <1>11 DEF Chain
<1>13. Fits(j, RowOwner(x)) /\ Chain(MovesOf(x) \ {j}, a, holder[x])
  <2>1. /\ \A k \in MovesOf(x) : k.index \in Nat
        /\ \A k \in MovesOf(x) : k.index = j.index => k = j
    BY <1>2, <1>8, OneMove
  <2>2. QED
    BY <1>8, <1>11, <1>12, <2>1, ChainDrop
<1>14. ~ Inserted(x)
  <2>1. RowOwner(x) = NoRow
    BY <1>3, <1>13 DEF Fits
  <2>2. ASSUME NEW r \in tableInserts, r.asset = x PROVE FALSE
    <3>1. RowOwner(x) = r.owner
      BY <1>2, <2>2, RowOwners
    <3>2. r.owner \in Accounts
      BY <1>2, <2>2 DEF TypeOK
    <3>3. QED
      BY <2>1, <3>1, <3>2, AccountAssumption
  <2>3. QED
    BY <2>2 DEF Inserted
<1>15. \A r, s \in tableInserts' : r.asset = s.asset => r = s
  <2>1. \A r \in tableInserts : r.asset # x
    BY <1>14 DEF Inserted
  <2>2. row.asset = x
    OBVIOUS
  <2>3. \A r, s \in tableInserts : r.asset = s.asset => r = s
    BY <1>2 DEF AssetsInv
  <2>4. QED
    BY <1>1, <2>1, <2>2, <2>3
<1>16. RowOwner(x)' = a /\ \A y : y # x => RowOwner(y)' = RowOwner(y)
  <2>1. ASSUME NEW y, NEW r \in tableInserts', r.asset = y
        PROVE  RowOwner(y)' = r.owner
    <3> DEFINE c == CHOOSE s \in tableInserts' : s.asset = y
    <3>1. c \in tableInserts' /\ c.asset = y
      BY <2>1
    <3>2. c = r
      BY <1>15, <2>1, <3>1
    <3>3. Inserted(y)'
      BY <2>1 DEF Inserted
    <3>4. QED
      BY <3>2, <3>3 DEF RowOwner
  <2>2. RowOwner(x)' = a
    <3>1. row \in tableInserts' /\ row.asset = x /\ row.owner = a
      BY <1>1
    <3>2. QED
      BY <2>1, <3>1
  <2>3. ASSUME NEW y, y # x
        PROVE  RowOwner(y)' = RowOwner(y)
    <3>1. CASE Inserted(y)
      <4>1. PICK r \in tableInserts : r.asset = y
        BY <3>1 DEF Inserted
      <4>2. RowOwner(y) = r.owner
        BY <1>2, <4>1, RowOwners
      <4>3. r \in tableInserts'
        BY <1>1
      <4>4. QED
        BY <2>1, <4>1, <4>2, <4>3
    <3>2. CASE ~ Inserted(y)
      <4>1. ~ Inserted(y)'
        BY <1>1, <2>3, <3>2 DEF Inserted
      <4>2. QED
        BY <1>1, <3>2, <4>1 DEF RowOwner
    <3>3. QED
      BY <3>1, <3>2
  <2>4. QED
    BY <2>2, <2>3
<1>17. ASSUME NEW y \in Assets
       PROVE  Chained(y)'
  <2>1. CASE y = x
    BY <1>1, <1>8, <1>9, <1>11, <1>13, <1>16, <2>1 DEF Chained
  <2>2. CASE y # x
    <3>1. MovesOf(y)' = MovesOf(y)
      BY <1>9, <1>10, <2>2
    <3>2. QED
      BY <1>1, <1>2, <1>16, <2>2, <3>1 DEF AssetsInv, Chained
  <2>3. QED
    BY <2>1, <2>2
<1>18. AssetsInv'
  BY <1>15, <1>17 DEF AssetsInv
<1>19. OffersInv'
  BY <1>1, <1>2, <1>3, SameOffers
<1>20. QED
  BY <1>1, <1>6, <1>7, <1>18, <1>19 DEF Inv

(* The next job to run. *)
LEMMA NextFacts ==
  ASSUME TypeOK, QueueInv, executing, ~ PriorityDone, NEW j \in queue, IsNext(j)
  PROVE  /\ IsJob(j) /\ j \in Pending
         /\ \A k \in Pending : ~ Before(k, j)
         /\ tableInserts # {} => j.callback = "logmint"
<1>1. liveQueue = {} /\ Pending = queue /\ j \in Pending /\ IsJob(j)
  BY DEF QueueInv, Pending, TypeOK
<1>2. \A k \in Pending : ~ Before(k, j)
  BY <1>1 DEF IsNext
<1>3. j.priority \in Int /\ \A k \in Pending : k.priority \in Int
  BY <1>1, JobKinds DEF TypeOK
<1>4. tableInserts # {} => j.callback = "logmint"
  <2>1. SUFFICES ASSUME tableInserts # {} PROVE j.callback = "logmint"
    OBVIOUS
  <2>2. lastPriority = 50
    BY <2>1 DEF QueueInv, ACTION_MINT_ASSET
  <2>3. PICK k \in queue : k.priority = 50
    BY <2>2 DEF PriorityDone, None
  <2>4. j.priority <= 50
    BY <1>1, <1>2, <1>3, <2>3 DEF Before
  <2>5. j.priority >= 50
    BY <2>2 DEF QueueInv, None
  <2>6. j.priority = 50
    BY <1>3, <2>4, <2>5
  <2>7. QED
    BY <1>1, <2>6, JobKinds DEF Callbacks
<1>5. QED
  BY <1>1, <1>2, <1>4

(* A transfer or a burn that is next finds the row it needs. *)
LEMMA MoveFits ==
  ASSUME Inv, executing, ~ PriorityDone, NEW j \in queue, IsNext(j),
         j.callback \in {"logtransfer", "logburnasset"}, NEW x \in Assets, x \in j.trace.asset_ids
  PROVE  /\ tableInserts = {} /\ RowOwner(x) = owner[x] /\ j \in MovesOf(x)
         /\ \A k \in MovesOf(x) : j.index <= k.index
         /\ Fits(j, owner[x])
<1>1. TypeOK /\ QueueInv /\ AssetsInv
  BY DEF Inv
<1>2. IsJob(j) /\ j \in Pending /\ tableInserts = {} /\ \A k \in Pending : ~ Before(k, j)
  BY <1>1, NextFacts
<1>3. j.priority = 60 /\ j.index \in Nat /\ j.trace \in TransferTraces \cup BurnTraces
  BY <1>2, JobKinds
<1>4. j \in MovesOf(x)
  BY <1>2, <1>3 DEF MovesOf, Moves, AssetsOf, TransferTraces, BurnTraces
<1>5. RowOwner(x) = owner[x]
  BY <1>2 DEF RowOwner, Inserted
<1>6. ASSUME NEW k \in MovesOf(x)
      PROVE  j.index <= k.index
  <2>1. IsJob(k) /\ Moves(k, x) /\ k \in Pending
    BY <1>1, OneMove DEF MovesOf
  <2>2. k.priority \in {50, 60} /\ k.index \in Nat
    BY <2>1, MoveKinds, JobKinds
  <2>3. ~ Before(k, j)
    BY <1>2, <2>1
  <2>4. QED
    BY <1>3, <2>2, <2>3 DEF Before
<1>7. Chain(MovesOf(x), RowOwner(x), holder[x])
  BY <1>1 DEF AssetsInv, Chained
<1>8. Fits(j, owner[x])
  BY <1>4, <1>5, <1>6, <1>7 DEF Chain
<1>9. QED
  BY <1>2, <1>4, <1>5, <1>6, <1>8

(* A transfer or a burn. *)
LEMMA MoveStep ==
  ASSUME Inv, NEW j \in queue, Runs(j, j.callback), j.callback \in {"logtransfer", "logburnasset"},
         UNCHANGED <<holder, deal, state, offerAssets, tableInserts, transferredAssets>>,
         owner' \in [Assets -> Owners],
         \A x \in Assets : owner'[x] = IF x \in j.trace.asset_ids THEN To(j) ELSE owner[x]
  PROVE  Inv'
<1>1. TypeOK /\ QueueInv /\ AssetsInv /\ OffersInv
  BY DEF Inv
<1>2. /\ IsJob(j) /\ j \in Pending /\ Pending' = Pending \ {j} /\ tableInserts = {}
  BY <1>1, RunFacts
<1>3. executing /\ ~ PriorityDone /\ IsNext(j)
  BY DEF Runs
<1>4. tableInserts' = {}
  BY <1>2
<1>5. QueueInv' /\ (\A k \in Pending' : IsJob(k)) /\ executing' \in BOOLEAN
      /\ traces' \in Nat /\ lastPriority' \in Priorities \cup {None}
  BY <1>1, <1>4, QueueKept
<1>6. TypeOK'
  BY <1>1, <1>5 DEF TypeOK
<1>7. \A y : MovesOf(y)' = MovesOf(y) \ {j}
  BY <1>2 DEF MovesOf
<1>8. \A y : RowOwner(y) = owner[y] /\ RowOwner(y)' = owner'[y]
  BY <1>2, <1>4 DEF RowOwner, Inserted
<1>9. ASSUME NEW y \in Assets
      PROVE  Chained(y)'
  <2>1. Chained(y)
    BY <1>1 DEF AssetsInv
  <2>2. CASE y \in j.trace.asset_ids
    <3>1. j \in MovesOf(y) /\ (\A k \in MovesOf(y) : j.index <= k.index)
      BY <1>3, <2>2, MoveFits
    <3>2. /\ \A k \in MovesOf(y) : k.index \in Nat
          /\ \A k \in MovesOf(y) : k.index = j.index => k = j
      BY <1>1, <3>1, OneMove
    <3>3. Chain(MovesOf(y), RowOwner(y), holder[y])
      BY <2>1 DEF Chained
    <3>4. Chain(MovesOf(y) \ {j}, To(j), holder[y])
      BY <3>1, <3>2, <3>3, ChainDrop
    <3>5. RowOwner(y)' = To(j)
      BY <1>8, <2>2
    <3>6. QED
      BY <1>7, <2>1, <3>1, <3>4, <3>5 DEF Chained
  <2>3. CASE y \notin j.trace.asset_ids
    <3>1. j \notin MovesOf(y)
      BY <1>2, <2>3, MoveKinds DEF MovesOf
    <3>2. MovesOf(y)' = MovesOf(y)
      BY <1>7, <3>1
    <3>3. RowOwner(y)' = RowOwner(y)
      BY <1>8, <2>3
    <3>4. QED
      BY <2>1, <3>2, <3>3 DEF Chained
  <2>4. QED
    BY <2>2, <2>3
<1>10. AssetsInv'
  BY <1>4, <1>9 DEF AssetsInv
<1>11. OffersInv'
  BY <1>1, <1>2, SameOffers
<1>12. QED
  BY <1>5, <1>6, <1>10, <1>11 DEF Inv

LEMMA LogTransferStep ==
  ASSUME Inv, NEW j \in queue, LogTransfer(j)
  PROVE  Inv'
<1>1. /\ Runs(j, "logtransfer") /\ j.callback = "logtransfer"
      /\ owner' = [x \in Assets |-> IF x \in j.trace.asset_ids /\ owner[x] = j.trace.from
                                    THEN j.trace.to ELSE owner[x]]
      /\ UNCHANGED <<holder, deal, state, offerAssets, tableInserts, transferredAssets>>
  BY DEF LogTransfer, chainVars, memory, Runs
<1>2. IsJob(j)
  BY <1>1, RunFacts DEF Inv
<1>3. j.trace.to \in Accounts /\ To(j) = j.trace.to
  BY <1>1, <1>2, JobKinds DEF TransferTraces, To
<1>4. owner' \in [Assets -> Owners]
  BY <1>1, <1>3 DEF Inv, TypeOK, Owners
<1>5. \A x \in Assets : x \in j.trace.asset_ids => owner[x] = j.trace.from
  <2>1. executing /\ ~ PriorityDone /\ IsNext(j)
    BY <1>1 DEF Runs
  <2>2. \A x \in Assets : x \in j.trace.asset_ids => Fits(j, owner[x])
    BY <1>1, <2>1, MoveFits
  <2>3. QED
    BY <1>1, <2>2 DEF Fits
<1>6. \A x \in Assets : owner'[x] = IF x \in j.trace.asset_ids THEN To(j) ELSE owner[x]
  BY <1>1, <1>3, <1>5
<1>7. QED
  BY <1>1, <1>4, <1>6, MoveStep

LEMMA LogBurnAssetStep ==
  ASSUME Inv, NEW j \in queue, LogBurnAsset(j)
  PROVE  Inv'
<1>1. /\ Runs(j, "logburnasset") /\ j.callback = "logburnasset"
      /\ owner' = [x \in Assets |-> IF x \in j.trace.asset_ids THEN Burned ELSE owner[x]]
      /\ UNCHANGED <<holder, deal, state, offerAssets, tableInserts, transferredAssets>>
  BY DEF LogBurnAsset, chainVars, memory, Runs
<1>2. To(j) = Burned
  BY <1>1 DEF To
<1>3. owner' \in [Assets -> Owners]
  BY <1>1 DEF Inv, TypeOK, Owners
<1>4. \A x \in Assets : owner'[x] = IF x \in j.trace.asset_ids THEN To(j) ELSE owner[x]
  BY <1>1, <1>2
<1>5. QED
  BY <1>1, <1>3, <1>4, MoveStep

(* The listeners of a completed priority insert what was minted. *)
LEMMA PriorityCompleteStep ==
  ASSUME Inv, PriorityComplete
  PROVE  Inv' /\ state' = state
<1>1. /\ PriorityDone /\ lastPriority' = None
      /\ UNCHANGED <<liveQueue, traces, executing, queue, holder, deal, state, offerAssets, transferredAssets>>
  BY DEF PriorityComplete, CompletePriority, chainVars
<1>2. TypeOK /\ QueueInv /\ AssetsInv /\ OffersInv
  BY DEF Inv
<1>3. Pending' = Pending
  BY <1>1 DEF Pending
<1>4. tableInserts' = {} /\ owner' \in [Assets -> Owners] /\ \A x \in Assets : owner'[x] = RowOwner(x)
  <2>1. CASE lastPriority = ACTION_MINT_ASSET
    <3>1. /\ owner' = [x \in Assets |-> IF \E r \in tableInserts : r.asset = x
                                        THEN (CHOOSE r \in tableInserts : r.asset = x).owner
                                        ELSE owner[x]]
          /\ tableInserts' = {}
      BY <2>1 DEF PriorityComplete
    <3>2. \A x \in Assets : owner'[x] = RowOwner(x)
      BY <3>1 DEF RowOwner, Inserted
    <3>3. \A x \in Assets : RowOwner(x) \in Owners
      <4>1. TAKE x \in Assets
      <4>2. CASE Inserted(x)
        <5>1. PICK r \in tableInserts : r.asset = x
          BY <4>2 DEF Inserted
        <5>2. RowOwner(x) = r.owner /\ r.owner \in Accounts
          BY <1>2, <5>1, RowOwners DEF TypeOK
        <5>3. QED
          BY <5>2 DEF Owners
      <4>3. CASE ~ Inserted(x)
        BY <1>2, <4>3, RowOwners DEF TypeOK
      <4>4. QED
        BY <4>2, <4>3
    <3>4. QED
      BY <3>1, <3>2, <3>3
  <2>2. CASE lastPriority # ACTION_MINT_ASSET
    <3>1. tableInserts = {}
      BY <1>2, <2>2 DEF QueueInv
    <3>2. owner' = owner /\ tableInserts' = tableInserts
      BY <2>2 DEF PriorityComplete
    <3>3. \A x : RowOwner(x) = owner[x]
      BY <3>1 DEF RowOwner, Inserted
    <3>4. QED
      BY <1>2, <3>1, <3>2, <3>3 DEF TypeOK
  <2>3. QED
    BY <2>1, <2>2
<1>5. TypeOK'
  BY <1>1, <1>2, <1>3, <1>4 DEF TypeOK
<1>6. QueueInv'
  BY <1>1, <1>2, <1>3, <1>4 DEF QueueInv
<1>7. AssetsInv'
  <2>1. \A x : MovesOf(x)' = MovesOf(x)
    BY <1>3 DEF MovesOf
  <2>2. \A x \in Assets : RowOwner(x)' = RowOwner(x)
    BY <1>4 DEF RowOwner, Inserted
  <2>3. \A x \in Assets : Chained(x)'
    BY <1>1, <1>2, <2>1, <2>2 DEF AssetsInv, Chained
  <2>4. QED
    BY <1>4, <2>3 DEF AssetsInv
<1>8. OffersInv'
  <2>1. \A o : CreatesOf(o)' = CreatesOf(o) /\ ClosesOf(o)' = ClosesOf(o)
    BY <1>3 DEF CreatesOf, ClosesOf
  <2>2. \A x : Touched(x)' <=> Touched(x)
    BY <1>1, <1>3 DEF Touched
  <2>3. SUFFICES ASSUME NEW o \in Offers
                 PROVE  Lives(o)' /\ Agrees(o)'
    BY DEF OffersInv
  <2>4. Lives(o) /\ Agrees(o)
    BY <1>2 DEF OffersInv
  <2>5. Lives(o)'
    BY <1>1, <2>1, <2>4, SameLife
  <2>6. Agrees(o)'
    BY <1>1, <2>1, <2>2, <2>4, StillAgrees
  <2>7. QED
    BY <2>5, <2>6
<1>9. QED
  BY <1>1, <1>5, <1>6, <1>7, <1>8 DEF Inv

(* offers.ts remembers what moves. *)
LEMMA CollectStep ==
  ASSUME Inv, NEW j \in queue, Collect(j)
  PROVE  Inv' /\ state' = state
<1>1. /\ Runs(j, "collect")
      /\ transferredAssets' = transferredAssets \cup j.trace.asset_ids
      /\ UNCHANGED <<holder, deal, owner, state, offerAssets, tableInserts>>
  BY DEF Collect, chainVars, tableVars
<1>2. TypeOK /\ QueueInv /\ AssetsInv /\ OffersInv
  BY DEF Inv
<1>3. /\ IsJob(j) /\ j.callback = "collect" /\ Pending' = Pending \ {j}
      /\ tableInserts # {} => j.callback = "logmint"
  BY <1>1, <1>2, RunFacts
<1>4. j.trace.asset_ids \in SUBSET Assets
  BY <1>3, JobKinds DEF TransferTraces, BurnTraces
<1>5. QueueInv' /\ (\A k \in Pending' : IsJob(k)) /\ executing' \in BOOLEAN
      /\ traces' \in Nat /\ lastPriority' \in Priorities \cup {None}
  BY <1>1, <1>2, <1>3, QueueKept
<1>6. TypeOK'
  BY <1>1, <1>2, <1>4, <1>5 DEF TypeOK
<1>7. AssetsInv'
  BY <1>1, <1>2, <1>3, SameAssets
<1>8. \A o : CreatesOf(o)' = CreatesOf(o) /\ ClosesOf(o)' = ClosesOf(o)
  BY <1>3 DEF CreatesOf, ClosesOf
<1>9. \A x : Touched(x) => Touched(x)'
  BY <1>1, <1>3 DEF Touched
<1>10. SUFFICES ASSUME NEW o \in Offers
                PROVE  Lives(o)' /\ Agrees(o)'
  BY <1>1, <1>5, <1>6, <1>7 DEF Inv, OffersInv
<1>11. Lives(o) /\ Agrees(o)
  BY <1>2 DEF OffersInv
<1>12. Lives(o)'
  BY <1>1, <1>8, <1>11, SameLife
<1>13. Agrees(o)'
  BY <1>1, <1>8, <1>9, <1>11, StillAgrees
<1>14. QED
  BY <1>12, <1>13

LEMMA LogNewOfferStep ==
  ASSUME Inv, NEW j \in queue, LogNewOffer(j)
  PROVE  Inv' /\ (\A o \in Offers : state[o] \in Closed => state'[o] = state[o])
<1> DEFINE n == j.trace.offer_id
<1>1. /\ Runs(j, "lognewoffer")
      /\ state' = [state EXCEPT ![n] = "PENDING"]
      /\ offerAssets' = [offerAssets EXCEPT ![n] = j.trace.terms]
      /\ UNCHANGED <<holder, deal, owner, tableInserts, transferredAssets>>
  BY DEF LogNewOffer, chainVars, memory
<1>2. TypeOK /\ QueueInv /\ AssetsInv /\ OffersInv
  BY DEF Inv
<1>3. /\ IsJob(j) /\ j \in Pending /\ j.callback = "lognewoffer" /\ Pending' = Pending \ {j}
      /\ tableInserts # {} => j.callback = "logmint"
  BY <1>1, <1>2, RunFacts
<1>4. n \in Offers /\ j.trace.terms \in AllTerms
  BY <1>3, JobKinds DEF NewOfferTraces
<1>5. QueueInv' /\ (\A k \in Pending' : IsJob(k)) /\ executing' \in BOOLEAN
      /\ traces' \in Nat /\ lastPriority' \in Priorities \cup {None}
  BY <1>1, <1>2, <1>3, QueueKept
<1>6. TypeOK'
  BY <1>1, <1>2, <1>4, <1>5 DEF TypeOK
<1>7. AssetsInv'
  BY <1>1, <1>2, <1>3, SameAssets
<1>8. /\ \A o : ClosesOf(o)' = ClosesOf(o)
      /\ \A o : CreatesOf(o)' = CreatesOf(o) \ {j}
      /\ \A o : o # n => CreatesOf(o)' = CreatesOf(o)
      /\ j \in CreatesOf(n)
  BY <1>3 DEF CreatesOf, ClosesOf
<1>9. \A x : Touched(x) <=> Touched(x)'
  BY <1>1, <1>3 DEF Touched
<1>10. state[n] = NoRow /\ state'[n] = "PENDING" /\ offerAssets'[n] = j.trace.terms
       /\ \A o \in Offers : o # n => state'[o] = state[o] /\ offerAssets'[o] = offerAssets[o]
  BY <1>1, <1>2, <1>4, <1>8 DEF TypeOK, OffersInv, Lives
<1>11. Lives(n)'
  <2>1. Lives(n)
    BY <1>2, <1>4 DEF OffersInv
  <2>2. CreatesOf(n)' = {}
    <3>1. \A k \in CreatesOf(n) : k = j
      BY <1>8, <2>1 DEF Lives
    <3>2. QED
      BY <1>8, <3>1
  <2>3. deal[n].status # "none"
    BY <1>8, <2>1 DEF Lives
  <2>4. QED
    BY <1>1, <1>8, <1>10, <2>1, <2>2, <2>3 DEF Lives, Closed, NoRow
<1>12. Agrees(n)'
  <2>1. Agrees(n) /\ Lives(n)
    BY <1>2, <1>4 DEF OffersInv
  <2>2. offerAssets'[n] = Terms(deal[n])
    BY <1>8, <1>10, <2>1 DEF Lives
  <2>3. \A t \in Terms(deal[n]) : Touched(t.asset) \/ holder[t.asset] = t.owner
    BY <1>8, <2>1 DEF Agrees
  <2>4. CreatesOf(n)' = {}
    <3>1. \A k \in CreatesOf(n) : k = j
      BY <1>8, <2>1 DEF Lives
    <3>2. QED
      BY <1>8, <3>1
  <2>5. (\A t \in Terms(deal[n]) : ~ Touched(t.asset)') => Holds(deal[n])
    BY <1>9, <2>3 DEF Holds
  <2>6. Holds(deal[n])' <=> Holds(deal[n])
    BY <1>1 DEF Holds
  <2>7. QED
    BY <1>1, <1>10, <2>1, <2>2, <2>4, <2>5, <2>6 DEF Agrees
<1>13. SUFFICES ASSUME NEW o \in Offers
                PROVE  Lives(o)' /\ Agrees(o)' /\ (state[o] \in Closed => state'[o] = state[o])
  BY <1>5, <1>6, <1>7 DEF Inv, OffersInv
<1>14. CASE o = n
  BY <1>10, <1>11, <1>12, <1>14 DEF Closed, NoRow
<1>15. CASE o # n
  <2>1. Lives(o) /\ Agrees(o)
    BY <1>2 DEF OffersInv
  <2>2. Lives(o)'
    BY <1>1, <1>8, <1>10, <1>15, <2>1, SameLife
  <2>3. Agrees(o)'
    BY <1>1, <1>8, <1>9, <1>10, <1>15, <2>1, StillAgrees
  <2>4. QED
    BY <1>10, <1>15, <2>2, <2>3
<1>16. QED
  BY <1>14, <1>15

LEMMA CloseOfferStep ==
  ASSUME Inv, NEW j \in queue, CloseOffer(j)
  PROVE  Inv' /\ (\A o \in Offers : state[o] \in Closed => state'[o] = state[o])
<1> DEFINE n == j.trace.offer_id
<1>1. /\ Runs(j, "close")
      /\ state' = [state EXCEPT ![n] = j.trace.state]
      /\ UNCHANGED <<holder, deal, owner, offerAssets, tableInserts, transferredAssets>>
  BY DEF CloseOffer, chainVars, memory
<1>2. TypeOK /\ QueueInv /\ AssetsInv /\ OffersInv
  BY DEF Inv
<1>3. /\ IsJob(j) /\ j \in Pending /\ j.callback = "close" /\ Pending' = Pending \ {j}
      /\ tableInserts # {} => j.callback = "logmint"
      /\ \A k \in Pending : ~ Before(k, j)
  BY <1>1, <1>2, RunFacts
<1>4. n \in Offers /\ j.trace.state \in Closed /\ j.priority = 90
  BY <1>3, JobKinds DEF CloseTraces
<1>5. QueueInv' /\ (\A k \in Pending' : IsJob(k)) /\ executing' \in BOOLEAN
      /\ traces' \in Nat /\ lastPriority' \in Priorities \cup {None}
  BY <1>1, <1>2, <1>3, QueueKept
<1>6. TypeOK'
  BY <1>1, <1>2, <1>4, <1>5 DEF TypeOK
<1>7. AssetsInv'
  BY <1>1, <1>2, <1>3, SameAssets
<1>8. /\ \A o : CreatesOf(o)' = CreatesOf(o)
      /\ \A o : ClosesOf(o)' = ClosesOf(o) \ {j}
      /\ \A o : o # n => ClosesOf(o)' = ClosesOf(o)
      /\ j \in ClosesOf(n)
  BY <1>3 DEF CreatesOf, ClosesOf
<1>9. \A x : Touched(x) <=> Touched(x)'
  BY <1>1, <1>3 DEF Touched
<1>10. /\ state[n] \notin Closed /\ state'[n] = j.trace.state /\ j.trace.state = deal[n].status
       /\ \A o \in Offers : o # n => state'[o] = state[o]
  BY <1>1, <1>2, <1>4, <1>8 DEF TypeOK, OffersInv, Lives
(* Jobs that make rows come before those that close offers. *)
<1>11. CreatesOf(n) = {}
  <2>1. SUFFICES ASSUME NEW k \in CreatesOf(n) PROVE FALSE
    OBVIOUS
  <2>2. k \in Pending /\ k.callback = "lognewoffer" /\ IsJob(k)
    BY <1>2 DEF CreatesOf, TypeOK
  <2>3. k.priority = 80
    BY <2>2, JobKinds
  <2>4. Before(k, j)
    BY <1>4, <2>3 DEF Before
  <2>5. QED
    BY <1>3, <2>2, <2>4
<1>12. state[n] # NoRow /\ deal[n].status \in Closed /\ deal[n].status # NoRow
  <2>1. Lives(n)
    BY <1>2, <1>4 DEF OffersInv
  <2>2. deal[n].status \in Closed
    BY <1>4, <1>10
  <2>3. deal[n].status # "none" /\ deal[n].status # NoRow
    BY <2>2 DEF Closed, NoRow
  <2>4. QED
    BY <1>11, <2>1, <2>2, <2>3 DEF Lives
<1>13. Lives(n)'
  <2>1. Lives(n)
    BY <1>2, <1>4 DEF OffersInv
  <2>2. ClosesOf(n)' = {}
    <3>1. \A k \in ClosesOf(n) : k = j
      BY <1>8, <2>1 DEF Lives
    <3>2. QED
      BY <1>8, <3>1
  <2>3. deal[n].status # "none" /\ deal[n].status # "PENDING"
    BY <1>12 DEF Closed
  <2>4. CreatesOf(n)' = {}
    BY <1>8, <1>11
  <2>5. deal'[n] = deal[n] /\ state'[n] = deal[n].status
    BY <1>1, <1>10
  <2>6. QED
    BY <1>12, <2>2, <2>3, <2>4, <2>5 DEF Lives
<1>14. Agrees(n)'
  <2>1. Agrees(n)
    BY <1>2, <1>4 DEF OffersInv
  <2>2. state'[n] \notin {"PENDING", "INVALID"}
    BY <1>4, <1>10 DEF Closed
  <2>3. CreatesOf(n)' = {}
    BY <1>8, <1>11
  <2>4. offerAssets'[n] = Terms(deal'[n])
    BY <1>1, <1>12, <2>1 DEF Agrees
  <2>5. \A t \in Terms(deal'[n]) : holder'[t.asset] # NoRow
    <3>1. deal[n].status # "none"
      BY <1>12 DEF Closed
    <3>2. QED
      BY <1>1, <2>1, <3>1 DEF Agrees
  <2>6. QED
    BY <2>2, <2>3, <2>4, <2>5 DEF Agrees
<1>15. SUFFICES ASSUME NEW o \in Offers
                PROVE  Lives(o)' /\ Agrees(o)' /\ (state[o] \in Closed => state'[o] = state[o])
  BY <1>5, <1>6, <1>7 DEF Inv, OffersInv
<1>16. CASE o = n
  BY <1>10, <1>13, <1>14, <1>16
<1>17. CASE o # n
  <2>1. Lives(o) /\ Agrees(o)
    BY <1>2 DEF OffersInv
  <2>2. Lives(o)'
    BY <1>1, <1>8, <1>10, <1>17, <2>1, SameLife
  <2>3. Agrees(o)'
    BY <1>1, <1>8, <1>9, <1>10, <1>17, <2>1, StillAgrees
  <2>4. QED
    BY <1>10, <1>17, <2>2, <2>3
<1>18. QED
  BY <1>16, <1>17

LEMMA StartStep ==
  ASSUME Inv, Start
  PROVE  Inv' /\ state' = state
<1>1. /\ ~ executing /\ executing' /\ queue' = liveQueue /\ liveQueue' = {} /\ traces' = 0
      /\ lastPriority' = None
      /\ UNCHANGED <<holder, deal, owner, state, offerAssets, tableInserts, transferredAssets>>
  BY DEF Start, ExecuteHeadQueue, chainVars, tableVars, memory
<1>2. TypeOK /\ QueueInv /\ AssetsInv /\ OffersInv
  BY DEF Inv
<1>3. queue = {} /\ tableInserts = {} /\ Pending' = Pending
  BY <1>1, <1>2 DEF QueueInv, Pending
<1>4. executing' \in BOOLEAN
  BY DEF Start, ExecuteHeadQueue
<1>5. TypeOK'
  BY <1>1, <1>2, <1>3, <1>4 DEF TypeOK
<1>6. QueueInv'
  BY <1>1, <1>2, <1>3 DEF QueueInv
<1>7. AssetsInv'
  <2>1. \A x : MovesOf(x)' = MovesOf(x) /\ RowOwner(x)' = RowOwner(x)
    BY <1>1, <1>3 DEF MovesOf, RowOwner, Inserted
  <2>2. \A x \in Assets : Chained(x)'
    BY <1>1, <1>2, <2>1 DEF AssetsInv, Chained
  <2>3. QED
    BY <1>1, <1>2, <2>2 DEF AssetsInv
<1>8. OffersInv'
  <2>1. \A o : CreatesOf(o)' = CreatesOf(o) /\ ClosesOf(o)' = ClosesOf(o)
    BY <1>3 DEF CreatesOf, ClosesOf
  <2>2. \A x : Touched(x)' <=> Touched(x)
    BY <1>1, <1>3 DEF Touched
  <2>3. SUFFICES ASSUME NEW o \in Offers
                 PROVE  Lives(o)' /\ Agrees(o)'
    BY DEF OffersInv
  <2>4. Lives(o) /\ Agrees(o)
    BY <1>2 DEF OffersInv
  <2>5. Lives(o)'
    BY <1>1, <2>1, <2>4, SameLife
  <2>6. Agrees(o)'
    BY <1>1, <2>1, <2>2, <2>4, StillAgrees
  <2>7. QED
    BY <2>5, <2>6
<1>9. QED
  BY <1>1, <1>5, <1>6, <1>7, <1>8 DEF Inv

(* When nothing is pending, the tables have the owners of the contract. *)
LEMMA OwnersSettled ==
  ASSUME Inv, Pending = {}, tableInserts = {}
  PROVE  owner = holder
<1>1. ASSUME NEW x \in Assets
      PROVE  owner[x] = holder[x]
  <2>1. Chained(x) /\ MovesOf(x) = {}
    BY DEF Inv, AssetsInv, MovesOf
  <2>2. RowOwner(x) = holder[x]
    BY <2>1 DEF Chained, Chain
  <2>3. RowOwner(x) = owner[x]
    BY DEF RowOwner, Inserted
  <2>4. QED
    BY <2>2, <2>3
<1>2. owner \in [Assets -> Owners] /\ holder \in [Assets -> Owners]
  BY DEF Inv, TypeOK
<1>3. QED
  BY <1>1, <1>2

LEMMA CommitStep ==
  ASSUME Inv, Commit
  PROVE  Inv' /\ (\A o \in Offers : state[o] \in Closed => state'[o] = state[o])
<1>1. /\ executing /\ queue = {} /\ ~ PriorityDone /\ ~ executing' /\ executing' \in BOOLEAN /\ lastPriority' = None
      /\ state' = [o \in Offers |-> IF o \notin Related THEN state[o]
                                    ELSE IF Unfulfillable(o) THEN "INVALID" ELSE "PENDING"]
      /\ transferredAssets' = {}
      /\ UNCHANGED <<liveQueue, traces, queue, holder, deal, owner, offerAssets, tableInserts>>
  BY DEF Commit, FinishQueue, chainVars
<1>2. TypeOK /\ QueueInv /\ AssetsInv /\ OffersInv
  BY DEF Inv
<1>3. Pending = {} /\ Pending' = {}
  BY <1>1, <1>2 DEF QueueInv, Pending
<1>4. tableInserts = {}
  <2>1. lastPriority = None
    BY <1>1 DEF PriorityDone
  <2>2. QED
    BY <1>2, <2>1 DEF QueueInv, None, ACTION_MINT_ASSET
<1>5. owner = holder
  BY <1>3, <1>4, OwnersSettled
<1>6. TypeOK'
  <2>1. state' \in [Offers -> {NoRow, "PENDING", "INVALID"} \cup Closed]
    BY <1>1, <1>2 DEF TypeOK
  <2>2. QED
    BY <1>1, <1>2, <1>3, <2>1 DEF TypeOK
<1>7. QueueInv'
  BY <1>1, <1>2, <1>3, <1>4 DEF QueueInv, Pending
<1>8. AssetsInv'
  <2>1. \A x : MovesOf(x)' = MovesOf(x) /\ RowOwner(x)' = RowOwner(x)
    BY <1>1, <1>3 DEF MovesOf, RowOwner, Inserted
  <2>2. \A x \in Assets : Chained(x)'
    BY <1>1, <1>2, <2>1 DEF AssetsInv, Chained
  <2>3. QED
    BY <1>1, <1>2, <2>2 DEF AssetsInv
<1>9. /\ \A o : CreatesOf(o) = {} /\ ClosesOf(o) = {} /\ CreatesOf(o)' = {} /\ ClosesOf(o)' = {}
      /\ \A x : (Touched(x) <=> x \in transferredAssets) /\ ~ Touched(x)'
  BY <1>1, <1>3 DEF CreatesOf, ClosesOf, Touched
<1>10. SUFFICES ASSUME NEW o \in Offers
                PROVE  Lives(o)' /\ Agrees(o)' /\ (state[o] \in Closed => state'[o] = state[o])
  BY <1>6, <1>7, <1>8 DEF Inv, OffersInv
<1>11. Lives(o) /\ Agrees(o) /\ state[o] \in {NoRow, "PENDING", "INVALID"} \cup Closed
  BY <1>2 DEF OffersInv, TypeOK
<1>12. state'[o] = IF o \notin Related THEN state[o] ELSE IF Unfulfillable(o) THEN "INVALID" ELSE "PENDING"
  BY <1>1
<1>13. CASE o \notin Related
  <2>1. state'[o] = state[o] /\ offerAssets'[o] = offerAssets[o] /\ deal'[o] = deal[o]
    BY <1>1, <1>12, <1>13
  <2>2. Lives(o)'
    BY <1>9, <1>11, <2>1, SameLife
  <2>3. ASSUME state[o] \in {"PENDING", "INVALID"}
        PROVE  \A t \in Terms(deal[o]) : ~ Touched(t.asset)
    <3>1. offerAssets[o] = Terms(deal[o])
      BY <1>11, <2>3 DEF Agrees, NoRow
    <3>2. ~ \E t \in offerAssets[o] : t.asset \in transferredAssets
      BY <1>13, <2>3 DEF Related
    <3>3. QED
      BY <1>9, <3>1, <3>2
  <2>4. Holds(deal[o])' <=> Holds(deal[o])
    BY <1>1 DEF Holds
  <2>5. Agrees(o)'
    <3>1. state[o] \in {"PENDING", "INVALID"} => (state[o] = "PENDING" <=> Holds(deal[o]))
      BY <1>11, <2>3 DEF Agrees
    <3>2. /\ state[o] # NoRow => offerAssets[o] = Terms(deal[o])
          /\ deal[o].status # "none" => \A t \in Terms(deal[o]) : holder[t.asset] # NoRow
      BY <1>11 DEF Agrees
    <3>3. QED
      BY <1>1, <1>9, <2>1, <2>4, <3>1, <3>2 DEF Agrees
  <2>6. QED
    BY <2>1, <2>2, <2>5
<1>14. CASE o \in Related
  <2>1. state[o] \in {"PENDING", "INVALID"}
    BY <1>14 DEF Related
  <2>2. state[o] # NoRow /\ state[o] \notin Closed
    BY <2>1 DEF NoRow, Closed
  <2>3. offerAssets[o] = Terms(deal[o])
    BY <1>11, <2>2 DEF Agrees
  <2>4. deal[o].status # "none"
    BY <1>11, <2>2 DEF Lives
  <2>5. \A t \in Terms(deal[o]) : holder[t.asset] # NoRow
    BY <1>11, <2>4 DEF Agrees
  <2>6. Unfulfillable(o) <=> ~ Holds(deal[o])
    BY <1>5, <2>3, <2>5 DEF Unfulfillable, Holds
  <2>7. state'[o] \in {"PENDING", "INVALID"} /\ (state'[o] = "PENDING" <=> Holds(deal[o]))
    BY <1>12, <1>14, <2>6
  <2>8. state'[o] # NoRow /\ state'[o] \notin Closed
    BY <2>7 DEF NoRow, Closed
  <2>9. Lives(o)'
    <3>1. deal[o].status \notin Closed
      BY <1>9, <1>11, <2>2 DEF Lives
    <3>2. QED
      BY <1>1, <1>9, <2>4, <2>8, <3>1 DEF Lives
  <2>10. Holds(deal[o])' <=> Holds(deal[o])
    BY <1>1 DEF Holds
  <2>11. Agrees(o)'
    BY <1>1, <1>9, <2>3, <2>5, <2>7, <2>10 DEF Agrees
  <2>12. QED
    BY <2>2, <2>9, <2>11
<1>15. QED
  BY <1>13, <1>14

-----------------------------------------------------------------------------
(* The contract *)

(* The jobs of traces. *)
NewJobs(ts) ==
  UNION {{Job(l, ts[i], traces + i) : l \in {l \in Listeners : l.action = ts[i].action}} : i \in DOMAIN ts}

(* A listener of this action is this callback. *)
Calls(action, callback) ==
  \/ action = callback /\ callback \in {"logmint", "logtransfer", "logburnasset", "lognewoffer"}
  \/ callback = "collect" /\ action \in {"logtransfer", "logburnasset"}
  \/ callback = "close" /\ action \in {"acceptoffer", "declineoffer", "canceloffer"}

PriorityOf(callback) ==
  CASE callback = "logmint" -> ACTION_MINT_ASSET
    [] callback \in {"logtransfer", "logburnasset"} -> ACTION_UPDATE_ASSET
    [] callback = "collect" -> INDEPENDENT
    [] callback = "lognewoffer" -> ACTION_CREATE_OFFER
    [] OTHER -> ACTION_UPDATE_OFFER

LEMMA ListenerFacts ==
  ASSUME NEW l
  PROVE  l \in Listeners <=> \E a, c : Calls(a, c) /\ l = On(a, c, PriorityOf(c))
<1>1. ASSUME l \in Listeners
      PROVE  \E a, c : Calls(a, c) /\ l = On(a, c, PriorityOf(c))
  <2>1. /\ Calls("logmint", "logmint") /\ Calls("logtransfer", "logtransfer") /\ Calls("logtransfer", "collect")
        /\ Calls("logburnasset", "logburnasset") /\ Calls("logburnasset", "collect")
        /\ Calls("lognewoffer", "lognewoffer") /\ Calls("acceptoffer", "close")
        /\ Calls("declineoffer", "close") /\ Calls("canceloffer", "close")
    BY DEF Calls
  <2>2. /\ PriorityOf("logmint") = ACTION_MINT_ASSET /\ PriorityOf("logtransfer") = ACTION_UPDATE_ASSET
        /\ PriorityOf("logburnasset") = ACTION_UPDATE_ASSET /\ PriorityOf("collect") = INDEPENDENT
        /\ PriorityOf("lognewoffer") = ACTION_CREATE_OFFER /\ PriorityOf("close") = ACTION_UPDATE_OFFER
    BY DEF PriorityOf
  <2>3. QED
    BY <1>1, <2>1, <2>2, Zenon DEF Listeners
<1>2. ASSUME NEW a, NEW c, Calls(a, c), l = On(a, c, PriorityOf(c))
      PROVE  l \in Listeners
  BY <1>2 DEF Calls, Listeners, PriorityOf
<1>3. QED
  BY <1>1, <1>2

Trace(t) == t \in AllTraces /\ (t.action = "logtransfer" => t.asset_ids # {})

LEMMA TraceKinds ==
  ASSUME NEW t, Trace(t)
  PROVE  /\ t.action \in {"logmint", "logtransfer", "logburnasset", "lognewoffer",
                          "acceptoffer", "declineoffer", "canceloffer"}
         /\ t.action = "logmint" => t \in MintTraces
         /\ t.action = "logtransfer" => t \in TransferTraces /\ t.asset_ids # {}
         /\ t.action = "logburnasset" => t \in BurnTraces
         /\ t.action = "lognewoffer" => t \in NewOfferTraces
         /\ t.action \in {"acceptoffer", "declineoffer", "canceloffer"} => t \in CloseTraces
BY DEF Trace, AllTraces, MintTraces, TransferTraces, BurnTraces, NewOfferTraces, CloseTraces

LEMMA NewJobsFacts ==
  ASSUME traces \in Nat, NEW ts, NEW n \in Nat, DOMAIN ts = 1 .. n, \A i \in DOMAIN ts : Trace(ts[i])
  PROVE  /\ \A j \in NewJobs(ts) :
              IsJob(j) /\ \E i \in DOMAIN ts : j.index = traces + i /\ j.trace = ts[i] /\ Calls(ts[i].action, j.callback)
         /\ \A i \in DOMAIN ts : \A c : Calls(ts[i].action, c) =>
              \E j \in NewJobs(ts) : j.index = traces + i /\ j.trace = ts[i] /\ j.callback = c
<1>1. ASSUME NEW j \in NewJobs(ts)
      PROVE  IsJob(j) /\ \E i \in DOMAIN ts : j.index = traces + i /\ j.trace = ts[i] /\ Calls(ts[i].action, j.callback)
  <2>1. PICK i \in DOMAIN ts, l \in Listeners : l.action = ts[i].action /\ j = Job(l, ts[i], traces + i)
    BY <1>1 DEF NewJobs
  <2>2. PICK a, c : Calls(a, c) /\ l = On(a, c, PriorityOf(c))
    BY <2>1, ListenerFacts
  <2>3. a = ts[i].action /\ j = [callback |-> c, priority |-> PriorityOf(c), trace |-> ts[i], index |-> traces + i]
    BY <2>1, <2>2 DEF On, Job
  <2>4. j.index = traces + i /\ j.trace = ts[i] /\ j.callback = c /\ j.priority = PriorityOf(c)
    BY <2>3
  <2>5. Trace(ts[i]) /\ ts[i] \in AllTraces
    BY DEF Trace
  <2>6. traces + i \in Nat /\ c \in Callbacks /\ PriorityOf(c) \in Priorities
    BY <2>2 DEF Calls, Callbacks, PriorityOf, Priorities
  <2>7. j \in AnyJob
    BY <2>3, <2>5, <2>6 DEF AnyJob
  <2>8. IsJob(j)
    BY <2>2, <2>3, <2>4, <2>5, <2>7, TraceKinds DEF IsJob, Calls, PriorityOf
  <2>9. QED
    BY <2>2, <2>3, <2>4, <2>8
<1>2. ASSUME NEW i \in DOMAIN ts, NEW c, Calls(ts[i].action, c)
      PROVE  \E j \in NewJobs(ts) : j.index = traces + i /\ j.trace = ts[i] /\ j.callback = c
  <2> DEFINE l == On(ts[i].action, c, PriorityOf(c))
             j == Job(l, ts[i], traces + i)
  <2>1. l \in Listeners
    BY <1>2, ListenerFacts
  <2>2. l.action = ts[i].action /\ l.callback = c
    BY DEF On
  <2>3. j \in NewJobs(ts)
    <3>1. j \in {Job(m, ts[i], traces + i) : m \in {m \in Listeners : m.action = ts[i].action}}
      BY <2>1, <2>2
    <3>2. QED
      BY <3>1, Zenon DEF NewJobs
  <2>4. j.index = traces + i /\ j.trace = ts[i] /\ j.callback = c
    BY <2>2 DEF Job
  <2>5. QED
    BY <2>3, <2>4
<1>3. QED
  BY <1>1, <1>2

(* What a step of the contract leaves to the rest of the proof. *)
LEMMA ReceiveFacts ==
  ASSUME TypeOK, QueueInv, NEW ts, NEW n \in Nat, DOMAIN ts = 1 .. n, \A i \in DOMAIN ts : Trace(ts[i]), Receive(ts)
  PROVE  /\ UNCHANGED <<owner, state, offerAssets, tableInserts, transferredAssets>>
         /\ Pending' = Pending \cup NewJobs(ts)
         /\ \A j \in Pending' : IsJob(j)
         /\ \A j \in Pending : j.index \in Nat /\ j.index <= traces
         /\ tableInserts = {} /\ executing' \in BOOLEAN /\ traces' \in Nat
         /\ lastPriority' \in Priorities \cup {None}
         /\ QueueInv'
<1>1. /\ ~ executing /\ liveQueue' = liveQueue \cup NewJobs(ts)
      /\ traces' = traces + Cardinality(DOMAIN ts)
      /\ UNCHANGED <<executing, queue, lastPriority, owner, state, offerAssets, tableInserts, transferredAssets>>
  BY DEF Receive, ProcessTraces, NewJobs, tableVars, memory
<1>2. traces' = traces + n /\ traces \in Nat
  <2>1. Cardinality(1 .. n) = n
    BY FS_Interval
  <2>2. QED
    BY <1>1, <2>1 DEF TypeOK
<1>3. queue = {} /\ transferredAssets = {} /\ tableInserts = {} /\ \A j \in Pending : j.index <= traces
  BY <1>1 DEF QueueInv
<1>4. Pending' = Pending \cup NewJobs(ts)
  BY <1>1 DEF Pending
<1>5. \A j \in Pending : IsJob(j) /\ j.index \in Nat
  BY JobKinds DEF TypeOK
<1>6. \A j \in NewJobs(ts) :
        IsJob(j) /\ \E i \in DOMAIN ts : j.index = traces + i /\ j.trace = ts[i]
  BY <1>2, NewJobsFacts
<1>7. \A j \in NewJobs(ts) : j.index > traces /\ j.index <= traces'
  BY <1>2, <1>6
<1>8. QueueInv'
  <2>1. ASSUME NEW j \in Pending', NEW k \in Pending', j.index = k.index
        PROVE  j.trace = k.trace
    <3>1. CASE j \in Pending /\ k \in Pending
      BY <2>1, <3>1 DEF QueueInv
    <3>2. CASE j \in NewJobs(ts) /\ k \in NewJobs(ts)
      <4>1. PICK i \in DOMAIN ts : j.index = traces + i /\ j.trace = ts[i]
        BY <1>6, <3>2
      <4>2. PICK m \in DOMAIN ts : k.index = traces + m /\ k.trace = ts[m]
        BY <1>6, <3>2
      <4>3. i = m
        <5>1. i \in 1 .. n /\ m \in 1 .. n
          OBVIOUS
        <5>2. traces + i = traces + m
          BY <2>1, <4>1, <4>2, Zenon
        <5>3. QED
          BY <1>2, <5>1, <5>2
      <4>4. QED
        BY <4>1, <4>2, <4>3
    <3>3. CASE j \in Pending /\ k \in NewJobs(ts)
      BY <1>2, <1>3, <1>5, <1>7, <2>1, <3>3
    <3>4. CASE j \in NewJobs(ts) /\ k \in Pending
      BY <1>2, <1>3, <1>5, <1>7, <2>1, <3>4
    <3>5. QED
      BY <1>4, <3>1, <3>2, <3>3, <3>4
  <2>2. \A j \in Pending' : j.index <= traces'
    BY <1>2, <1>3, <1>4, <1>5, <1>7
  <2>3. QED
    BY <1>1, <1>3, <2>1, <2>2 DEF QueueInv
<1>9. lastPriority' \in Priorities \cup {None} /\ executing' \in BOOLEAN /\ traces' \in Nat
  BY <1>1, <1>2 DEF TypeOK
<1>10. QED
  BY <1>1, <1>3, <1>4, <1>5, <1>6, <1>8, <1>9

(* The traces that move an asset. *)
MovedBy(ts, x) == {i \in DOMAIN ts : Moves([callback |-> ts[i].action, trace |-> ts[i]], x)}

(* The chain does with x what one of the traces says, or nothing. *)
Moved(ts, x) ==
  \/ MovedBy(ts, x) = {} /\ holder'[x] = holder[x]
  \/ \E i \in DOMAIN ts :
       /\ MovedBy(ts, x) = {i}
       /\ Fits([callback |-> ts[i].action, trace |-> ts[i]], holder[x])
       /\ To([callback |-> ts[i].action, trace |-> ts[i]]) = holder'[x]

LEMMA NewMoves ==
  ASSUME traces \in Nat, NEW ts, NEW n \in Nat, DOMAIN ts = 1 .. n, \A i \in DOMAIN ts : Trace(ts[i]), NEW x
  PROVE  /\ \A j \in NewJobs(ts) : Moves(j, x) =>
              IsJob(j) /\ \E i \in MovedBy(ts, x) : j.index = traces + i /\ j.trace = ts[i] /\ j.callback = ts[i].action
         /\ \A i \in MovedBy(ts, x) :
              \E j \in NewJobs(ts) : Moves(j, x) /\ j.index = traces + i /\ j.trace = ts[i] /\ j.callback = ts[i].action
<1>1. ASSUME NEW j \in NewJobs(ts), Moves(j, x)
      PROVE  IsJob(j) /\ \E i \in MovedBy(ts, x) : j.index = traces + i /\ j.trace = ts[i] /\ j.callback = ts[i].action
  <2>1. IsJob(j) /\ \E i \in DOMAIN ts : j.index = traces + i /\ j.trace = ts[i]
    BY NewJobsFacts
  <2>2. PICK i \in DOMAIN ts : j.index = traces + i /\ j.trace = ts[i]
    BY <2>1
  <2>3. j.callback = ts[i].action
    BY <1>1, <2>1, <2>2, MoveKinds
  <2>4. i \in MovedBy(ts, x)
    BY <1>1, <2>2, <2>3 DEF MovedBy, Moves
  <2>5. QED
    BY <2>1, <2>2, <2>3, <2>4
<1>2. ASSUME NEW i \in MovedBy(ts, x)
      PROVE  \E j \in NewJobs(ts) : Moves(j, x) /\ j.index = traces + i /\ j.trace = ts[i] /\ j.callback = ts[i].action
  <2>1. i \in DOMAIN ts /\ ts[i].action \in {"logmint", "logtransfer", "logburnasset"} /\ x \in AssetsOf(ts[i])
    BY DEF MovedBy, Moves
  <2>2. Calls(ts[i].action, ts[i].action)
    BY <2>1 DEF Calls
  <2>3. PICK j \in NewJobs(ts) : j.index = traces + i /\ j.trace = ts[i] /\ j.callback = ts[i].action
    <3>1. \A c : Calls(ts[i].action, c) =>
            \E j \in NewJobs(ts) : j.index = traces + i /\ j.trace = ts[i] /\ j.callback = c
      BY <2>1, NewJobsFacts
    <3>2. QED
      BY <2>2, <3>1
  <2>4. Moves(j, x)
    BY <2>1, <2>3 DEF Moves
  <2>5. QED
    BY <2>3, <2>4
<1>3. QED
  BY <1>1, <1>2

LEMMA AssetsStep ==
  ASSUME Inv, NEW ts, NEW n \in Nat, DOMAIN ts = 1 .. n, \A i \in DOMAIN ts : Trace(ts[i]), Receive(ts),
         \A x \in Assets : Moved(ts, x)
  PROVE  AssetsInv' /\ \A x \in Assets : holder[x] # NoRow => holder'[x] # NoRow
<1>1. TypeOK /\ QueueInv /\ AssetsInv /\ traces \in Nat
  BY DEF Inv, TypeOK
<1>2. /\ UNCHANGED <<owner, tableInserts>> /\ Pending' = Pending \cup NewJobs(ts)
      /\ \A j \in Pending : j.index \in Nat /\ j.index <= traces
  BY <1>1, ReceiveFacts
<1>3. SUFFICES ASSUME NEW x \in Assets
               PROVE  Chained(x)' /\ (holder[x] # NoRow => holder'[x] # NoRow)
  BY <1>1, <1>2 DEF AssetsInv
<1> DEFINE New == {j \in NewJobs(ts) : Moves(j, x)}
<1>4. MovesOf(x)' = MovesOf(x) \cup New
  BY <1>2 DEF MovesOf
<1>5. RowOwner(x)' = RowOwner(x)
  BY <1>2 DEF RowOwner, Inserted
<1>6. Chain(MovesOf(x), RowOwner(x), holder[x]) /\ (MovesOf(x) # {} => holder[x] # NoRow)
  BY <1>1 DEF AssetsInv, Chained
<1>7. CASE MovedBy(ts, x) = {} /\ holder'[x] = holder[x]
  <2>1. New = {}
    BY <1>1, <1>7, NewMoves
  <2>2. MovesOf(x)' = MovesOf(x)
    BY <1>4, <2>1
  <2>3. QED
    BY <1>5, <1>6, <1>7, <2>2 DEF Chained
<1>8. ASSUME NEW i \in DOMAIN ts, MovedBy(ts, x) = {i},
             Fits([callback |-> ts[i].action, trace |-> ts[i]], holder[x]),
             To([callback |-> ts[i].action, trace |-> ts[i]]) = holder'[x]
      PROVE  Chained(x)' /\ (holder[x] # NoRow => holder'[x] # NoRow)
  <2>1. PICK k \in NewJobs(ts) : Moves(k, x) /\ k.index = traces + i /\ k.trace = ts[i] /\ k.callback = ts[i].action
    BY <1>1, <1>8, NewMoves
  <2>2. IsJob(k)
    BY <1>1, <2>1, NewMoves
  <2>3. New = {k}
    <3>1. ASSUME NEW j \in New
          PROVE  j = k
      <4>1. IsJob(j) /\ j.index = traces + i /\ j.trace = ts[i] /\ j.callback = ts[i].action
        BY <1>1, <1>8, NewMoves
      <4>2. QED
        BY <2>1, <2>2, <4>1, SameJob
    <3>2. QED
      BY <2>1, <3>1
  <2>4. Fits(k, holder[x]) /\ To(k) = holder'[x]
    BY <1>8, <2>1 DEF Fits, To
  <2>5. holder'[x] # NoRow
    <3>1. k.callback \in {"logmint", "logtransfer", "logburnasset"}
      BY <2>1 DEF Moves
    <3>2. To(k) \in Accounts \cup {Burned}
      BY <2>2, <3>1, JobKinds DEF To, MintTraces, TransferTraces
    <3>3. QED
      BY <2>4, <3>2, AccountAssumption DEF NoRow, Burned
  <2>6. k.callback = "logmint" => MovesOf(x) = {}
    BY <1>6, <2>4 DEF Fits
  <2>7. \A j \in MovesOf(x) : j.index \in Nat /\ j.index <= traces
    BY <1>2 DEF MovesOf
  <2>8. i \in 1 .. n
    BY <1>8
  <2>9. k.index \in Nat /\ \A j \in MovesOf(x) : j.index < k.index
    BY <1>1, <2>1, <2>7, <2>8
  <2>10. Chain(MovesOf(x) \cup {k}, RowOwner(x), To(k))
    BY <1>6, <2>4, <2>6, <2>7, <2>9, ChainAdd
  <2>11. QED
    BY <1>4, <1>5, <2>3, <2>4, <2>5, <2>10 DEF Chained
<1>9. QED
  BY <1>7, <1>8 DEF Moved

(* The jobs of an offer that the traces do not create, or do not close. *)
LEMMA NewOfferJobs ==
  ASSUME Inv, NEW ts, NEW n \in Nat, DOMAIN ts = 1 .. n, \A i \in DOMAIN ts : Trace(ts[i]), Receive(ts),
         NEW o
  PROVE  /\ (\A i \in DOMAIN ts : ts[i].action = "lognewoffer" => ts[i].offer_id # o)
              => CreatesOf(o)' = CreatesOf(o)
         /\ (\A i \in DOMAIN ts : ts[i].action \in {"acceptoffer", "declineoffer", "canceloffer"}
                                    => ts[i].offer_id # o)
              => ClosesOf(o)' = ClosesOf(o)
<1>1. TypeOK /\ QueueInv /\ traces \in Nat
  BY DEF Inv, TypeOK
<1>2. Pending' = Pending \cup NewJobs(ts)
  BY <1>1, ReceiveFacts
<1>3. \A j \in NewJobs(ts) : \E i \in DOMAIN ts : j.trace = ts[i] /\ Calls(ts[i].action, j.callback)
  BY <1>1, NewJobsFacts
<1>4. ASSUME \A i \in DOMAIN ts : ts[i].action = "lognewoffer" => ts[i].offer_id # o
      PROVE  CreatesOf(o)' = CreatesOf(o)
  <2>1. \A j \in NewJobs(ts) : ~ (j.callback = "lognewoffer" /\ j.trace.offer_id = o)
    BY <1>3, <1>4 DEF Calls
  <2>2. QED
    BY <1>2, <2>1 DEF CreatesOf
<1>5. ASSUME \A i \in DOMAIN ts : ts[i].action \in {"acceptoffer", "declineoffer", "canceloffer"}
                                    => ts[i].offer_id # o
      PROVE  ClosesOf(o)' = ClosesOf(o)
  <2>1. \A j \in NewJobs(ts) : ~ (j.callback = "close" /\ j.trace.offer_id = o)
    BY <1>3, <1>5 DEF Calls
  <2>2. QED
    BY <1>2, <2>1 DEF ClosesOf
<1>6. QED
  BY <1>4, <1>5

(* Every asset that changes hands is looked at. *)
LEMMA TouchedStep ==
  ASSUME Inv, NEW ts, NEW n \in Nat, DOMAIN ts = 1 .. n, \A i \in DOMAIN ts : Trace(ts[i]), Receive(ts),
         NEW x \in Assets, Moved(ts, x)
  PROVE  /\ Touched(x) => Touched(x)'
         /\ holder[x] # NoRow => Touched(x)' \/ holder'[x] = holder[x]
<1>1. TypeOK /\ QueueInv /\ traces \in Nat
  BY DEF Inv, TypeOK
<1>2. Pending' = Pending \cup NewJobs(ts) /\ transferredAssets' = transferredAssets
  BY <1>1, ReceiveFacts
<1>3. Touched(x) => Touched(x)'
  BY <1>2 DEF Touched
<1>4. ASSUME holder[x] # NoRow, holder'[x] # holder[x]
      PROVE  Touched(x)'
  <2>1. PICK i \in DOMAIN ts : /\ MovedBy(ts, x) = {i}
                               /\ Fits([callback |-> ts[i].action, trace |-> ts[i]], holder[x])
    BY <1>4 DEF Moved
  <2>2. Moves([callback |-> ts[i].action, trace |-> ts[i]], x)
    BY <2>1 DEF MovedBy
  <2>3. ts[i].action \in {"logtransfer", "logburnasset"} /\ x \in ts[i].asset_ids
    BY <1>4, <2>1, <2>2 DEF Moves, Fits, AssetsOf
  <2>4. PICK k \in NewJobs(ts) : k.trace = ts[i] /\ k.callback = "collect"
    <3>1. \A c : Calls(ts[i].action, c) =>
            \E k \in NewJobs(ts) : k.index = traces + i /\ k.trace = ts[i] /\ k.callback = c
      BY <1>1, NewJobsFacts
    <3>2. Calls(ts[i].action, "collect")
      BY <2>3 DEF Calls
    <3>3. QED
      BY <3>1, <3>2
  <2>5. QED
    BY <1>2, <2>3, <2>4 DEF Touched
<1>5. QED
  BY <1>3, <1>4

LEMMA AgreesStep ==
  ASSUME Inv, NEW ts, NEW n \in Nat, DOMAIN ts = 1 .. n, \A i \in DOMAIN ts : Trace(ts[i]), Receive(ts),
         \A x \in Assets : Moved(ts, x),
         NEW o \in Offers, \A i \in DOMAIN ts : ts[i].action = "lognewoffer" => ts[i].offer_id # o,
         Terms(deal'[o]) = Terms(deal[o]), deal'[o].status # "none" => deal[o].status # "none"
  PROVE  Agrees(o)'
<1>1. TypeOK /\ QueueInv /\ Agrees(o)
  BY DEF Inv, OffersInv
<1>2. state'[o] = state[o] /\ offerAssets'[o] = offerAssets[o]
  BY <1>1, ReceiveFacts
<1>3. CreatesOf(o)' = CreatesOf(o)
  BY NewOfferJobs
<1>4. ASSUME NEW t \in Terms(deal[o])
      PROVE  /\ Touched(t.asset) => Touched(t.asset)'
             /\ Touched(t.asset)' \/ holder'[t.asset] = holder[t.asset]
             /\ holder[t.asset] # NoRow => holder'[t.asset] # NoRow
  <2>1. t.asset \in Assets /\ deal[o].status # "none"
    BY <1>1, TermsFacts DEF AllTerms
  <2>2. holder[t.asset] # NoRow
    BY <1>1, <2>1 DEF Agrees
  <2>3. holder'[t.asset] # NoRow
    BY <2>1, <2>2, AssetsStep
  <2>4. QED
    BY <2>1, <2>2, <2>3, TouchedStep
<1>5. QED
  BY <1>1, <1>2, <1>3, <1>4, StillAgrees

(* An offer that the traces leave alone keeps its part of the invariant. *)
NotIn(ts, o) ==
  /\ \A i \in DOMAIN ts : ts[i].action = "lognewoffer" => ts[i].offer_id # o
  /\ \A i \in DOMAIN ts : ts[i].action \in {"acceptoffer", "declineoffer", "canceloffer"} => ts[i].offer_id # o

LEMMA ContractStep ==
  ASSUME Inv, NEW ts, NEW n \in Nat, DOMAIN ts = 1 .. n, \A i \in DOMAIN ts : Trace(ts[i]), Receive(ts),
         \A x \in Assets : Moved(ts, x),
         holder' \in [Assets -> Owners], deal' \in [Offers -> {NoDeal} \cup Made],
         \A o \in Offers : deal'[o] # NoDeal => deal'[o].sender # deal'[o].recipient,
         \A o \in Offers : \/ deal'[o] = deal[o] /\ NotIn(ts, o)
                           \/ Lives(o)' /\ Agrees(o)'
  PROVE  Inv' /\ state' = state
<1>1. TypeOK /\ QueueInv
  BY DEF Inv
<1>2. /\ UNCHANGED <<owner, state, offerAssets, tableInserts, transferredAssets>>
      /\ \A j \in Pending' : IsJob(j)
      /\ executing' \in BOOLEAN /\ traces' \in Nat /\ lastPriority' \in Priorities \cup {None}
      /\ QueueInv'
  BY <1>1, ReceiveFacts
<1>3. TypeOK'
  BY <1>1, <1>2 DEF TypeOK
<1>4. AssetsInv'
  BY AssetsStep
<1>5. ASSUME NEW o \in Offers, deal'[o] = deal[o], NotIn(ts, o)
      PROVE  Lives(o)' /\ Agrees(o)'
  <2>1. Lives(o)
    BY DEF Inv, OffersInv
  <2>2. CreatesOf(o)' = CreatesOf(o) /\ ClosesOf(o)' = ClosesOf(o)
    BY <1>5, NewOfferJobs DEF NotIn
  <2>3. Lives(o)'
    BY <1>2, <1>5, <2>1, <2>2, SameLife
  <2>4. Agrees(o)'
    BY <1>5, AgreesStep DEF NotIn
  <2>5. QED
    BY <2>3, <2>4
<1>6. OffersInv'
  BY <1>5 DEF OffersInv
<1>7. QED
  BY <1>2, <1>3, <1>4, <1>6 DEF Inv

LEMMA MintStep ==
  ASSUME Inv, NEW x \in Assets, NEW a \in Accounts, Mint(x, a)
  PROVE  Inv' /\ state' = state
<1> DEFINE t == [action |-> "logmint", asset_id |-> x, new_asset_owner |-> a]
           ts == <<t>>
<1>1. holder[x] = NoRow /\ holder' = [holder EXCEPT ![x] = a] /\ deal' = deal /\ Receive(ts)
  BY DEF Mint
<1>2. DOMAIN ts = 1 .. 1 /\ ts[1] = t
  OBVIOUS
<1>3. Trace(t)
  BY DEF Trace, AllTraces, MintTraces
<1>4. TypeOK
  BY DEF Inv
<1>5. ASSUME NEW y \in Assets
      PROVE  Moved(ts, y)
  <2>1. MovedBy(ts, y) = IF y = x THEN {1} ELSE {}
    BY <1>2 DEF MovedBy, Moves, AssetsOf
  <2>2. holder'[y] = IF y = x THEN a ELSE holder[y]
    BY <1>1, <1>4 DEF TypeOK
  <2>3. QED
    BY <1>1, <1>2, <2>1, <2>2 DEF Moved, Fits, To
<1>6. holder' \in [Assets -> Owners]
  BY <1>1, <1>4 DEF TypeOK, Owners
<1>7. \A o : NotIn(ts, o)
  BY <1>2 DEF NotIn
<1>8. /\ deal' \in [Offers -> {NoDeal} \cup Made]
      /\ \A o \in Offers : deal'[o] # NoDeal => deal'[o].sender # deal'[o].recipient
      /\ \A o \in Offers : deal'[o] = deal[o] /\ NotIn(ts, o)
  BY <1>1, <1>4, <1>7 DEF TypeOK
<1>9. Receive(ts) /\ \A i \in DOMAIN ts : Trace(ts[i])
  BY <1>1, <1>2, <1>3
<1> HIDE DEF ts
<1>10. QED
  BY <1>2, <1>5, <1>6, <1>8, <1>9, ContractStep

LEMMA GiveStep ==
  ASSUME Inv, NEW a \in Accounts, NEW b \in Accounts, NEW ids \in SUBSET Assets, Give(a, b, ids)
  PROVE  Inv' /\ state' = state
<1> DEFINE t == Transfer(a, b, ids)
           ts == <<t>>
<1>1. /\ ids # {} /\ (\A x \in ids : holder[x] = a)
      /\ holder' = [x \in Assets |-> IF x \in ids THEN b ELSE holder[x]]
      /\ deal' = deal /\ Receive(ts)
  BY DEF Give
<1>2. DOMAIN ts = 1 .. 1 /\ ts[1] = t
  OBVIOUS
<1>3. Trace(t)
  BY <1>1 DEF Trace, AllTraces, TransferTraces, Transfer
<1>4. TypeOK
  BY DEF Inv
<1>5. ASSUME NEW y \in Assets
      PROVE  Moved(ts, y)
  <2>1. MovedBy(ts, y) = IF y \in ids THEN {1} ELSE {}
    BY <1>2 DEF MovedBy, Moves, AssetsOf, Transfer
  <2>2. holder'[y] = IF y \in ids THEN b ELSE holder[y]
    BY <1>1
  <2>3. QED
    BY <1>1, <1>2, <2>1, <2>2 DEF Moved, Fits, To, Transfer
<1>6. holder' \in [Assets -> Owners]
  BY <1>1, <1>4 DEF TypeOK, Owners
<1>7. \A o : NotIn(ts, o)
  BY <1>2 DEF NotIn, Transfer
<1>8. /\ deal' \in [Offers -> {NoDeal} \cup Made]
      /\ \A o \in Offers : deal'[o] # NoDeal => deal'[o].sender # deal'[o].recipient
      /\ \A o \in Offers : deal'[o] = deal[o] /\ NotIn(ts, o)
  BY <1>1, <1>4, <1>7 DEF TypeOK
<1>9. Receive(ts) /\ \A i \in DOMAIN ts : Trace(ts[i])
  BY <1>1, <1>2, <1>3
<1> HIDE DEF ts
<1>10. QED
  BY <1>2, <1>5, <1>6, <1>8, <1>9, ContractStep

LEMMA BurnStep ==
  ASSUME Inv, NEW x \in Assets, Burn(x)
  PROVE  Inv' /\ state' = state
<1> DEFINE t == [action |-> "logburnasset", asset_ids |-> {x}]
           ts == <<t>>
<1>1. holder[x] \in Accounts /\ holder' = [holder EXCEPT ![x] = Burned] /\ deal' = deal /\ Receive(ts)
  BY DEF Burn
<1>2. DOMAIN ts = 1 .. 1 /\ ts[1] = t
  OBVIOUS
<1>3. Trace(t)
  BY DEF Trace, AllTraces, BurnTraces
<1>4. TypeOK
  BY DEF Inv
<1>5. ASSUME NEW y \in Assets
      PROVE  Moved(ts, y)
  <2>1. MovedBy(ts, y) = IF y = x THEN {1} ELSE {}
    BY <1>2 DEF MovedBy, Moves, AssetsOf
  <2>2. holder'[y] = IF y = x THEN Burned ELSE holder[y]
    BY <1>1, <1>4 DEF TypeOK
  <2>3. QED
    BY <1>1, <1>2, <2>1, <2>2 DEF Moved, Fits, To
<1>6. holder' \in [Assets -> Owners]
  BY <1>1, <1>4 DEF TypeOK, Owners
<1>7. \A o : NotIn(ts, o)
  BY <1>2 DEF NotIn
<1>8. /\ deal' \in [Offers -> {NoDeal} \cup Made]
      /\ \A o \in Offers : deal'[o] # NoDeal => deal'[o].sender # deal'[o].recipient
      /\ \A o \in Offers : deal'[o] = deal[o] /\ NotIn(ts, o)
  BY <1>1, <1>4, <1>7 DEF TypeOK
<1>9. Receive(ts) /\ \A i \in DOMAIN ts : Trace(ts[i])
  BY <1>1, <1>2, <1>3
<1> HIDE DEF ts
<1>10. QED
  BY <1>2, <1>5, <1>6, <1>8, <1>9, ContractStep

LEMMA CreateOfferStep ==
  ASSUME Inv, NEW o \in Offers, NEW d \in Deals, CreateOffer(o, d)
  PROVE  Inv' /\ state' = state
<1> DEFINE t == [action |-> "lognewoffer", offer_id |-> o, terms |-> Terms(d)]
           ts == <<t>>
<1>1. /\ deal[o].status = "none" /\ d.sender # d.recipient /\ Holds(d)
      /\ deal' = [deal EXCEPT ![o] = d] /\ holder' = holder /\ Receive(ts)
  BY DEF CreateOffer
<1>2. DOMAIN ts = 1 .. 1 /\ 1 \in DOMAIN ts /\ ts[1] = t
  OBVIOUS
<1>3. /\ d \in Made /\ d.status = "PENDING" /\ d.sender \in Accounts /\ d.recipient \in Accounts
      /\ d.give \in SUBSET Assets /\ d.take \in SUBSET Assets
  BY DEF Deals, Made
<1>4. Terms(d) \in AllTerms
  BY <1>3 DEF Terms, AllTerms
<1>5. Trace(t)
  BY <1>4 DEF Trace, AllTraces, NewOfferTraces
<1>6. TypeOK /\ QueueInv /\ Lives(o) /\ traces \in Nat
  BY DEF Inv, TypeOK, OffersInv
<1>7. Receive(ts) /\ \A i \in DOMAIN ts : Trace(ts[i])
  BY <1>1, <1>2, <1>5
<1>8. ASSUME NEW x \in Assets
      PROVE  Moved(ts, x)
  <2>1. MovedBy(ts, x) = {}
    BY <1>2 DEF MovedBy, Moves
  <2>2. QED
    BY <1>1, <2>1 DEF Moved
<1>9. /\ holder' \in [Assets -> Owners] /\ deal' \in [Offers -> {NoDeal} \cup Made]
      /\ deal'[o] = d /\ \A p \in Offers : p # o => deal'[p] = deal[p]
  BY <1>1, <1>3, <1>6 DEF TypeOK
<1>10. \A p \in Offers : deal'[p] # NoDeal => deal'[p].sender # deal'[p].recipient
  BY <1>1, <1>6, <1>9 DEF TypeOK
<1>11. \A p \in Offers : p # o => deal'[p] = deal[p] /\ NotIn(ts, p)
  BY <1>2, <1>9 DEF NotIn
<1>12. /\ state' = state /\ state[o] = NoRow /\ CreatesOf(o) = {} /\ ClosesOf(o) = {}
       /\ Pending' = Pending \cup NewJobs(ts)
  <2>1. state' = state /\ Pending' = Pending \cup NewJobs(ts)
    BY <1>2, <1>6, <1>7, ReceiveFacts
  <2>2. QED
    BY <1>1, <1>6, <2>1 DEF Lives
<1>13. ClosesOf(o)' = {}
  <2>1. \A i \in DOMAIN ts : ts[i].action \in {"acceptoffer", "declineoffer", "canceloffer"} => ts[i].offer_id # o
    BY <1>2
  <2>2. QED
    BY <1>2, <1>7, <1>12, <2>1, NewOfferJobs
<1>14. PICK k \in NewJobs(ts) : k.index = traces + 1 /\ k.trace = t /\ k.callback = "lognewoffer"
  <2>1. Calls(ts[1].action, "lognewoffer")
    BY <1>2 DEF Calls
  <2>2. \A i \in DOMAIN ts : \A c : Calls(ts[i].action, c) =>
              \E j \in NewJobs(ts) : j.index = traces + i /\ j.trace = ts[i] /\ j.callback = c
    <3> HIDE DEF ts
    <3> QED
      BY <1>2, <1>6, <1>7, NewJobsFacts
  <2>3. QED
    BY <1>2, <2>1, <2>2
<1>15. \A j \in NewJobs(ts) : IsJob(j) /\ j.index = traces + 1 /\ j.trace = t
  <2>1. \A j \in NewJobs(ts) :
          IsJob(j) /\ \E i \in DOMAIN ts : j.index = traces + i /\ j.trace = ts[i] /\ Calls(ts[i].action, j.callback)
    <3> HIDE DEF ts
    <3>1. 1 \in Nat /\ traces \in Nat /\ DOMAIN ts = 1 .. 1 /\ \A i \in DOMAIN ts : Trace(ts[i])
      BY <1>2, <1>6, <1>7
    <3>2. QED
      BY <3>1, NewJobsFacts
  <2>2. QED
    BY <1>2, <2>1
<1>16. CreatesOf(o)' = {k}
  <2>1. \A j \in CreatesOf(o)' : j \in NewJobs(ts) /\ j.callback = "lognewoffer"
    BY <1>12 DEF CreatesOf
  <2>2. \A j \in CreatesOf(o)' : j = k
    BY <1>14, <1>15, <2>1, SameJob
  <2>3. k \in CreatesOf(o)'
    BY <1>12, <1>14 DEF CreatesOf
  <2>4. QED
    BY <2>2, <2>3
<1>17. Lives(o)'
  <2>1. k.trace.terms = Terms(d)
    BY <1>14
  <2>2. state'[o] \notin Closed /\ state'[o] = NoRow
    BY <1>12 DEF Closed, NoRow
  <2>3. "PENDING" \notin Closed
    BY DEF Closed
  <2>4. QED
    BY <1>3, <1>9, <1>13, <1>16, <2>1, <2>2, <2>3 DEF Lives
<1>18. Agrees(o)'
  <2>1. ASSUME NEW u \in Terms(d)
        PROVE  holder'[u.asset] = u.owner /\ u.owner # NoRow
    <3>1. u.owner \in Accounts
      BY <1>4 DEF AllTerms
    <3>2. QED
      BY <1>1, <3>1, AccountAssumption DEF Holds
  <2>2. state'[o] = NoRow /\ NoRow \notin {"PENDING", "INVALID"}
    BY <1>12 DEF NoRow
  <2>3. QED
    BY <1>9, <2>1, <2>2 DEF Agrees
<1> HIDE DEF ts
<1>19. \A p \in Offers : \/ deal'[p] = deal[p] /\ NotIn(ts, p)
                         \/ Lives(p)' /\ Agrees(p)'
  BY <1>11, <1>17, <1>18
<1>20. QED
  BY <1>2, <1>7, <1>8, <1>9, <1>10, <1>19, ContractStep

(* The first trace closes an offer, the others move assets. *)
LEMMA CloseStep ==
  ASSUME Inv, NEW ts, NEW n \in Nat, DOMAIN ts = 1 .. n, \A i \in DOMAIN ts : Trace(ts[i]), Receive(ts),
         \A x \in Assets : Moved(ts, x), holder' \in [Assets -> Owners],
         NEW o \in Offers, deal[o].status = "PENDING",
         NEW st \in Closed, deal' = [deal EXCEPT ![o].status = st],
         NEW action \in {"acceptoffer", "declineoffer", "canceloffer"},
         1 \in DOMAIN ts, ts[1] = [action |-> action, offer_id |-> o, state |-> st],
         \A i \in DOMAIN ts : i # 1 => ts[i].action = "logtransfer"
  PROVE  Inv' /\ state' = state
<1>1. TypeOK /\ QueueInv /\ Lives(o) /\ traces \in Nat
  BY DEF Inv, TypeOK, OffersInv
<1>2. deal[o] \in Made /\ deal[o] # NoDeal
  BY <1>1 DEF TypeOK, NoDeal
<1>3. /\ deal' \in [Offers -> {NoDeal} \cup Made] /\ deal'[o] = [deal[o] EXCEPT !.status = st]
      /\ \A p \in Offers : p # o => deal'[p] = deal[p]
  <2>1. [deal[o] EXCEPT !.status = st] \in Made
    BY <1>2 DEF Made
  <2>2. deal' = [deal EXCEPT ![o] = [deal[o] EXCEPT !.status = st]]
    OBVIOUS
  <2>3. QED
    BY <1>1, <2>1, <2>2 DEF TypeOK
<1>4. /\ deal'[o].status = st /\ deal'[o].sender = deal[o].sender /\ deal'[o].recipient = deal[o].recipient
      /\ deal'[o].give = deal[o].give /\ deal'[o].take = deal[o].take
  BY <1>2, <1>3 DEF Made
<1>5. Terms(deal'[o]) = Terms(deal[o])
  BY <1>4 DEF Terms
<1>6. \A p \in Offers : deal'[p] # NoDeal => deal'[p].sender # deal'[p].recipient
  BY <1>1, <1>2, <1>3, <1>4 DEF TypeOK
<1>7. ts[1].action = action /\ ts[1].offer_id = o /\ ts[1].state = st
  OBVIOUS
<1>8. \A p \in Offers : p # o => deal'[p] = deal[p] /\ NotIn(ts, p)
  BY <1>3, <1>7 DEF NotIn
<1>9. state' = state /\ Pending' = Pending \cup NewJobs(ts)
  BY <1>1, ReceiveFacts
<1>10. state[o] \notin Closed /\ ClosesOf(o) = {} /\ (state[o] = NoRow => CreatesOf(o) # {})
  BY <1>1 DEF Lives
<1>11. \A i \in DOMAIN ts : ts[i].action # "lognewoffer"
  BY <1>7
<1>12. CreatesOf(o)' = CreatesOf(o)
  BY <1>11, NewOfferJobs
<1>13. PICK k \in NewJobs(ts) : k.index = traces + 1 /\ k.trace = ts[1] /\ k.callback = "close"
  <2>1. Calls(ts[1].action, "close")
    BY <1>7 DEF Calls
  <2>2. \A i \in DOMAIN ts : \A c : Calls(ts[i].action, c) =>
              \E j \in NewJobs(ts) : j.index = traces + i /\ j.trace = ts[i] /\ j.callback = c
    BY <1>1, NewJobsFacts
  <2>3. QED
    BY <2>1, <2>2
<1>14. \A j \in NewJobs(ts) :
         IsJob(j) /\ \E i \in DOMAIN ts : j.index = traces + i /\ j.trace = ts[i] /\ Calls(ts[i].action, j.callback)
  BY <1>1, NewJobsFacts
<1>15. ClosesOf(o)' = {k}
  <2>1. \A j \in ClosesOf(o)' : j \in NewJobs(ts) /\ j.callback = "close"
    BY <1>9, <1>10 DEF ClosesOf
  <2>2. ASSUME NEW j \in ClosesOf(o)'
        PROVE  j = k
    <3>1. PICK i \in DOMAIN ts : j.index = traces + i /\ j.trace = ts[i] /\ Calls(ts[i].action, j.callback)
      BY <1>14, <2>1
    <3>2. i = 1
      BY <2>1, <3>1 DEF Calls
    <3>3. QED
      BY <1>13, <1>14, <2>1, <3>1, <3>2, SameJob
  <2>3. k \in ClosesOf(o)'
    BY <1>7, <1>9, <1>13 DEF ClosesOf
  <2>4. QED
    BY <2>2, <2>3
<1>16. Lives(o)'
  <2>1. deal'[o].status # "none" /\ deal'[o].status # "PENDING" /\ deal'[o].status = st
    BY <1>4 DEF Closed
  <2>2. k.trace.state = st
    BY <1>7, <1>13
  <2>3. \A j \in CreatesOf(o) : state[o] = NoRow /\ j.trace.terms = Terms(deal[o])
    BY <1>1 DEF Lives
  <2>4. \A j, m \in CreatesOf(o) : j = m
    BY <1>1 DEF Lives
  <2>5. QED
    BY <1>5, <1>9, <1>10, <1>12, <1>15, <2>1, <2>2, <2>3, <2>4 DEF Lives
<1>17. Agrees(o)'
  BY <1>4, <1>5, <1>11, AgreesStep
<1>18. \A p \in Offers : \/ deal'[p] = deal[p] /\ NotIn(ts, p)
                         \/ Lives(p)' /\ Agrees(p)'
  BY <1>8, <1>16, <1>17
<1>19. QED
  BY <1>3, <1>6, <1>18, ContractStep

LEMMA RefuseOfferStep ==
  ASSUME Inv, NEW o \in Offers, NEW st \in Closed, NEW action \in {"declineoffer", "canceloffer"},
         RefuseOffer(o, action, st)
  PROVE  Inv' /\ state' = state
<1> DEFINE t == [action |-> action, offer_id |-> o, state |-> st]
           ts == <<t>>
<1>1. /\ deal[o].status = "PENDING" /\ deal' = [deal EXCEPT ![o].status = st]
      /\ holder' = holder /\ Receive(ts)
  BY DEF RefuseOffer
<1>2. DOMAIN ts = 1 .. 1 /\ 1 \in DOMAIN ts /\ ts[1] = t
  OBVIOUS
<1>3. Trace(t)
  BY DEF Trace, AllTraces, CloseTraces
<1>4. \A i \in DOMAIN ts : Trace(ts[i]) /\ (i # 1 => ts[i].action = "logtransfer")
  BY <1>2, <1>3
<1>5. ASSUME NEW x \in Assets
      PROVE  Moved(ts, x)
  <2>1. MovedBy(ts, x) = {}
    BY <1>2 DEF MovedBy, Moves
  <2>2. QED
    BY <1>1, <2>1 DEF Moved
<1>6. holder' \in [Assets -> Owners]
  BY <1>1 DEF Inv, TypeOK
<1>7. Receive(ts) /\ ts[1] = [action |-> action, offer_id |-> o, state |-> st]
  BY <1>1
<1> HIDE DEF ts
<1>8. QED
  BY <1>1, <1>2, <1>4, <1>5, <1>6, <1>7, CloseStep

LEMMA Concats ==
  ASSUME NEW a, NEW b, NEW c
  PROVE  /\ <<a>> \o <<b>> \o <<c>> = <<a, b, c>> /\ <<a>> \o <<b>> \o <<>> = <<a, b>>
         /\ <<a>> \o <<>> \o <<c>> = <<a, c>> /\ <<a>> \o <<>> \o <<>> = <<a>>
<1> DEFINE S == {a, b, c}
<1>1. ASSUME NEW x \in S, NEW y \in S
      PROVE  <<x>> \o <<y>> = <<x, y>>
  <2>1. /\ <<x>> \in Seq(S) /\ Len(<<x>>) = 1 /\ <<x>>[1] = x
        /\ <<y>> \in Seq(S) /\ Len(<<y>>) = 1 /\ <<y>>[1] = y
        /\ <<x, y>> \in Seq(S) /\ Len(<<x, y>>) = 2 /\ <<x, y>>[1] = x /\ <<x, y>>[2] = y
    OBVIOUS
  <2> DEFINE s == <<x>> \o <<y>>
  <2>2. s \in Seq(S) /\ Len(s) = 2 /\ s[1] = x /\ s[2] = y
    BY <2>1, ConcatProperties
  <2>3. \A i \in 1 .. Len(s) : s[i] = <<x, y>>[i]
    BY <2>1, <2>2
  <2> HIDE DEF s
  <2>4. s = <<x, y>>
    BY <2>1, <2>2, <2>3, SeqEqual
  <2>5. QED
    BY <2>4 DEF s
<1>2. <<a, b>> \o <<c>> = <<a, b, c>>
  <2>1. /\ <<a, b>> \in Seq(S) /\ Len(<<a, b>>) = 2 /\ <<a, b>>[1] = a /\ <<a, b>>[2] = b
        /\ <<c>> \in Seq(S) /\ Len(<<c>>) = 1 /\ <<c>>[1] = c
        /\ <<a, b, c>> \in Seq(S) /\ Len(<<a, b, c>>) = 3
        /\ <<a, b, c>>[1] = a /\ <<a, b, c>>[2] = b /\ <<a, b, c>>[3] = c
    OBVIOUS
  <2> DEFINE s == <<a, b>> \o <<c>>
  <2>2. s \in Seq(S) /\ Len(s) = 3 /\ s[1] = a /\ s[2] = b /\ s[3] = c
    BY <2>1, ConcatProperties
  <2>3. \A i \in 1 .. Len(s) : s[i] = <<a, b, c>>[i]
    BY <2>1, <2>2
  <2> HIDE DEF s
  <2>4. s = <<a, b, c>>
    BY <2>1, <2>2, <2>3, SeqEqual
  <2>5. QED
    BY <2>4 DEF s
<1>3. <<a>> \o <<>> = <<a>> /\ <<a, b>> \o <<>> = <<a, b>>
  OBVIOUS
<1>4. <<a>> \o <<b>> = <<a, b>> /\ <<a>> \o <<c>> = <<a, c>>
  BY <1>1
<1>5. QED
  BY <1>2, <1>3, <1>4, Zenon

LEMMA AcceptOfferStep ==
  ASSUME Inv, NEW o \in Offers, AcceptOffer(o)
  PROVE  Inv' /\ state' = state
<1> DEFINE d == deal[o]
           c == [action |-> "acceptoffer", offer_id |-> o, state |-> "ACCEPTED"]
           give == Transfer(d.sender, d.recipient, d.give)
           take == Transfer(d.recipient, d.sender, d.take)
           IfAny(t) == IF t.asset_ids = {} THEN <<>> ELSE <<t>>
           ts == <<c>> \o IfAny(give) \o IfAny(take)
<1>1. /\ d.status = "PENDING" /\ Holds(d) /\ deal' = [deal EXCEPT ![o].status = "ACCEPTED"]
      /\ holder' = [x \in Assets |-> IF x \in d.give THEN d.recipient
                                     ELSE IF x \in d.take THEN d.sender ELSE holder[x]]
      /\ Receive(ts)
  BY DEF AcceptOffer
<1>2. TypeOK
  BY DEF Inv
<1>3. d \in Made /\ d # NoDeal
  BY <1>1, <1>2 DEF TypeOK, NoDeal
<1>4. /\ d.sender \in Accounts /\ d.recipient \in Accounts /\ d.sender # d.recipient
      /\ d.give \in SUBSET Assets /\ d.take \in SUBSET Assets
  BY <1>2, <1>3 DEF TypeOK, Made
<1>5. /\ \A x \in d.give : holder[x] = d.sender
      /\ \A x \in d.take : holder[x] = d.recipient
  <2>1. ASSUME NEW x \in d.give
        PROVE  holder[x] = d.sender
    <3>1. [asset |-> x, owner |-> d.sender] \in Terms(d)
      BY DEF Terms
    <3>2. QED
      BY <1>1, <3>1 DEF Holds
  <2>2. ASSUME NEW x \in d.take
        PROVE  holder[x] = d.recipient
    <3>1. [asset |-> x, owner |-> d.recipient] \in Terms(d)
      BY DEF Terms
    <3>2. QED
      BY <1>1, <3>1 DEF Holds
  <2>3. QED
    BY <2>1, <2>2
<1>6. /\ c.action = "acceptoffer" /\ give.action = "logtransfer" /\ take.action = "logtransfer"
      /\ give.asset_ids = d.give /\ give.from = d.sender /\ give.to = d.recipient
      /\ take.asset_ids = d.take /\ take.from = d.recipient /\ take.to = d.sender
  BY DEF Transfer
<1>7. c # give /\ c # take /\ give # take
  BY <1>4, <1>6
<1>8. /\ Trace(c) /\ (d.give # {} => Trace(give)) /\ (d.take # {} => Trace(take))
  <2>1. c \in CloseTraces
    BY DEF CloseTraces, Closed
  <2>2. give \in TransferTraces /\ take \in TransferTraces
    BY <1>4 DEF Transfer, TransferTraces
  <2>3. QED
    BY <1>6, <2>1, <2>2 DEF Trace, AllTraces
<1>9. \E n \in Nat :
        /\ DOMAIN ts = 1 .. n /\ 1 \in DOMAIN ts /\ ts[1] = c
        /\ \A i \in DOMAIN ts : i # 1 => (ts[i] = give /\ d.give # {}) \/ (ts[i] = take /\ d.take # {})
        /\ d.give # {} => \E i \in DOMAIN ts : ts[i] = give
        /\ d.take # {} => \E i \in DOMAIN ts : ts[i] = take
        /\ \A i, k \in DOMAIN ts : ts[i] = ts[k] => i = k
  <2>1. CASE d.give # {} /\ d.take # {}
    <3>1. ts = <<c, give, take>>
      BY <1>6, <2>1, Concats
    <3> HIDE DEF c, give, take, d, ts
    <3>2. DOMAIN ts = 1 .. 3 /\ ts[1] = c /\ ts[2] = give /\ ts[3] = take
      BY <3>1
    <3>3. QED
      BY <1>7, <2>1, <3>2
  <2>2. CASE d.give # {} /\ d.take = {}
    <3>1. ts = <<c, give>>
      BY <1>6, <2>2, Concats
    <3> HIDE DEF c, give, take, d, ts
    <3>2. DOMAIN ts = 1 .. 2 /\ ts[1] = c /\ ts[2] = give
      BY <3>1
    <3>3. QED
      BY <1>7, <2>2, <3>2
  <2>3. CASE d.give = {} /\ d.take # {}
    <3>1. ts = <<c, take>>
      BY <1>6, <2>3, Concats
    <3> HIDE DEF c, give, take, d, ts
    <3>2. DOMAIN ts = 1 .. 2 /\ ts[1] = c /\ ts[2] = take
      BY <3>1
    <3>3. QED
      BY <1>7, <2>3, <3>2
  <2>4. CASE d.give = {} /\ d.take = {}
    <3>1. ts = <<c>>
      BY <1>6, <2>4, Concats
    <3> HIDE DEF c, give, take, d, ts
    <3>2. DOMAIN ts = 1 .. 1 /\ ts[1] = c
      BY <3>1
    <3>3. QED
      BY <1>7, <2>4, <3>2
  <2>5. QED
    BY <2>1, <2>2, <2>3, <2>4
<1>10. ts[1] = [action |-> "acceptoffer", offer_id |-> o, state |-> "ACCEPTED"] /\ Receive(ts)
  BY <1>1, <1>9
<1> HIDE DEF ts, c, give, take
<1>11. \A i \in DOMAIN ts : Trace(ts[i]) /\ (i # 1 => ts[i].action = "logtransfer")
  BY <1>6, <1>8, <1>9
<1>12. ASSUME NEW x \in Assets
       PROVE  Moved(ts, x)
  <2>1. \A i \in DOMAIN ts :
          i \in MovedBy(ts, x) <=> (ts[i] = give /\ x \in d.give) \/ (ts[i] = take /\ x \in d.take)
    BY <1>6, <1>7, <1>9 DEF MovedBy, Moves, AssetsOf
  <2>2. MovedBy(ts, x) \subseteq DOMAIN ts
    BY DEF MovedBy
  <2>3. CASE x \in d.give
    <3>1. PICK i \in DOMAIN ts : ts[i] = give
      BY <1>9, <2>3
    <3>2. x \notin d.take
      BY <1>4, <1>5, <2>3
    <3>3. MovedBy(ts, x) = {i}
      BY <1>9, <2>1, <2>2, <2>3, <3>1, <3>2
    <3>4. holder'[x] = d.recipient /\ holder[x] = d.sender
      BY <1>1, <1>5, <2>3
    <3>5. QED
      BY <1>6, <3>1, <3>3, <3>4 DEF Moved, Fits, To
  <2>4. CASE x \in d.take
    <3>1. PICK i \in DOMAIN ts : ts[i] = take
      BY <1>9, <2>4
    <3>2. x \notin d.give
      BY <1>4, <1>5, <2>4
    <3>3. MovedBy(ts, x) = {i}
      BY <1>9, <2>1, <2>2, <2>4, <3>1, <3>2
    <3>4. holder'[x] = d.sender /\ holder[x] = d.recipient
      BY <1>1, <1>5, <2>4, <3>2
    <3>5. QED
      BY <1>6, <3>1, <3>3, <3>4 DEF Moved, Fits, To
  <2>5. CASE x \notin d.give /\ x \notin d.take
    <3>1. MovedBy(ts, x) = {}
      BY <2>1, <2>2, <2>5
    <3>2. holder'[x] = holder[x]
      BY <1>1, <2>5
    <3>3. QED
      BY <3>1, <3>2 DEF Moved
  <2>6. QED
    BY <2>3, <2>4, <2>5
<1>13. holder' \in [Assets -> Owners]
  BY <1>1, <1>2, <1>4 DEF TypeOK, Owners
<1>14. "ACCEPTED" \in Closed
  BY DEF Closed
<1>15. PICK n \in Nat : DOMAIN ts = 1 .. n /\ 1 \in DOMAIN ts
  BY <1>9
<1>16. /\ ts[1] = [action |-> "acceptoffer", offer_id |-> o, state |-> "ACCEPTED"] /\ Receive(ts)
       /\ deal[o].status = "PENDING" /\ deal' = [deal EXCEPT ![o].status = "ACCEPTED"]
       /\ "acceptoffer" \in {"acceptoffer", "declineoffer", "canceloffer"}
  BY <1>1, <1>10
<1> HIDE DEF d
<1>17. QED
  BY <1>11, <1>12, <1>13, <1>14, <1>15, <1>16, CloseStep

-----------------------------------------------------------------------------
(* Theorems *)

LEMMA InitInv ==
  ASSUME Init
  PROVE  Inv
<1>1. /\ Pending = {} /\ executing = FALSE /\ traces = 0 /\ queue = {} /\ liveQueue = {} /\ lastPriority = None
      /\ tableInserts = {} /\ transferredAssets = {}
      /\ holder = [x \in Assets |-> NoRow] /\ owner = [x \in Assets |-> NoRow]
      /\ deal = [o \in Offers |-> NoDeal] /\ state = [o \in Offers |-> NoRow]
      /\ offerAssets = [o \in Offers |-> {}]
  BY DEF Init, Pending
<1>2. TypeOK
  BY <1>1 DEF TypeOK, Owners, AllTerms
<1>3. QueueInv
  BY <1>1 DEF QueueInv
<1>4. AssetsInv
  <2>1. ASSUME NEW x \in Assets
        PROVE  Chained(x)
    <3>1. MovesOf(x) = {}
      BY <1>1 DEF MovesOf
    <3>2. RowOwner(x) = NoRow /\ holder[x] = NoRow
      BY <1>1 DEF RowOwner, Inserted
    <3>3. QED
      BY <3>1, <3>2 DEF Chained, Chain
  <2>2. QED
    BY <1>1, <2>1 DEF AssetsInv
<1>5. OffersInv
  <2>1. SUFFICES ASSUME NEW o \in Offers
                 PROVE  Lives(o) /\ Agrees(o)
    BY DEF OffersInv
  <2>2. /\ deal[o] = NoDeal /\ deal[o].status = "none" /\ state[o] = NoRow
        /\ CreatesOf(o) = {} /\ ClosesOf(o) = {}
    BY <1>1 DEF NoDeal, CreatesOf, ClosesOf
  <2>3. "none" \notin Closed /\ NoRow \notin {"PENDING", "INVALID"}
    BY DEF Closed, NoRow
  <2>4. Lives(o)
    BY <2>2, <2>3 DEF Lives
  <2>5. Agrees(o)
    BY <2>2, <2>3 DEF Agrees
  <2>6. QED
    BY <2>4, <2>5
<1>6. QED
  BY <1>2, <1>3, <1>4, <1>5 DEF Inv

LEMMA StutterInv ==
  ASSUME Inv, UNCHANGED vars
  PROVE  Inv'
<1>1. UNCHANGED <<liveQueue, traces, executing, queue, lastPriority, holder, deal, owner, state, offerAssets,
                  tableInserts, transferredAssets>>
  BY DEF vars, processorVars, chainVars, tableVars, memory
<1>2. Pending' = Pending
  BY <1>1 DEF Pending
<1>3. TypeOK' /\ QueueInv'
  BY <1>1, <1>2 DEF Inv, TypeOK, QueueInv
<1>4. AssetsInv'
  BY <1>1, <1>2 DEF Inv, AssetsInv, Chained, MovesOf, RowOwner, Inserted
<1>5. \A o : CreatesOf(o)' = CreatesOf(o) /\ ClosesOf(o)' = ClosesOf(o)
  BY <1>2 DEF CreatesOf, ClosesOf
<1>6. \A x : Touched(x)' <=> Touched(x)
  BY <1>1, <1>2 DEF Touched
<1>7. ASSUME NEW o \in Offers
      PROVE  Lives(o)' /\ Agrees(o)'
  <2>1. Lives(o) /\ Agrees(o)
    BY DEF Inv, OffersInv
  <2>2. Lives(o)'
    BY <1>1, <1>5, <2>1, SameLife
  <2>3. Agrees(o)'
    BY <1>1, <1>5, <1>6, <2>1, StillAgrees
  <2>4. QED
    BY <2>2, <2>3
<1>8. QED
  BY <1>3, <1>4, <1>7 DEF Inv, OffersInv

LEMMA NextInv ==
  ASSUME Inv, [Next]_vars
  PROVE  Inv' /\ (\A o \in Offers : state[o] \in Closed => state'[o] = state[o])
<1>1. CASE Contract
  <2>1. CASE \E x \in Assets, a \in Accounts : Mint(x, a)
    BY <2>1, MintStep
  <2>2. CASE \E a, b \in Accounts, ids \in SUBSET Assets : Give(a, b, ids)
    BY <2>2, GiveStep
  <2>3. CASE \E x \in Assets : Burn(x)
    BY <2>3, BurnStep
  <2>4. CASE \E o \in Offers, d \in Deals : CreateOffer(o, d)
    BY <2>4, CreateOfferStep
  <2>5. CASE \E o \in Offers : AcceptOffer(o)
    BY <2>5, AcceptOfferStep
  <2>6. CASE \E o \in Offers : RefuseOffer(o, "declineoffer", "DECLINED")
    BY <2>6, RefuseOfferStep DEF Closed
  <2>7. CASE \E o \in Offers : RefuseOffer(o, "canceloffer", "CANCELLED")
    BY <2>7, RefuseOfferStep DEF Closed
  <2>8. QED
    BY <1>1, <2>1, <2>2, <2>3, <2>4, <2>5, <2>6, <2>7 DEF Contract
<1>2. CASE Start
  BY <1>2, StartStep
<1>3. CASE PriorityComplete
  BY <1>3, PriorityCompleteStep
<1>4. ASSUME NEW j \in queue, LogMint(j) \/ LogTransfer(j) \/ LogBurnAsset(j) \/ Collect(j)
      PROVE  Inv' /\ state' = state
  <2>1. CASE LogMint(j)
    BY <2>1, LogMintStep
  <2>2. CASE LogTransfer(j)
    BY <2>2, LogTransferStep DEF LogTransfer
  <2>3. CASE LogBurnAsset(j)
    BY <2>3, LogBurnAssetStep DEF LogBurnAsset
  <2>4. CASE Collect(j)
    BY <2>4, CollectStep
  <2>5. QED
    BY <1>4, <2>1, <2>2, <2>3, <2>4
<1>5. ASSUME NEW j \in queue, LogNewOffer(j) \/ CloseOffer(j)
      PROVE  Inv' /\ (\A o \in Offers : state[o] \in Closed => state'[o] = state[o])
  BY <1>5, LogNewOfferStep, CloseOfferStep
<1>6. CASE Commit
  BY <1>6, CommitStep
<1>7. CASE UNCHANGED vars
  <2>1. state' = state
    BY <1>7 DEF vars, tableVars
  <2>2. QED
    BY <1>7, <2>1, StutterInv
<1>8. CASE Handler
  BY <1>2, <1>3, <1>4, <1>5, <1>6, <1>8 DEF Handler
<1>9. QED
  BY <1>1, <1>7, <1>8 DEF Next

THEOREM Invariance == Spec => []Inv
<1>1. Init => Inv
  BY InitInv
<1>2. Inv /\ [Next]_vars => Inv'
  BY NextInv
<1>3. QED
  BY <1>1, <1>2, PTL DEF Spec

(* The moves of an asset come in the order of the chain, and the row of an *)
(* offer before its end.                                                   *)
LEMMA InvNoJobThrows ==
  ASSUME Inv
  PROVE  NoJobThrows
<1>1. SUFFICES ASSUME executing, ~ PriorityDone, NEW j \in queue, IsNext(j)
               PROVE  ~ Throws(j)
  BY DEF NoJobThrows
<1>2. TypeOK /\ QueueInv /\ OffersInv
  BY DEF Inv
<1>3. IsJob(j) /\ j \in Pending /\ (\A k \in Pending : ~ Before(k, j))
  BY <1>1, <1>2, NextFacts
<1>4. CASE j.callback = "logtransfer"
  <2>1. j.trace \in TransferTraces /\ j.trace.asset_ids # {}
    BY <1>3, <1>4, JobKinds
  <2>2. PICK x \in Assets : x \in j.trace.asset_ids
    BY <2>1 DEF TransferTraces
  <2>3. Fits(j, owner[x])
    BY <1>1, <1>4, <2>2, MoveFits
  <2>4. owner[x] = j.trace.from
    BY <1>4, <2>3 DEF Fits
  <2>5. QED
    BY <1>4, <2>2, <2>4 DEF Throws
<1>5. CASE j.callback = "logburnasset"
  <2>1. j.trace \in BurnTraces
    BY <1>3, <1>5, JobKinds
  <2>2. ASSUME NEW x \in j.trace.asset_ids
        PROVE  owner[x] # NoRow
    <3>1. x \in Assets
      BY <2>1 DEF BurnTraces
    <3>2. Fits(j, owner[x])
      BY <1>1, <1>5, <3>1, MoveFits
    <3>3. owner[x] \in Accounts
      BY <1>5, <3>2 DEF Fits
    <3>4. QED
      BY <3>3, AccountAssumption
  <2>3. QED
    BY <1>5, <2>2 DEF Throws
<1>6. CASE j.callback = "lognewoffer"
  <2>1. j.trace.offer_id \in Offers
    BY <1>3, <1>6, JobKinds DEF NewOfferTraces
  <2>2. j \in CreatesOf(j.trace.offer_id)
    BY <1>3, <1>6 DEF CreatesOf
  <2>3. state[j.trace.offer_id] = NoRow
    BY <1>2, <2>1, <2>2 DEF OffersInv, Lives
  <2>4. QED
    BY <1>6, <2>3 DEF Throws
<1>7. CASE j.callback = "close"
  <2> DEFINE o == j.trace.offer_id
  <2>1. o \in Offers /\ j.priority = 90
    BY <1>3, <1>7, JobKinds DEF CloseTraces
  <2>2. j \in ClosesOf(o) /\ Lives(o)
    BY <1>2, <1>3, <1>7, <2>1 DEF ClosesOf, OffersInv
  <2>3. CreatesOf(o) = {}
    <3>1. SUFFICES ASSUME NEW k \in CreatesOf(o) PROVE FALSE
      OBVIOUS
    <3>2. k \in Pending /\ k.callback = "lognewoffer"
      BY DEF CreatesOf
    <3>3. IsJob(k)
      BY <1>2, <3>2 DEF TypeOK
    <3>4. k.priority = 80
      BY <3>2, <3>3, JobKinds
    <3>5. QED
      BY <1>3, <2>1, <3>2, <3>4 DEF Before
  <2>4. state[o] # NoRow
    BY <2>2, <2>3 DEF Lives
  <2>5. QED
    BY <1>7, <2>4 DEF Throws
<1>8. CASE j.callback = "collect"
  BY <1>8 DEF Throws
<1>9. CASE j.callback = "logmint"
  BY <1>9 DEF Throws
<1>10. j.callback \in Callbacks
  BY <1>3, JobKinds
<1>11. QED
  BY <1>4, <1>5, <1>6, <1>7, <1>8, <1>9, <1>10 DEF Callbacks

LEMMA InvOwnersMatch ==
  ASSUME Inv
  PROVE  OwnersMatch
<1>1. SUFFICES ASSUME ~ executing, liveQueue = {}
               PROVE  owner = holder
  BY DEF OwnersMatch, UpToDate
<1>2. queue = {} /\ tableInserts = {}
  BY <1>1 DEF Inv, QueueInv
<1>3. Pending = {}
  BY <1>1, <1>2 DEF Pending
<1>4. QED
  BY <1>2, <1>3, OwnersSettled

LEMMA InvOffersMatch ==
  ASSUME Inv
  PROVE  OffersMatch
<1>1. SUFFICES ASSUME ~ executing, liveQueue = {}, NEW o \in Offers
               PROVE  state[o] = CASE deal[o].status = "none"    -> NoRow
                                   [] deal[o].status = "PENDING" -> IF Holds(deal[o]) THEN "PENDING" ELSE "INVALID"
                                   [] OTHER                      -> deal[o].status
  BY DEF OffersMatch, UpToDate
<1>2. /\ queue = {} /\ transferredAssets = {} /\ Lives(o) /\ Agrees(o)
      /\ state[o] \in {NoRow, "PENDING", "INVALID"} \cup Closed
      /\ deal[o] \in {NoDeal} \cup Made
  BY <1>1 DEF Inv, QueueInv, OffersInv, TypeOK
<1>3. Pending = {}
  BY <1>1, <1>2 DEF Pending
<1>4. CreatesOf(o) = {} /\ ClosesOf(o) = {} /\ \A x : ~ Touched(x)
  BY <1>2, <1>3 DEF CreatesOf, ClosesOf, Touched
<1>5. CASE deal[o].status = "none"
  BY <1>2, <1>5 DEF Lives
<1>6. CASE deal[o].status = "PENDING"
  <2>1. state[o] \in {"PENDING", "INVALID"}
    BY <1>2, <1>4, <1>6 DEF Lives
  <2>2. state[o] = "PENDING" <=> Holds(deal[o])
    BY <1>2, <1>4, <2>1 DEF Agrees
  <2>3. QED
    BY <1>6, <2>1, <2>2
<1>7. CASE deal[o].status \in Closed
  <2>1. state[o] = deal[o].status
    BY <1>2, <1>4, <1>7 DEF Lives
  <2>2. QED
    BY <1>7, <2>1 DEF Closed
<1>8. QED
  BY <1>2, <1>5, <1>6, <1>7 DEF NoDeal, Made

(* Whatever actions of the contract are executed together, no job of the   *)
(* atomicassets handlers throws: each finds the row it needs, and an offer *)
(* is inserted once.                                                       *)
THEOREM JobsNeverThrow == Spec => []NoJobThrows
BY Invariance, InvNoJobThrows, PTL

(* Whenever nothing is left to execute, the owners in atomicassets_assets  *)
(* are those of the contract.                                              *)
THEOREM OwnersAreThoseOfTheChain == Spec => []OwnersMatch
BY Invariance, InvOwnersMatch, PTL

(* Whenever nothing is left to execute, atomicassets_offers has the state  *)
(* of each offer that the contract implies, INVALID for the ones that      *)
(* could not be accepted.                                                  *)
THEOREM OffersAreThoseOfTheChain == Spec => []OffersMatch
BY Invariance, InvOffersMatch, PTL

(* A step never changes an offer that is accepted, declined or cancelled.  *)
THEOREM ClosedOffersStay == Spec => ClosedForGood
<1>1. Inv /\ [Next]_vars => [\A o \in Offers : state[o] \in Closed => state'[o] = state[o]]_vars
  BY NextInv
<1>2. QED
  BY <1>1, Invariance, PTL DEF Spec, ClosedForGood
=============================================================================
