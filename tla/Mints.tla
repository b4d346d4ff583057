------------------------------- MODULE Mints -------------------------------
(***************************************************************************)
(* Mint numbers: the procedures update_atomicassets_mints and              *)
(* update_atomicmarket_{sale,buyoffer,auction}_mints, the jobs that call   *)
(* them, and the reader that inserts and rolls back the rows they number.  *)
(*                                                                         *)
(* A procedure reads its list in one snapshot, and then updates row by row *)
(* with a commit after each.  It runs in PostgreSQL, beside the reader's   *)
(* transaction, and goes on when the filler that called it has died.  Its  *)
(* numbers are not part of the reversible store.                           *)
(*                                                                         *)
(* Auctions stand for the three kinds of listings: their procedures differ *)
(* in the table names.                                                     *)
(***************************************************************************)
EXTENDS Integers, Sequences, FiniteSets, FiniteSetsExt

CONSTANTS
  Templates,      \* values of template_id
  NoTemplate,     \* template_id is null
  Null,           \* template_mint is null
  BatchSize,      \* max_assets_to_update, max_auctions_to_update
  ClearInterval,  \* blocks between two clean-ups of reversible_blocks
  LateReader,     \* the blocks of an abandoned branch may become irreversible
                  \* on the new one before the reader has left it
  MaxBlock, MaxForks, MaxStops, MaxListings  \* bounds

ASSUME ConfigAssumption ==
  /\ BatchSize \in Nat \ {0} /\ ClearInterval \in Nat \ {0}
  /\ LateReader \in BOOLEAN
  /\ Templates \subseteq Nat /\ NoTemplate \notin Templates /\ Null \notin Nat

ASSUME BoundAssumption ==
  MaxBlock \in Nat /\ MaxForks \in Nat /\ MaxStops \in Nat /\ MaxListings \in Nat

VARIABLES
  \* --- the chain
  chain,         \* sequence of blocks
  lib,           \* last irreversible block
  forks,         \* number of forks so far
  \* --- the committed tables
  assets,        \* atomicassets_assets
  auctions,      \* atomicmarket_auctions
  revBlocks,     \* block numbers of reversible_blocks
  applied,       \* the blocks whose rows are committed
  \* --- the reader
  running,       \* handlers are initialised and blocks are processed
  seen,          \* the blocks processed
  lastIrreversibleBlock,
  tx,            \* the open transaction
  \* --- the procedures
  calls,         \* rows that a call still has to update
  stops          \* number of restarts so far

chainVars  == <<chain, lib, forks>>
storeVars  == <<assets, auctions, revBlocks, applied>>
readerVars == <<running, seen, lastIrreversibleBlock, tx>>
callVars   == <<calls, stops>>
vars == <<chainVars, storeVars, readerVars, callVars>>

(* A block mints an asset or announces an auction; branch tells apart the  *)
(* blocks of forks.                                                        *)
MintOf(t, b)     == [template |-> t, items |-> {}, branch |-> b]
AuctionOf(is, b) == [template |-> Null, items |-> is, branch |-> b]

IsMint(block) == block.template # Null

(* The contract counts assets and auctions: an id is given again on        *)
(* another branch.                                                         *)
MintsIn(bs)    == {n \in DOMAIN bs : IsMint(bs[n])}
AuctionsIn(bs) == {n \in DOMAIN bs : ~ IsMint(bs[n])}
IdIn(ns, n)    == Cardinality({k \in ns : k <= n})

(* The rows the handlers insert for blocks from .. Len(bs). *)
NewAssets(bs, from) ==
  {[id |-> IdIn(MintsIn(bs), n), template |-> bs[n].template, block |-> n, mint |-> Null] :
     n \in {k \in MintsIn(bs) : k >= from}}
NewAuctions(bs, from) ==
  {[id |-> IdIn(AuctionsIn(bs), n), items |-> bs[n].items, block |-> n, range |-> Null] :
     n \in {k \in AuctionsIn(bs) : k >= from}}

Below(rows, n) == {r \in rows : r.block < n}

Common(s, t) == Cardinality({n \in DOMAIN s \cap DOMAIN t :
                               \A k \in 1..n : s[k] = t[k]})

NoTx == [from |-> 0, reversible |-> {}, commit |-> FALSE]
Idle == <<>>
Owners == {"filler", "dead filler"}

-----------------------------------------------------------------------------
(* The chain *)

Produce ==
  /\ Len(chain) < MaxBlock
  /\ \/ \E t \in Templates \cup {NoTemplate} : chain' = Append(chain, MintOf(t, forks))
     \/ /\ Cardinality(AuctionsIn(chain)) < MaxListings
        /\ \E is \in SUBSET (1..Cardinality(MintsIn(chain))) \ {{}} :
             chain' = Append(chain, AuctionOf(is, forks))
  /\ UNCHANGED <<lib, forks, storeVars, readerVars, callVars>>

(* Reversible blocks are abandoned. *)
Fork ==
  /\ forks < MaxForks
  /\ \E n \in lib .. Len(chain) - 1 : chain' = SubSeq(chain, 1, n)
  /\ forks' = forks + 1
  /\ UNCHANGED <<lib, storeVars, readerVars, callVars>>

AdvanceLib ==
  /\ lib < Len(chain)
  /\ LateReader \/ \A s \in {seen, applied} : Common(s, chain) = Len(s) \/ lib < Common(s, chain)
  /\ lib' = lib + 1
  /\ UNCHANGED <<chain, forks, storeVars, readerVars, callVars>>

-----------------------------------------------------------------------------
(* The reader *)

(* The node sends the first block that the reader does not have.  process  *)
(* up to the commit decision; a group of irreversible blocks may go on.    *)
ProcessBlock ==
  LET n    == Common(seen, chain) + 1
      fork == n <= Len(seen)
      reversible == n > lib
  IN  /\ running /\ ~ tx.commit /\ n <= Len(chain)
      /\ fork => n >= lastIrreversibleBlock
      /\ seen' = SubSeq(chain, 1, n)
      /\ lastIrreversibleBlock' = lib
      /\ \E commit \in BOOLEAN :
           /\ reversible \/ fork => commit
           /\ tx' = [from       |-> IF tx.from = 0 THEN n ELSE Min({tx.from, n}),
                     reversible |-> IF reversible THEN {n} ELSE {},
                     commit     |-> commit]
      /\ UNCHANGED <<chainVars, storeVars, running, callVars>>

(* reversible_blocks after the rollback, the block and the clean-up. *)
ReversibleBlocks ==
  LET clears == \E n \in tx.reversible : n % ClearInterval = 0
  IN  {n \in revBlocks \cup tx.reversible :
         /\ n < tx.from \/ n \in tx.reversible
         /\ clears => n > lastIrreversibleBlock}

TableOf(u) == IF u.table = "assets" THEN assets ELSE auctions

(* The rollback of the open transaction has deleted the row. *)
Locked(u) == tx.from # 0 /\ \E r \in TableOf(u) : r.id = u.id /\ r.block >= tx.from

(* The end of the transaction.  A call whose UPDATE has been waiting for a *)
(* row that the rollback deleted finds it gone.                            *)
Commit ==
  /\ tx.commit
  /\ assets' = Below(assets, tx.from) \cup NewAssets(seen, tx.from)
  /\ auctions' = Below(auctions, tx.from) \cup NewAuctions(seen, tx.from)
  /\ revBlocks' = ReversibleBlocks
  /\ applied' = seen
  /\ tx' = NoTx
  /\ \E waiting \in SUBSET {c \in Owners : calls[c] # Idle /\ Locked(Head(calls[c]))} :
       calls' = [c \in Owners |-> IF c \in waiting THEN Tail(calls[c]) ELSE calls[c]]
  /\ UNCHANGED <<chainVars, running, seen, lastIrreversibleBlock, stops>>

(* The process dies: its transaction is rolled back, its call goes on.     *)
(* Bound: one call of a dead process at a time.                            *)
Stop ==
  /\ stops < MaxStops /\ calls["dead filler"] = Idle
  /\ stops' = stops + 1
  /\ running' = FALSE
  /\ seen' = applied /\ lastIrreversibleBlock' = 0 /\ tx' = NoTx
  /\ calls' = [c \in Owners |-> IF c = "filler" THEN Idle ELSE calls["filler"]]
  /\ UNCHANGED <<chainVars, storeVars>>

-----------------------------------------------------------------------------
(* The procedures *)

Unnumbered(limit) ==
  {r \in assets : r.template # NoTemplate /\ r.mint = Null /\ r.block <= limit}

(* ORDER BY template_id, asset_id. *)
Precedes(r, s) == r.template < s.template \/ (r.template = s.template /\ r.id < s.id)

(* Mutant of AssetsToUpdate: the limit comes before the filter. *)
AssetsToUpdateOfFirst(limit) ==
  {r \in Unnumbered(limit) :
     Cardinality({s \in assets : s.template # NoTemplate /\ Precedes(s, r)}) < BatchSize}

(* assets_to_update: the first without number. *)
AssetsToUpdate(limit) ==
  {r \in Unnumbered(limit) :
     Cardinality({s \in Unnumbered(limit) : Precedes(s, r)}) < BatchSize}

(* last_mint: the number of the newest asset of the template with one. *)
LastMint(t) ==
  LET numbered == {r \in assets : r.template = t /\ r.mint # Null}
  IN  IF numbered = {} THEN 0
      ELSE (CHOOSE r \in numbered : \A s \in numbered : s.id <= r.id).mint

NewMint(b, r) ==
  LastMint(r.template) + Cardinality({s \in b : s.template = r.template /\ s.id <= r.id})

Lists(updates) == [1..Cardinality(updates) -> updates]

(* Mutant of InOrder: newest first. *)
NewestFirst(updates) ==
  {l \in Lists(updates) : \A i, j \in DOMAIN l : i < j => l[i].id > l[j].id}

(* ORDER BY contract, asset_id: the one list in this order. *)
InOrder(updates) ==
  {l \in Lists(updates) : \A i, j \in DOMAIN l : i < j => l[i].id < l[j].id}

(* What update_atomicassets_mints reads. *)
AssetUpdates(limit) ==
  LET b == AssetsToUpdate(limit)
  IN  InOrder({[table |-> "assets", id |-> r.id, mint |-> NewMint(b, r)] : r \in b})

(* The rows of atomicassets_assets that the listing is joined with. *)
Items(a) == {r \in assets : r.id \in a.items}

(* Mutant of Complete: without HAVING. *)
CompleteAny(a) == Items(a) # {}

(* The inner join finds an asset, and none lacks its number. *)
Complete(a) ==
  Items(a) # {} /\ \A r \in Items(a) : ~ (r.template # NoTemplate /\ r.mint = Null)

(* 'empty', or int4range from MIN to MAX. *)
RangeOf(a) ==
  LET ms == {r.mint : r \in Items(a)} \ {Null}
  IN  IF ms = {} THEN <<>> ELSE <<Min(ms), Max(ms)>>

(* What update_atomicmarket_auction_mints reads.  Its limit has no order;  *)
(* that of its updates is of no consequence.                               *)
AuctionUpdates(limit) ==
  LET open == {a \in auctions : a.range = Null /\ a.block <= limit}
  IN  UNION {InOrder({[table |-> "auctions", id |-> a.id, range |-> RangeOf(a)] :
                        a \in {x \in b : Complete(x)}}) :
               b \in {s \in SUBSET open : Cardinality(s) = Min({BatchSize, Cardinality(open)})}}

Call(lists) ==
  /\ calls["filler"] = Idle
  /\ \E l \in lists : calls' = [calls EXCEPT !["filler"] = l]
  /\ UNCHANGED <<chainVars, storeVars, stops>>

(* The jobs. *)
CallAssetMints ==
  /\ running
  /\ Call(AssetUpdates(lastIrreversibleBlock))
  /\ UNCHANGED readerVars

CallAuctionMints ==
  /\ running
  /\ Call(AuctionUpdates(lastIrreversibleBlock))
  /\ UNCHANGED readerVars

(* AtomicAssetsHandler.init of a new process numbers what exceeds one      *)
(* batch before the reader starts.                                         *)
StartLimit == IF revBlocks = {} THEN lib ELSE Min(revBlocks) - 1

InitialMints ==
  /\ ~ running
  /\ Cardinality(Unnumbered(StartLimit)) > BatchSize
  /\ Call(AssetUpdates(StartLimit))
  /\ UNCHANGED readerVars

Start ==
  /\ ~ running /\ calls["filler"] = Idle
  /\ Cardinality(Unnumbered(StartLimit)) <= BatchSize
  /\ running' = TRUE
  /\ UNCHANGED <<chainVars, storeVars, seen, lastIrreversibleBlock, tx, callVars>>

(* One round of the loop: the row with this id gets its number. *)
UpdateRow(c) ==
  /\ calls[c] # Idle /\ ~ Locked(Head(calls[c]))
  /\ LET u == Head(calls[c])
     IN  IF u.table = "assets"
         THEN /\ assets' = {IF r.id = u.id THEN [r EXCEPT !.mint = u.mint] ELSE r : r \in assets}
              /\ UNCHANGED auctions
         ELSE /\ auctions' = {IF r.id = u.id THEN [r EXCEPT !.range = u.range] ELSE r : r \in auctions}
              /\ UNCHANGED assets
  /\ calls' = [calls EXCEPT ![c] = Tail(@)]
  /\ UNCHANGED <<chainVars, revBlocks, applied, readerVars, stops>>

Init ==
  /\ chain = <<>> /\ lib = 0 /\ forks = 0
  /\ assets = {} /\ auctions = {} /\ revBlocks = {} /\ applied = <<>>
  /\ running = FALSE /\ seen = <<>> /\ lastIrreversibleBlock = 0 /\ tx = NoTx
  /\ calls = [c \in Owners |-> Idle] /\ stops = 0

Next ==
  \/ Produce \/ Fork \/ AdvanceLib
  \/ ProcessBlock \/ Commit \/ Stop \/ Start
  \/ CallAssetMints \/ CallAuctionMints \/ InitialMints
  \/ \E c \in Owners : UpdateRow(c)

Spec == Init /\ [][Next]_vars

FairSpec ==
  /\ Spec
  /\ WF_vars(ProcessBlock) /\ WF_vars(Commit) /\ WF_vars(Start) /\ WF_vars(InitialMints)
  /\ SF_vars(CallAssetMints)
  /\ \A c \in Owners : WF_vars(UpdateRow(c))

-----------------------------------------------------------------------------
(* Properties *)

(* The number of atomicassets_asset_mints_master: row_number() over        *)
(* (partition by template_id order by asset_id).                           *)
RowNumber(r) == Cardinality({s \in assets : s.template = r.template /\ s.id <= r.id})

(* Whatever the chain abandons, and wherever a filler dies: a number, once *)
(* given, is the row number of the view, so no template has a gap or a     *)
(* number twice, and an asset without template has none.                   *)
MintsAreRowNumbers ==
  \A r \in assets : r.mint # Null => r.template # NoTemplate /\ r.mint = RowNumber(r)

(* The range of a listing covers exactly the numbers of its assets.        *)
RangesAreComplete ==
  \A a \in auctions : a.range # Null => Complete(a) /\ a.range = RangeOf(a)

(* No row the reader knows to be irreversible stays without number.        *)
AllNumbered ==
  <>[](running /\ \A r \in assets : r.template # NoTemplate /\ r.block <= lastIrreversibleBlock
                                     => r.mint # Null)
=============================================================================
