------------------------------- MODULE Handlers -------------------------------
(***************************************************************************)
(* All handlers behind one Processor, through forks, crashes and throws.   *)
(*                                                                         *)
(* The traffic of a behaviour decides which contracts act: handlers touch  *)
(* each other's tables only in a purchase, which reads the oracle's pairs. *)
(***************************************************************************)
EXTENDS AtomicMarket, DelphiOracle, AtomicTools, SimpleAssets, AssetTables

CONSTANTS
  Traffic,     \* kinds of traffic
  MaxSent,     \* bound: actions of the contracts, for each kind
  ConfigForks  \* forks take back configuration and pairs of the oracle, too

ASSUME HandlersAssumption == /\ \A t \in Traffic : MaxSent[t] \in Nat /\ MaxForks \in Nat /\ MaxStops \in Nat
                             /\ UpdateInterval \in Nat /\ ConfigForks \in BOOLEAN
                             /\ IsFiniteSet(Pairs)

VARIABLE traffic

vars == <<contractVars, traffic>>

Unset(S) == [x \in S |-> NoRow]

(* Before the first block.  It makes a difference to the oracle's pairs    *)
(* only whether the reader has reached the head of the chain already.      *)
ChainAtStart ==
  [logs |-> 0, block |-> UpdateInterval,
   sales |-> Unset(Ids), auctions |-> Unset(Ids), buyoffers |-> Unset(Ids),
   templateBuyoffers |-> Unset(Ids),
   market |-> [version |-> 0, tokens |-> {}, pairs |-> {}],
   rows |-> [t \in Rows |-> [i \in Ids |-> "none"]],
   oracle |-> [p \in Pairs |-> [listed |-> FALSE, last |-> 0]],
   links |-> Unset(Ids), tools |-> 0,
   simple |-> Unset(Assets), simpleTransfers |-> {}, authors |-> [a \in Accounts |-> "none"],
   simpleVersion |-> 0,
   minted |-> Unset(Ids), transfers |-> {}, collections |-> Unset(Ids),
   schemas |-> [i \in Ids |-> 0], templates |-> Unset(Ids),
   assetConfig |-> [tokens |-> {}, format |-> 0, version |-> 0],
   assetBalances |-> [a \in Accounts |-> "none"]]

(* Memory after init, from the tables t. *)
Loaded(t) ==
  [market |-> t.market, oracle |-> LoadedOracle, tools |-> t.tools,
   simpleVersion |-> t.simpleVersion, simpleInserts |-> {},
   assetConfig |-> t.assetConfig, mints |-> {}]

(* init of the handlers has inserted rows of the configuration, with the   *)
(* versions the contracts have meanwhile.                                  *)
Init ==
  /\ traffic \in Traffic
  /\ chain = ChainAtStart
  /\ tables = [ChainAtStart EXCEPT !.oracle = Unset(Pairs), !.market.version = 1, !.tools = 1,
                                   !.simpleVersion = 1, !.assetConfig.version = 1]
  /\ memory = Loaded(tables)
  /\ InitReader
  /\ head \/ traffic \in {"sales", "medians"}

Contract ==
  /\ running \/ liveQueue = {}
  /\ sent < MaxSent[traffic]
  /\ UNCHANGED traffic
  /\ \/ /\ traffic = "sales"
        /\ \/ \E i \in Ids : NewSale(i) \/ Sale(i)
           \/ chain.market.version = 0 /\ Configuration
           \/ \E p \in Pairs : ~ chain.oracle[p].listed /\ Pair(p)
     \/ traffic = "config" /\ (Configuration \/ \E p \in Pairs : Pair(p))
     \/ traffic = "medians" /\ \E p \in Pairs : Pair(p) \/ Median(p)
     \/ traffic = "auctions" /\ \E i \in Ids : NewAuction(i) \/ Auction(i)
     \/ traffic = "buyoffers" /\ \E i \in Ids : Buyoffer(i) \/ TemplateBuyoffer(i)
     \/ traffic = "rows" /\ \E i \in Ids : MarketRows(i)
     \/ traffic = "lists" /\ (SimpleAuthor \/ \E a \in Accounts : AssetBalance(a))
     \/ traffic = "links" /\ (NewVersion \/ \E i \in Ids : Link(i))
     \/ traffic = "simple" /\ (SimpleAsset \/ SimpleVersion)
     \/ traffic = "assets" /\ \E i \in Ids : MintedAsset(i)
     \/ /\ traffic = "definitions"
        /\ \/ \E i \in Ids : Collection(i) \/ Definition(i)
           \/ AssetConfiguration

Throws(j) ==
  MarketThrows(j) \/ OracleThrows(j) \/ ToolsThrows(j) \/ SimpleThrows(j) \/ AssetsThrow(j)

(* Mutant of PriorityComplete: the lists are not emptied. *)
PriorityCompleteAgain ==
  /\ CompletePriority
  /\ tables' = IF lastPriority = AA_ACTION_MINT_ASSET
               THEN AssetsInserted(SimpleInserted(tables)) ELSE tables
  /\ UNCHANGED memory /\ JobFrame

(* The handlers that collect new assets insert them; other priorities have *)
(* no listeners.                                                           *)
PriorityComplete ==
  /\ CompletePriority
  /\ IF lastPriority = AA_ACTION_MINT_ASSET
     THEN /\ tables' = AssetsInserted(SimpleInserted(tables))
          /\ memory' = [memory EXCEPT !.mints = {}, !.simpleInserts = {}]
     ELSE UNCHANGED <<tables, memory>>
  /\ JobFrame

Handler ==
  /\ UNCHANGED traffic
  /\ \/ Start \/ PriorityComplete \/ Commit \/ CommitEmpty
     \/ \E j \in queue : \/ MarketJob(j) \/ OracleJob(j) \/ ToolsJob(j) \/ SimpleJob(j)
                         \/ AssetsJob(j) \/ LogTrace(j)
                         \/ Throws(j) /\ Throw(j)

(* Unless ConfigForks, nothing is taken back that a handler remembers. *)
Remembered(s) == <<s.chain.market, s.chain.tools, s.chain.simpleVersion, s.chain.assetConfig,
                   [p \in Pairs |-> s.tables.oracle[p] = NoRow]>>

ForkSwitch ==
  /\ ConfigForks \/ Remembered(previous) = Remembered(committed)
  /\ Fork /\ UNCHANGED traffic

NewProcess ==
  /\ Restart(Loaded(committed.tables),
             [t \in {tables, committed.tables, previous.tables} |-> InitPairs(t)])
  /\ UNCHANGED traffic

Next ==
  \/ Contract \/ Handler
  \/ ForkSwitch \/ NewProcess
  \/ UNCHANGED traffic /\ (Crash \/ ReachHead)

Spec == Init /\ [][Next]_vars

(* Jobs are awaited one after the other, and a process that stopped is     *)
(* started again.                                                          *)
FairSpec == Spec /\ WF_vars(Handler) /\ WF_vars(NewProcess)

-----------------------------------------------------------------------------
(* Properties *)

(* However blocks are grouped, forked off and executed again, the tables   *)
(* are what the contracts' history amounts to: each trace took effect      *)
(* once, in an order that gives the same rows as block by block.           *)
TablesMatch ==
  UpToDate /\ running =>
    /\ MarketMatches /\ ToolsMatch /\ SimpleMatch /\ AssetsMatch
    /\ tables.logs = chain.logs

(* The configuration in the tables, which handlers only change by          *)
(* comparing with what they remember, is that of the contracts.            *)
ConfigMatches ==
  UpToDate /\ running =>
    MarketConfigMatches /\ ToolsConfigMatches /\ SimpleConfigMatches /\ AssetConfigMatches

(* Without forks a median is never older than UpdateInterval blocks before *)
(* the last one the oracle has, whenever its pair was found missing, its   *)
(* row written again, or the process restarted.                            *)
MediansAreFresh ==
  UpToDate /\ running /\ forks = 0 =>
    \A p \in Pairs : tables.oracle[p] # NoRow =>
      chain.oracle[p].last <= tables.oracle[p].median + UpdateInterval

(* A sale, buyoffer or link that is settled stays as it is, and so do its  *)
(* buyer and price: only a fork, or giving up the transaction that settled *)
(* it, opens it again.                                                     *)
SettledRows(t) ==
  {r \in {"sales", "buyoffers", "templateBuyoffers", "links"} \X Ids :
     t[r[1]][r[2]].state \in Settled \cup {"CLAIMED"}}
SettledForGood ==
  [][(forks' = forks /\ running') =>
       \A r \in SettledRows(tables) : tables'[r[1]][r[2]] = tables[r[1]][r[2]]]_vars

(* A job that throws stops the reader, but not for good: what it threw on  *)
(* is gone in a new process, and the blocks are executed.                  *)
NeverStuck == executing \/ ~ running ~> UpToDate /\ running
=============================================================================
