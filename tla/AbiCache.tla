------------------------------ MODULE AbiCache ------------------------------
(***************************************************************************)
(* The ABI with which the reader deserialises the traces and rows of a     *)
(* contract (src/filler/receiver.ts): looked up when a block is prepared,  *)
(* while earlier blocks that may change it wait to be processed, and again *)
(* when the block is processed.                                            *)
(*                                                                         *)
(* One contract; an ABI is named by the block that set it.  A block may    *)
(* set the ABI and then have a trace and a row of the contract.  Forks are *)
(* left out: neither contract_abis nor the cache forgets the ABI of a      *)
(* block that is rolled back.                                              *)
(***************************************************************************)
EXTENDS Integers, Sequences, FiniteSets, FiniteSetsExt

CONSTANTS
  MaxBlock,  \* bound: blocks
  MaxAhead   \* bound: blocks prepared and not yet processed (ship_ds_queue_size)

ASSUME AbiCacheAssumption == MaxBlock \in Nat /\ MaxAhead \in Nat \ {0}

VARIABLES
  setabi,     \* blocks that set the ABI; 0 stands for the time before
  abis,       \* rows of contract_abis
  abi,        \* the cached ABI: abis of StateReceiver
  fetch,      \* fetchContractAbi under way, of the preparation and of the processing
  prepared,   \* blocks in dsQueue, with the ABIs their trace and their row were read with
  block,      \* the one in process: currentBlock
  position,   \* the last committed block
  used        \* the last trace or row given to the handlers, and its ABI

abiVars == <<setabi, abis, abi, fetch, prepared, block, position, used>>

NoAbi == [block_num |-> -2, abi |-> -2]
NoFetch == [at |-> "none"]

(* What a trace of block n has to be read with. *)
AbiOf(n) == Max({m \in setabi : m <= n})
KnownAbi(n) == \E m \in setabi : m <= n

-----------------------------------------------------------------------------
(* fetchContractAbi; who is "prepare" or "process". *)

Cached(n) == abi # NoAbi /\ abi.block_num <= n

StartFetch(who, n, item) == [fetch EXCEPT ![who] =
  IF Cached(n) THEN [at |-> "done", block |-> n, item |-> item, result |-> abi]
  ELSE [at |-> "database", block |-> n, item |-> item, result |-> NoAbi]]

Newer(result) == abi = NoAbi \/ abi.block_num <= result.block_num

Fetched(who, result) ==
  /\ fetch' = [fetch EXCEPT ![who] = [@ EXCEPT !.at = "done", !.result = result]]
  /\ abi' = IF Newer(result) THEN result ELSE abi
  /\ UNCHANGED <<setabi, abis, prepared, block, position, used>>

(* fetchAbi has been answered; while the answer was under way the cache    *)
(* may have changed. *)
ReadAbi(who) ==
  LET n == fetch[who].block
      rows == {m \in abis : m <= n}
  IN  /\ fetch[who].at = "database"
      /\ fetch' = [fetch EXCEPT ![who] =
           IF rows = {} THEN [@ EXCEPT !.at = "next"]
           ELSE [@ EXCEPT !.at = "answer", !.result = [block_num |-> Max(rows), abi |-> Max(rows)]]]
      /\ UNCHANGED <<setabi, abis, abi, prepared, block, position, used>>

(* fetchNextAbi, or the present ABI of the chain. *)
ReadNextAbi(who) ==
  LET rows == {m \in abis : m > fetch[who].block}
  IN  /\ fetch[who].at = "next"
      /\ fetch' = [fetch EXCEPT ![who] = [@ EXCEPT !.at = "answer", !.result =
           [block_num |-> -1, abi |-> IF rows # {} THEN Min(rows) ELSE Max(setabi \cup {-1})]]]
      /\ UNCHANGED <<setabi, abis, abi, prepared, block, position, used>>

StoreAbi(who) == fetch[who].at = "answer" /\ Fetched(who, fetch[who].result)

FetchAbi == \E who \in {"prepare", "process"} : ReadAbi(who) \/ ReadNextAbi(who) \/ StoreAbi(who)

-----------------------------------------------------------------------------

LastPrepared == IF prepared = <<>> THEN block.num ELSE prepared[Len(prepared)].block_num

(* prepareActionTraces of the next block. *)
PrepareActionTraces ==
  /\ fetch["prepare"] = NoFetch
  /\ LastPrepared < MaxBlock /\ Len(prepared) < MaxAhead
  /\ fetch' = StartFetch("prepare", LastPrepared + 1, [of |-> "trace"])
  /\ UNCHANGED <<setabi, abis, abi, prepared, block, position, used>>

PrepareContractRows ==
  /\ fetch["prepare"].at = "done" /\ fetch["prepare"].item.of = "trace"
  /\ fetch' = StartFetch("prepare", fetch["prepare"].block,
                         [of |-> "row", trace |-> fetch["prepare"].result])
  /\ UNCHANGED <<setabi, abis, abi, prepared, block, position, used>>

(* The block is added to dsQueue. *)
Consumer ==
  /\ fetch["prepare"].at = "done" /\ fetch["prepare"].item.of = "row"
  /\ prepared' = Append(prepared, [block_num |-> fetch["prepare"].block,
                                   trace |-> fetch["prepare"].item.trace,
                                   row |-> fetch["prepare"].result])
  /\ fetch' = [fetch EXCEPT !["prepare"] = NoFetch]
  /\ UNCHANGED <<setabi, abis, abi, block, position, used>>

(* process takes the next block. *)
TakeBlock ==
  /\ block.at = "done" /\ prepared # <<>>
  /\ block' = [num |-> Head(prepared).block_num, trace |-> Head(prepared).trace,
               row |-> Head(prepared).row,
               at |-> IF Head(prepared).block_num \in setabi THEN "setabi" ELSE "trace"]
  /\ prepared' = Tail(prepared)
  /\ UNCHANGED <<setabi, abis, abi, fetch, position, used>>

(* handleAbiUpdate: cached at once, and inserted outside of the block's    *)
(* transaction. *)
HandleAbiUpdate ==
  /\ block.at = "setabi"
  /\ abi' = [block_num |-> block.num, abi |-> block.num]
  /\ block' = [block EXCEPT !.at = "insert"]
  /\ UNCHANGED <<setabi, abis, fetch, prepared, position, used>>

(* A row that exists already is kept. *)
InsertAbi ==
  /\ block.at = "insert"
  /\ abis' = abis \cup {block.num}
  /\ block' = [block EXCEPT !.at = "trace"]
  /\ UNCHANGED <<setabi, abi, fetch, prepared, position, used>>

(* Fetching for handleActionTrace, if the block has a trace, and then for  *)
(* handleContractRow, if it has a row.                                     *)
HandleItem(item, next) ==
  /\ block.at = item
  /\ \/ fetch' = StartFetch("process", block.num, [of |-> item]) /\ block' = [block EXCEPT !.at = "fetch"]
     \/ block' = [block EXCEPT !.at = next] /\ UNCHANGED fetch
  /\ UNCHANGED <<setabi, abis, abi, prepared, position, used>>

(* Mutant of Outdated: what was prepared is good. *)
OutdatedNever(json, found) == FALSE

Outdated(json, found) == json.block_num # found.block_num

(* It is deserialised again if another ABI was used in the preparation.    *)
(* That asks for the ABI once more; no other step than HandleAbiUpdate     *)
(* changes the answer for this block.                                      *)
Deserialized(item, next) ==
  LET found == fetch["process"].result
      json == block[item]
  IN  /\ block.at = "fetch" /\ fetch["process"].at = "done" /\ fetch["process"].item.of = item
      /\ used' = [block_num |-> block.num, abi |-> IF Outdated(json, found) THEN found.abi ELSE json.abi]
      /\ fetch' = [fetch EXCEPT !["process"] = NoFetch]
      /\ block' = [block EXCEPT !.at = next]
      /\ UNCHANGED <<setabi, abis, abi, prepared, position>>

HandleActionTrace == HandleItem("trace", "row") \/ Deserialized("trace", "row")
HandleContractRow == HandleItem("row", "done") \/ Deserialized("row", "done")

(* The end of a group of blocks. *)
CommitBlocks ==
  /\ block.at = "done" /\ position < block.num
  /\ position' = block.num
  /\ UNCHANGED <<setabi, abis, abi, fetch, prepared, block, used>>

ReaderStep ==
  \/ PrepareActionTraces \/ PrepareContractRows \/ Consumer
  \/ TakeBlock \/ HandleAbiUpdate \/ InsertAbi
  \/ HandleActionTrace \/ HandleContractRow \/ CommitBlocks \/ FetchAbi

(* A new process continues after the last commit. *)
RestartReader ==
  /\ abi' = NoAbi /\ prepared' = <<>>
  /\ fetch' = [who \in {"prepare", "process"} |-> NoFetch]
  /\ block' = [num |-> position, trace |-> NoAbi, row |-> NoAbi, at |-> "done"]
  /\ UNCHANGED <<setabi, abis, position, used>>

(* The ABI before the first block may be in the database or not. *)
InitAbis ==
  /\ setabi \in SUBSET (0..MaxBlock) /\ abis = setabi \cap {0}
  /\ abi = NoAbi /\ prepared = <<>>
  /\ fetch = [who \in {"prepare", "process"} |-> NoFetch]
  /\ position = 0 /\ block = [num |-> 0, trace |-> NoAbi, row |-> NoAbi, at |-> "done"]
  /\ used = NoAbi

(* However far the preparation is ahead and whatever the process found in  *)
(* the database when it started, handlers get traces as their contract     *)
(* meant them when the block was produced, if that ABI was ever seen.      *)
AbiOfBlock == KnownAbi(used.block_num) => used.abi = AbiOf(used.block_num)
=============================================================================
