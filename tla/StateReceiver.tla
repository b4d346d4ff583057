--------------------------- MODULE StateReceiver ---------------------------
(***************************************************************************)
(* A reader process: class StateReceiver of src/filler/receiver.ts with    *)
(* the state history client that feeds it (class StateHistoryBlockReader   *)
(* of src/connections/ship.ts), the job queue of DataProcessor, the        *)
(* notifications of ApiNotificationSender and the part of PostgreSQL the   *)
(* reader is restarted from.                                               *)
(*                                                                         *)
(* The chain and the state history node are external.  A block is named by *)
(* its history as in ChainIndex.  The database is abstracted to the set of *)
(* blocks whose effects it contains: that undoing the rollback queries of  *)
(* a block brings back the rows from before it is ContractDB's theorem.    *)
(***************************************************************************)
EXTENDS Integers, Sequences, FiniteSets, SequencesExt, FiniteSetsExt

CONSTANTS
  \* --- configuration of the reader
  StartBlock,       \* start_block, at least 2
  Modes,            \* values of irreversible_only
  Prefetch,         \* ship_prefetch_blocks: responses in flight
  DsQueueSize,      \* ship_ds_queue_size: blocks prepared ahead
  Group,            \* db_group_blocks
  ClearInterval,    \* 12 in the code: how often the fork database is cleared
  PositionLag,      \* 500 in the code: blocks without a position update
  \* --- what the handlers do with the blocks
  JobBlocks,        \* numbers of blocks with jobs that write tables
  LogBlocks,        \* numbers of blocks with jobs that log traces
  \* --- bounds on the chain and on faults
  InitHead, InitLib, \* the chain when the reader is started
  MaxBlock,         \* highest block number
  MaxForks,         \* number of fork switches
  ForkDepth,        \* blocks a fork switch replaces at most
  MaxStops          \* crashes and errors that stop the reader

ASSUME ConfigAssumption ==
  /\ StartBlock \in Nat \ {0, 1} /\ Modes \subseteq BOOLEAN
  /\ Prefetch \in Nat \ {0} /\ DsQueueSize \in Nat \ {0}
  /\ Group \in Nat \ {0} /\ ClearInterval \in Nat \ {0} /\ PositionLag \in Nat

(* The parent of the first block is irreversible: a fork below start_block *)
(* would bring blocks the reader was not asked to process.                 *)
ASSUME ChainAssumption ==
  /\ {InitHead, InitLib, MaxBlock, MaxForks, ForkDepth, MaxStops} \subseteq Nat
  /\ StartBlock - 1 <= InitLib /\ InitLib <= InitHead /\ InitHead <= MaxBlock

VARIABLES
  \* --- the chain and the state history node
  chain,    \* the current best branch
  lib,      \* number of the last irreversible block
  forks,    \* fork switches so far
  irreversibleOnly, \* irreversible_only of this deployment
  cursor,   \* number of the next block the node sends
  wire,     \* responses sent: the socket and ship.blocksQueue
  \* --- memory of the reader process
  running,  \* the process runs and dsQueue is not paused
  args,     \* ship.currentArgs: start_block_num and have_positions
  dsQueue,  \* prepared blocks
  pc,       \* where process stands
  state,    \* ProcessingState
  currentBlock,
  lastIrreversibleBlock,
  collectedBlocks,
  lastBlockUpdate,
  liveQueue,     \* blocks with jobs that write tables, in processor.liveQueue
  actionLogs,    \* blocks with jobs that log traces: in liveQueue, and when
                 \* they were executed in the actionLogs of the transaction
  db,            \* lastDatabaseTransaction, or the transaction of process
  notifications, \* notifier.notifications
  \* --- the database
  store,
  \* --- the subscribers of the reader's channel, and history
  announced, \* blocks the API servers were told of and not told to forget
  lost,      \* notifications of a committed block never reached Redis
  view,      \* the last block processed
  stops      \* stops so far

nodeVars   == <<chain, lib, forks, irreversibleOnly>>
memoryVars == <<args, dsQueue, pc, state, currentBlock, lastIrreversibleBlock,
                collectedBlocks, lastBlockUpdate, liveQueue, actionLogs, db,
                notifications, view>>
vars == <<nodeVars, cursor, wire, running, memoryVars, store, announced, lost, stops>>

(* A response of the node: [id, head, lib], a block's name and the numbers *)
(* of the last and the last irreversible block when it was sent.  The      *)
(* database, in store and in db.store: effects, the blocks whose effects   *)
(* the tables contain; undo, rollback queries as pairs of the block number *)
(* they are recorded under and the block whose effect they undo; traces    *)
(* and traceUndo, the same for the rows of contract_traces, and repeated,  *)
(* the blocks whose traces are there more than once; blocks,               *)
(* reversible_blocks; position and live, contract_readers; tip is history: *)
(* the last block processed when the database was committed.               *)
Num(b) == Len(b)

NoTransaction == [open |-> FALSE]

-----------------------------------------------------------------------------
(* The chain and the node *)

(* One more block on the best branch. *)
Produce ==
  /\ Len(chain) < MaxBlock
  /\ chain' = Append(chain, forks)
  /\ UNCHANGED <<lib, forks, irreversibleOnly, cursor, wire, running, memoryVars,
                 store, announced, lost, stops>>

(* Another branch, one block longer, replaces the blocks above k; the node *)
(* continues with the first block of the new branch if it sent others.     *)
Fork(k) ==
  /\ forks < MaxForks /\ Len(chain) < MaxBlock
  /\ k >= lib /\ k >= Len(chain) - ForkDepth
  /\ forks' = forks + 1
  /\ chain' = [n \in 1..(Len(chain) + 1) |-> IF n <= k THEN chain[n] ELSE forks + 1]
  /\ cursor' = IF cursor > k + 1 THEN k + 1 ELSE cursor
  /\ UNCHANGED <<lib, irreversibleOnly, wire, running, memoryVars, store, announced,
                 lost, stops>>

AdvanceLib(l) ==
  /\ l > lib
  /\ lib' = l
  /\ UNCHANGED <<chain, forks, irreversibleOnly, cursor, wire, running, memoryVars,
                 store, announced, lost, stops>>

(* Number of the last block the request asks for. *)
LastSent == IF irreversibleOnly THEN lib ELSE Len(chain)

(* The node sends the next block, with head and last irreversible block as *)
(* they are now.                                                           *)
Send ==
  /\ running
  /\ cursor <= LastSent /\ Len(wire) < Prefetch
  /\ wire' = Append(wire, [id |-> SubSeq(chain, 1, cursor), head |-> Len(chain),
                           lib |-> lib])
  /\ cursor' = cursor + 1
  /\ UNCHANGED <<nodeVars, running, memoryVars, store, announced, lost, stops>>

(* The first block the node sends for a request: start_block_num, or the   *)
(* lowest of have_positions that is not on the node's branch.              *)
FirstSent(request) ==
  Min({request.start} \cup {Num(b) : b \in {h \in request.have : ~ IsPrefix(h, chain)}})

(* Mutant of Reconnect: the dropped blocks are not requested again. *)
ReconnectAtCursor ==
  /\ running /\ wire # <<>>
  /\ wire' = <<>>
  /\ UNCHANGED <<nodeVars, cursor, running, memoryVars, store, announced, lost, stops>>

(* The connection is lost and made again.  Blocks already handed to the    *)
(* receiver stay there, the others are dropped and requested again.        *)
Reconnect ==
  /\ running /\ wire # <<>>
  /\ wire' = <<>>
  /\ cursor' = FirstSent(args)
  /\ UNCHANGED <<nodeVars, running, memoryVars, store, announced, lost, stops>>

(* A task of ship.blocksQueue: remember the block for the next request,    *)
(* then wait for dsLock and put the prepared block into dsQueue.  dsLock   *)
(* counts the prepared blocks, waiting ones included, and the one being    *)
(* processed.                                                              *)
Consume ==
  LET r == Head(wire)
  IN  /\ running /\ wire # <<>>
      /\ Len(dsQueue) + (IF pc = "idle" THEN 0 ELSE 1) < DsQueueSize
      /\ wire' = Tail(wire)
      /\ args' = [start |-> Num(r.id) + 1,
                  have  |-> {b \in args.have : Num(b) > r.lib /\ Num(b) < Num(r.id)}
                            \cup (IF Num(r.id) > r.lib THEN {r.id} ELSE {})]
      /\ dsQueue' = Append(dsQueue, r)
      /\ UNCHANGED <<nodeVars, cursor, running, pc, state, currentBlock,
                     lastIrreversibleBlock, collectedBlocks, lastBlockUpdate,
                     liveQueue, actionLogs, db, notifications, view, store,
                     announced, lost, stops>>

-----------------------------------------------------------------------------
(* Database operations, on the database s of a transaction *)

(* startTransaction; n is the block number, 0 for an irreversible block. *)
Transaction(n) == [open |-> TRUE, begun |-> FALSE, block |-> n, store |-> store]

(* The rollback queries for what the blocks B write in a transaction of    *)
(* block n.                                                                *)
Queries(n, B) == IF n = 0 THEN {} ELSE {<<n, b>> : b \in B}

(* Mutant of Apply: no rollback query is recorded. *)
ApplyForGood(s, n, B) == [s EXCEPT !.effects = @ \cup B]

(* The jobs of the blocks B change the tables in a transaction of block n. *)
Apply(s, n, B) == [s EXCEPT !.effects = @ \cup B, !.undo = @ \cup Queries(n, B)]

(* The traces the jobs of the blocks B logged enter contract_traces, which *)
(* has no key any more: migration 1.3.9 drops it.                          *)
LogTraces(s, n, B) ==
  [s EXCEPT !.traces    = @ \cup B,
            !.repeated  = @ \cup (B \cap s.traces),
            !.traceUndo = @ \cup Queries(n, B)]

(* The queries are executed, latest first, and deleted. *)
Undo(s, queries) ==
  LET Undone(recorded) == {u[2] : u \in recorded \cap queries}
  IN  [s EXCEPT !.effects   = @ \ Undone(s.undo),
                !.undo      = @ \ queries,
                !.traces    = @ \ Undone(s.traceUndo),
                !.repeated  = @ \ Undone(s.traceUndo),
                !.traceUndo = @ \ queries]

QueriesFrom(s, n) == {u \in s.undo \cup s.traceUndo : u[1] >= n}

(* Mutant of Rollback: the queries of block n itself are left out. *)
RollbackAbove(s, n) ==
  [Undo(s, QueriesFrom(s, n + 1)) EXCEPT !.blocks   = {b \in @ : Num(b) < n},
                                         !.position = n - 1]

(* rollbackReversibleBlocks *)
Rollback(s, n) ==
  [Undo(s, QueriesFrom(s, n)) EXCEPT !.blocks   = {b \in @ : Num(b) < n},
                                     !.position = n - 1]

(* clearForkDatabase: blocks and queries up to the last irreversible block *)
(* of the response are forgotten.                                          *)
Clear(s, l) == [s EXCEPT !.blocks    = {b \in @ : Num(b) > l},
                         !.undo      = {u \in @ : u[1] > l},
                         !.traceUndo = {u \in @ : u[1] > l}]

(* Mutant of Register: the lowest reversible block is forgotten, too. *)
RegisterOffByOne(s, r) ==
  LET entered == [s EXCEPT !.blocks = @ \cup {r.id}]
  IN  IF Num(r.id) % ClearInterval = 0 THEN Clear(entered, r.lib + 1) ELSE entered

(* The block of r enters reversible_blocks; the fork database is cleared   *)
(* now and then.                                                           *)
Register(s, r) ==
  LET entered == [s EXCEPT !.blocks = @ \cup {r.id}]
  IN  IF Num(r.id) % ClearInterval = 0 THEN Clear(entered, r.lib) ELSE entered

-----------------------------------------------------------------------------
(* StateReceiver *)

(* The block is refused: blocks are missing, or it is below the last       *)
(* irreversible block.  The queue is paused, nothing is processed until    *)
(* the process is restarted.                                               *)
Refused(r) ==
  \/ Num(r.id) > currentBlock + 1
  \/ Num(r.id) <= currentBlock /\ Num(r.id) < lastIrreversibleBlock

Jobs(b) == IF Num(b) \in JobBlocks THEN {b} ELSE {}
Logs(b) == IF Num(b) \in LogBlocks THEN {b} ELSE {}

(* Mutant of SendFork: the block that replaces is counted as kept. *)
SendForkOffByOne(n) == [fork |-> n + 1, blocks |-> {}]

(* sendFork: everything from block n on is taken back. *)
SendFork(n) == [fork |-> n, blocks |-> {}]

(* Mutant of CommitSize: groups are filled up near the head, too. *)
CommitSizeAlwaysGrouped(nearHead, isFork) == IF isFork THEN 1 ELSE Group

(* Blocks to collect before the next commit. *)
CommitSize(nearHead, isFork) == IF nearHead \/ isFork THEN 1 ELSE Group

(* process up to its commit decision: a fork is rolled back, the     *)
(* traces and rows of the block become jobs, a reversible block enters     *)
(* reversible_blocks.  The transaction of an unfinished group is replaced, *)
(* without being committed or aborted, when the block is reversible.       *)
ProcessBlock ==
  LET r     == Head(dsQueue)
      n     == Num(r.id)
      head  == IF irreversibleOnly THEN r.lib ELSE r.head
      isReversible == n > r.lib
      nearHead     == isReversible \/ head - n < Group * 2
      isFork       == n <= currentBlock
      tx    == IF db.open /\ ~ isReversible THEN db
               ELSE Transaction(IF isReversible THEN n ELSE 0)
      rolledBack == IF isFork THEN Rollback(tx.store, n) ELSE tx.store
  IN  /\ running /\ pc = "idle" /\ dsQueue # <<>> /\ ~ Refused(r)
      /\ dsQueue' = Tail(dsQueue)
      /\ state' = IF nearHead THEN "HEAD" ELSE state
      /\ db' = [tx EXCEPT !.begun = @ \/ isFork \/ isReversible,
                          !.store = IF isReversible THEN Register(rolledBack, r)
                                                    ELSE rolledBack]
      /\ notifications' = IF isFork THEN Append(notifications, SendFork(n))
                                    ELSE notifications
      /\ liveQueue' = liveQueue \cup Jobs(r.id)
      /\ actionLogs' = actionLogs \cup Logs(r.id)
      /\ currentBlock' = n /\ lastIrreversibleBlock' = r.lib /\ view' = r.id
      /\ collectedBlocks' = collectedBlocks + 1
      /\ pc' = IF collectedBlocks + 1 >= CommitSize(nearHead, isFork)
               THEN "execute" ELSE "idle"
      /\ UNCHANGED <<nodeVars, cursor, wire, running, args, lastBlockUpdate,
                     store, announced, lost, stops>>

(* Mutant of PositionUpdated: only live blocks and long gaps count. *)
PositionUpdatedWhenLive(begun) ==
  \/ db.block # 0 \/ state = "HEAD"
  \/ currentBlock - lastBlockUpdate > PositionLag

(* The commit also updates contract_readers. *)
PositionUpdated(begun) ==
  \/ begun \/ db.block # 0 \/ state = "HEAD"
  \/ currentBlock - lastBlockUpdate > PositionLag

(* executeHeadQueue: the jobs of all collected blocks run in the           *)
(* transaction of the last one and prepare their notifications.  The first *)
(* row written begins the transaction; a trace is only pushed to           *)
(* actionLogs.  Then updateReaderPosition, unless nothing was begun.       *)
Execute ==
  LET begun   == db.begun \/ liveQueue # {}
      applied == Apply(db.store, db.block, liveQueue)
      update  == PositionUpdated(begun)
  IN  /\ running /\ pc = "execute"
      /\ liveQueue' = {}
      /\ notifications' = Append(notifications, [fork |-> 0, blocks |-> liveQueue])
      /\ db' = [db EXCEPT !.begun = begun \/ update,
                          !.store = IF update
                                    THEN [applied EXCEPT !.position = currentBlock,
                                                         !.live = (state = "HEAD")]
                                    ELSE applied]
      /\ lastBlockUpdate' = IF update THEN currentBlock ELSE lastBlockUpdate
      /\ pc' = "commit"
      /\ UNCHANGED <<nodeVars, cursor, wire, running, args, dsQueue, state,
                     currentBlock, lastIrreversibleBlock, collectedBlocks,
                     actionLogs, view, store, announced, lost, stops>>

(* commit: the traces logged by the jobs are inserted, which begins the    *)
(* transaction if nothing was written before, then COMMIT.                 *)
Commit ==
  /\ running /\ pc = "commit"
  /\ store' = [LogTraces(db.store, db.block, actionLogs) EXCEPT !.tip = view]
  /\ actionLogs' = {} /\ db' = NoTransaction
  /\ collectedBlocks' = 0
  /\ pc' = "publish"
  /\ UNCHANGED <<nodeVars, cursor, wire, running, args, dsQueue, state,
                 currentBlock, lastIrreversibleBlock, lastBlockUpdate,
                 liveQueue, notifications, view, announced, lost, stops>>

(* What a subscriber knows after the messages ms: a fork takes back the     *)
(* blocks announced before it.                                             *)
Told(known, ms) ==
  LET Kept(b, later) == \A i \in later : ms[i].fork # 0 => Num(b) < ms[i].fork
  IN  {b \in known : Kept(b, DOMAIN ms)} \cup
      UNION {{b \in ms[i].blocks : Kept(b, (i + 1)..Len(ms))} : i \in DOMAIN ms}

Published(arrives) ==
  /\ running /\ pc = "publish"
  /\ announced' = IF arrives THEN Told(announced, notifications) ELSE announced
  /\ notifications' = <<>>
  /\ pc' = "idle"
  /\ UNCHANGED <<nodeVars, cursor, wire, running, args, dsQueue, state,
                 currentBlock, lastIrreversibleBlock, collectedBlocks,
                 lastBlockUpdate, liveQueue, actionLogs, db, view, store, stops>>

(* publish; outside of head mode the notifications are dropped. *)
Publish == Published(state = "HEAD") /\ UNCHANGED lost

(* publish, and Redis fails: a warning is logged. *)
PublishFails == state = "HEAD" /\ Published(FALSE) /\ lost' = TRUE

-----------------------------------------------------------------------------
(* Stops and starts *)

(* A statement or a job throws and dsQueue is paused, with the transaction *)
(* aborted, or the process exits.  What the database committed and what    *)
(* the subscribers know is left.                                           *)
Stop ==
  /\ running /\ stops < MaxStops
  /\ stops' = stops + 1
  /\ running' = FALSE
  /\ lost' = (lost \/ pc = "publish")
  /\ pc' = "idle" /\ wire' = <<>> /\ dsQueue' = <<>>
  /\ liveQueue' = {} /\ actionLogs' = {}
  /\ notifications' = <<>> /\ db' = NoTransaction
  /\ collectedBlocks' = 0 /\ lastIrreversibleBlock' = 0
  /\ UNCHANGED <<nodeVars, cursor, args, state, currentBlock, lastBlockUpdate,
                 view, store, announced>>

(* The process starts at startBlock in the given state. *)
StartAt(startBlock, initialState) ==
  /\ ~ running
  /\ running' = TRUE
  /\ state' = initialState
  /\ currentBlock' = startBlock - 1 /\ lastBlockUpdate' = startBlock - 1
  /\ args' = [start |-> startBlock, have |-> store.blocks]
  /\ cursor' = FirstSent(args')
  /\ view' = SubSeq(store.tip, 1, store.position)
  /\ UNCHANGED <<nodeVars, wire, dsQueue, pc, lastIrreversibleBlock,
                 collectedBlocks, liveQueue, actionLogs, db, notifications, store,
                 announced, lost, stops>>

StoredState == IF store.live THEN "HEAD" ELSE "CATCHUP"

(* Mutant of Start: the last block is read again. *)
StartAtPosition == StartAt(Max({store.position, StartBlock}), StoredState)

(* startProcessing of a new process, connected to the node. *)
Start == StartAt(Max({store.position + 1, StartBlock}), StoredState)

Init ==
  /\ chain = [n \in 1..InitHead |-> 0] /\ lib = InitLib /\ forks = 0
  /\ irreversibleOnly \in Modes
  /\ cursor = 1 /\ wire = <<>>
  /\ running = FALSE
  /\ args = [start |-> 1, have |-> {}] /\ dsQueue = <<>>
  /\ pc = "idle" /\ state = "CATCHUP"
  /\ currentBlock = 0 /\ lastIrreversibleBlock = 0
  /\ collectedBlocks = 0 /\ lastBlockUpdate = 0
  /\ liveQueue = {} /\ actionLogs = {} /\ db = NoTransaction /\ notifications = <<>>
  /\ store = [effects |-> {}, undo |-> {}, traces |-> {}, repeated |-> {},
              traceUndo |-> {}, blocks |-> {}, position |-> 0, live |-> FALSE, tip |-> <<>>]
  /\ announced = {} /\ lost = FALSE /\ view = <<>> /\ stops = 0

Reader == ProcessBlock \/ Execute \/ Commit \/ Publish

Next ==
  \/ Produce
  \/ \E k \in 1..Len(chain) - 1 : Fork(k)
  \/ \E l \in 1..Len(chain) : AdvanceLib(l)
  \/ Send \/ Reconnect \/ Consume
  \/ Reader \/ PublishFails
  \/ Stop \/ Start

Spec == Init /\ [][Next]_vars

(* The node keeps sending, the event loop keeps running queued tasks, a    *)
(* stopped reader is started again, and the connection is not lost again   *)
(* and again before a single block is consumed.                            *)
Fairness == WF_vars(Send) /\ SF_vars(Consume) /\ WF_vars(Reader) /\ WF_vars(Start)

FairSpec == Spec /\ Fairness

-----------------------------------------------------------------------------
(* Properties *)

Index == INSTANCE ChainIndex
           WITH final <- SubSeq(chain, 1, lib), tip <- store.tip,
                rows <- store.effects, EffectBlocks <- JobBlocks

(* The committed database always is the image of one branch up to one      *)
(* block, and no effect of an irreversible block is ever taken back.       *)
IndexSpec == Index!Spec

(* "Per block transactions guarantee that the database is consistent at    *)
(* any time": the tables contain the effects of the blocks up to the last  *)
(* processed one, each of its branch and none of another.                  *)
DatabaseConsistent == store.effects = Index!Effects(store.tip)

(* The reader never pauses because of the blocks it receives: across       *)
(* forks, reconnects and restarts no block is skipped and none below the   *)
(* last irreversible block comes again.                                    *)
NeverRefused == running /\ pc = "idle" /\ dsQueue # <<>> => ~ Refused(Head(dsQueue))

(* A block extends the branch the reader is on, after the rollback it may  *)
(* cause: its parent is the last processed block or an ancestor of it.     *)
ParentProcessed ==
  running /\ pc = "idle" /\ dsQueue # <<>> /\ view # <<>>
    => IsPrefix(Front(Head(dsQueue).id), view)

(* Traces of a catch-up group that only logged: its transaction is begun   *)
(* inside commit, after the decision about the position.                   *)
TracesAhead == \E b \in store.traces : Num(b) > store.position

(* No block's jobs are executed on tables that have its effects already,   *)
(* nor on tables that miss the effects of an ancestor or have those of     *)
(* another branch; and unless the committed traces are ahead of the        *)
(* position, none is executed whose traces are in contract_traces.         *)
ExecutedOnce ==
  pc = "execute" =>
    /\ liveQueue \cap db.store.effects = {}
    /\ liveQueue \cup db.store.effects = Index!Effects(view)
    /\ actionLogs \cap db.store.traces # {} => TracesAhead

(* A restart repeats no block that has effects in the tables.  Of the      *)
(* traces it only repeats those of the last PositionLag blocks of a reader *)
(* that has not been live.                                                 *)
PositionCoversEffects ==
  /\ \A b \in store.effects : Num(b) <= store.position
  /\ \A b \in store.traces : Num(b) > store.position =>
       ~ store.live /\ Num(b) <= Max({store.position, StartBlock - 1}) + PositionLag

(* "Per block transactions guarantee that the database is consistent at    *)
(* any time": no trace is in contract_traces twice.                        *)
TracesLoggedOnce == store.repeated = {}

(* Unless a notification was lost, what the API servers were told is       *)
(* committed, forks included, whenever process is done with a block.       *)
AnnouncedIsCommitted == pc # "publish" /\ ~ lost => announced \subseteq store.effects

(* Whatever forks, lost connections, crashes and failures of Redis there   *)
(* were, the database reaches the last block of a chain that has stopped   *)
(* changing, as bounds make every chain do: no block stays in an           *)
(* unfinished group, no queue is left waiting; and the position does not   *)
(* stay behind the traces.                                                 *)
CatchesUp ==
  <>[](LastSent >= StartBlock =>
         store.tip = SubSeq(chain, 1, LastSent) /\ ~ TracesAhead)
=============================================================================
