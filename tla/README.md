# Verification of the EOSIO Contract API

TLA+ models of the filler and of the API server of this repository, checked with TLC, and
theorems about them, checked with TLAPS. Source paths are relative to the repository root;
`receiver.ts` and the like are files of `src/filler/`, `ship.ts` is `src/connections/ship.ts`,
and API files without a directory are files of `src/api/namespaces/atomicmarket/`.

## 1. The system

A *filler* process runs one worker per *reader*. A reader receives the blocks of a chain from
the state history plugin of a node, lets contract handlers translate them into rows of
PostgreSQL, and tells the *API servers* over Redis. API servers only read the database. A block
that is not irreversible yet may be replaced by another one, so a reader records how to undo
it.

    node --websocket--> StateHistoryBlockReader --consumer--> StateReceiver --jobs--> DataProcessor
                                                                  |                        |
                                         ContractDBTransaction <--+----- handlers <--------+
                                                  |               |
                                             PostgreSQL   ApiNotificationSender --Redis--> API servers

### Inventory

| component | state | operations | what makes it correct | hard behaviour |
|---|---|---|---|---|
| **Reversible store** `database.ts` | tables, `reversible_queries`, `reversible_blocks`, `contract_readers`, open transaction | insert, update, delete, replace, rollbackReversibleBlocks, clearForkDatabase, updateReaderPosition, commit, abort | a rollback succeeds and brings back the tables from before the block; nothing of a forgotten block is left | order of undo queries, partial updates, clean-up between forks, aborts |
| **Reader** `receiver.ts` | currentBlock, lastIrreversibleBlock, collectedBlocks, lastBlockUpdate, lastDatabaseTransaction, dsQueue, dsLock | startProcessing, consumer, process | each block is executed once on the tables of its parent; the database is the image of one branch | forks, groups of blocks, restarts, error path |
| **State history client** `ship.ts` | currentArgs, blocksQueue, unconfirmed, socket | onMessage, onClose, requestBlocks, acknowledge | blocks arrive in order, none lost, duplicated or of a branch the node has left unnoticed | reconnects, flow control |
| **Job queue of a block** `processor.ts` | liveQueue, listeners, state | processActionTrace, processContractRow, executeHeadQueue | a group executed by priority equals block by block | reordering |
| **Notification sender** `notifier.ts`, receiver `src/api/notification.ts` | notifications | sendActionTrace, sendContractRow, sendFork, publish | subscribers know nothing that is not committed | Redis failures, crash after commit |
| **Filler** `filler.ts`, `src/bin/filler.ts` | watchdog counters | startFiller, stopFiller, deleteDB | a stopped reader is started again | watchdog, start that fails |
| **ABI cache** `receiver.ts:393-570` | `abis`, `contract_abis` | handleAbiUpdate, fetchContractAbi | data is decoded with the ABI valid at its block | preparation runs ahead of process, restart |
| **Handlers** `handlers/*` | their tables, some memory (config, new assets, transferred assets, oracle pairs) | one per action and table row | the tables are what the contract's history amounts to; settled rows stay | jobs of a group by priority, throws, memory across forks |
| **Mint procedures** `definitions/procedures` | mint numbers | update_*_mints | numbers without gaps or duplicates, in order of asset ids | commit per row, concurrent with the reader |
| **JobQueue** `jobqueue.ts`, **ListPoller** `list-poller.ts`, **UpgradeDb** `upgrade-db.ts`, **Semaphore** `src/utils/semaphore.ts` | timers and jobs, lists, version, permits | add/run/pulse, poll, upgradeDb, acquire/release | every job runs again; lists equal the source; each migration once; permits are not lost | overlap, slow jobs, death between two versions |
| **Filter table of sales** `definitions/migrations/1.3.*/atomicmarket.sql` | `atomicmarket_sales_filters`, `..._updates` | triggers, update_atomicmarket_sales_filters | a row that is stale is due; the table catches up | a snapshot per statement, forks, timeouts |
| **Listings** `utils.ts`, `format.ts`, `handlers/*.ts` | none | /v1/sales, /v2/sales, auctions, buyoffers, template buyoffers | two versions of one search agree; what is asked for is what is shown | state computed in three places, stale filters |
| **Sockets** `src/api/notification.ts`, `routes/*.ts` | rooms, queries under way | onData, events | clients follow what was committed | rows read after the message, forks in between |
| **API server** `src/api/server.ts` | rate limit counters, response cache | request handling | limit respected; cached answers not older than promised | expiry, concurrency |

`PROJECT.json` lists the components with their status, and the hazards at their lines.

## 2. Plan

Order: what decides whether the database is right comes first, then what readers of the database
are told.

| # | module | models | composed with / refines | theorems worth proving | state |
|---|---|---|---|---|---|
| 1 | `ContractDB` | the reversible store | | type, rollback never throws, rollback restores, have_positions complete, queries belong to blocks | done, proved |
| 2 | `ChainIndex` | what a reader promises | | the promise itself: `rows = Effects(tip)`, finality | done; that `StateReceiver` implements it is proved |
| 3 | `StateReceiver` | reader, client, queue of jobs, notifications, crash and restart | implements `ChainIndex` | in-order blocks, consistent tables, announcements, the refinement | done, proved |
| 4 | `ShipReader` | acknowledgements, flow control, handshake, reconnection with a block in work; `Semaphore` | justifies the in-order channel `StateReceiver` assumes (`Send`, `Reconnect`, `Consume`) | type, permits, in-order processing, bound on memory | done, proved |
| 5 | `Processor` | the queue of jobs: priorities, listeners, groups | extended by the handlers | order of execution | done, checked |
| 6 | `AtomicAssets` | assets and offers | extends `Processor`; the result equals the chain | no job throws, owners, offers, closed offers | done, proved |
| 7 | `Contracts`, `AtomicMarket`, `AtomicTools`, `DelphiOracle`, `SimpleAssets`, `AssetTables` | the other handlers | `Handlers` runs all of them behind one `Processor`, with forks, throws and restarts | tables and configuration match, medians are fresh, settled rows | done, proved |
| 8 | `Mints` | mint procedures beside the reader, forks, dead fillers | the result equals a view of the repository | row numbers, ranges | done, proved |
| 9 | `UpgradeDb`, `JobQueue`, `ListPoller`, `AbiCache` | the small state machines of the filler | `Worker` gives them one life: master, worker, watchdog | migrations once, ABI of a block | done; both proved, the liveness of jobs, lists and watchdog checked |
| 10 | `MarketTables`, `SalesFilters` | the tables of the market, the filter table and its job | | stale rows are due | done, proved |
| 11 | `QueryBuilder`, `AssetQueries`, `Listings`, `SalesV2` | the searches of the API | `Api` asks them between any two steps of `SalesFilters` | | done, checked |
| 12 | `Sockets` | sender, Redis, receiver, listeners, clients | `Api` | clients follow, events are of committed rows | done, proved |
| 13 | response cache of `server.ts`; prices of variable sales | | `Api` | | open |
| 14 | proofs about `Handlers` (`HandlersInvariant`, `HandlersProofs`) | what rows and jobs together amount to | | settled rows, tables that match the chain, medians | done, proved |

## 3. The modules

### ContractDB - the reversible store

One table stands for all tables: `Keys` are primary keys, `Cols` the other columns. `queries`
is `reversible_queries`, `blocks` is `reversible_blocks`, `position` is
`contract_readers.block_num`. `saved` is the committed database; `Abort` brings it back, which
is PostgreSQL's ROLLBACK, for an error of any statement and for a crash alike. `nextId` is a
sequence and is not rolled back.

| action | code |
|---|---|
| `StartTransaction(b, l)` | `process` up to the fork test: `startTransaction(isReversible)`, `rollbackReversibleBlocks` selects its queries |
| `ExecuteRollbackQuery(q)` | one iteration of the loop of `rollbackReversibleBlocks`, newest first |
| `FinishRollback` | its three statements behind the loop |
| `RegisterBlock` | `insert('reversible_blocks')` and, every `ClearInterval` blocks, `clearForkDatabase` |
| `Insert`, `Update`, `Delete`, `Replace` | the statements of handlers, with the rollback query each records |
| `Commit`, `Abort` | `updateReaderPosition` and `commit`; `abort` or a crash |

A statement's rollback queries are rows with consecutive ids that concern different primary
keys; they commute, and one element of `queries` stands for them. The condition of a statement
is the set of primary keys it selects. `image`, `floor` and the field `before` of a query are
history: the properties compare with them, the actions do not read them.

### ChainIndex - what a reader promises

A block is named by its history (the sequence of branch tags up to it): its number is the
length of its name, its ancestors are the prefixes. The tables are always `Effects(tip)`, the
effects of the blocks of one branch, and a step never takes back the effects of the last
irreversible block.

### StateReceiver - a reader from node to database

The chain, the state history node and the subscribers are external: they are modelled from how
`ship.ts`, `receiver.ts` and `notifier.ts` use them. The node sends blocks in order, goes back
to the first block of a new branch after a fork, and starts a request at `start_block_num` or at
the lowest of `have_positions` that is not on its branch.

| action | code |
|---|---|
| `Produce`, `Fork`, `AdvanceLib`, `Send` | chain and node |
| `Reconnect` | `onClose` (the queue is cleared), `connect`, `requestBlocks` with `currentArgs` |
| `Consume` | the task of `blocksQueue`: `currentArgs` advances, `dsLock.acquire`, the block enters `dsQueue` |
| `ProcessBlock` | `process` up to the commit decision: skip and fork tests, choice of the transaction, rollback, jobs, `reversible_blocks` |
| `Execute` | `executeHeadQueue`, conditional `updateReaderPosition` |
| `Commit` | `commit`: the logged traces are inserted (`LogTraces`), then COMMIT; and the reset behind it |
| `Publish`, `PublishFails` | `notifier.publish` and its caught error |
| `Stop` | an error that pauses `dsQueue`, or the end of the process, between any two of the steps above |
| `Start` | `startProcessing` of a new process |

The steps of `process` are separated where it awaits something a crash can come between.
Nothing else changes the variables of `process` meanwhile, because `dsQueue` runs one task at a
time. The database is abstracted to the set of blocks whose effects the tables contain
(`effects`) and pairs of a block number and a block (`undo`): that the rollback queries of a
block restore the rows is what `ContractDB` shows.

The jobs of a block may write tables (`JobBlocks`), log traces (`LogBlocks`), both or neither. What writes a
table begins the transaction. What logs a trace only pushes it to `actionLogs`; the rows of
`contract_traces` are inserted by `commit`, after `process` has decided whether the position is updated. `store.traces`
are the blocks whose traces are in the table, `traceUndo` their rollback queries, and `repeated` the
blocks whose traces are there twice: the table has no key (`definitions/migrations/1.3.9/database.sql` drops it).

`view` (the last block processed) and `store.tip` (the same at the last commit) are history,
as are `announced` and `lost`.

### ShipReader - the connection to the node

`StateReceiver` models forks and keeps the socket simple; `ShipReader` models the socket and
keeps the chain a line of numbers. `toReader` and `toNode` are the two directions of the
WebSocket, `node` is the node's position and credit. `task` is the one task of `blocksQueue`
that runs, with the `await` it stands at; `counter` and `waiting` are `dsLock`.

| action | code |
|---|---|
| `Accept`, `NodeReceives`, `NodeSends` | the node |
| `Connect` | `connect`, at the start or five seconds after `onClose` |
| `OnAbi`, `OnBlock`, `OnIncompleteBlock`, `OnBadMessage` | the branches of `onMessage` |
| `CloseCompletes`, `ConnectionLost` | `onClose` |
| `StartTask`, `Deserialized`, `DeserializeFails`, `ConfirmBlock` | the task of a block from one `await` to the next |
| `Acquire`, `Prepare` | `consumer`: `dsLock.acquire`, preparation, `dsQueue.add` |
| `Process`, `ProcessThrows` | a task of `dsQueue`: the test for skipped blocks, `dsLock.release`, the error path |

`onClose` clears `blocksQueue` but not the task that runs. It goes on with the data of the old
connection, and its acknowledgement goes to the new one, or throws when there is none yet; the
rejection is handled nowhere and ends the process (`crashed`). `onClose` also destroys the
threads that deserialise the task's data; whether their answer still comes is the thread
pool's affair, so both outcomes are allowed (`hung`: the queue stands still until the watchdog
acts). Of the message handler's errors only the loss of the message and `ws.close()` matter;
what arrives before the socket is closed is queued.

### Processor and AtomicAssets - jobs by priority

A reader may execute the jobs of many blocks together, and it executes all jobs of a priority
before the next one: all mints, then all transfers and burns, then new offers, then answers to
offers. `Processor` is the queue. Its `queue` is a set whose members carry priority and index;
`IsNext` is the sort. Handlers extend the module, give `Listeners` to `ProcessTraces`, and
define one action per callback with `Runs`.

| action | code |
|---|---|
| `Mint`, `Give`, `Burn`, `CreateOffer`, `AcceptOffer`, `RefuseOffer` | the contract (external): its rules, and the traces it logs, which `processActionTrace` turns into jobs |
| `Start` | `executeHeadQueue` takes the queue |
| `LogMint`, `PriorityComplete` | the mint is remembered; the listener of the priority inserts the assets |
| `LogTransfer`, `LogBurnAsset` | the updates of `processors/assets.ts` |
| `Collect` | the second listener on transfers and burns, of `processors/offers.ts` |
| `LogNewOffer`, `CloseOffer` | insert and the three updates of an offer |
| `Commit` | the commit listener: open offers of moved assets become INVALID or PENDING again |

The contract admits an offer whose assets are all with their owners, and its acceptance under
the same condition. Its transitions are immediate and the handlers lag behind by up to
`MaxTraces` traces, so when nothing is left to execute the tables must equal the contract's own
state (`OwnersMatch`, `OffersMatch`), although no handler sees the order of traces of
different priorities. The validity of an offer is not a column but a query at commit time:
`OffersMatch` fails if a single move is not collected.

### Mints - numbers outside of the reversible store

An asset's mint number is its place among the assets of its template. It is not assigned by the
reader but by a stored procedure that a job calls every 30 seconds, for assets of irreversible
blocks only, since nothing takes a number back. Three processes interleave: the reader, whose
transaction is open between `ProcessBlock` and `Commit`; the call of the present filler; and the
call of a filler that died, which PostgreSQL finishes. `chain` is the branch of the node, `seen`
what the reader has processed, `applied` what is committed; the ids of assets and auctions are
counters of the contract, so that a fork gives an id again.

| action | code |
|---|---|
| `Produce`, `Fork`, `AdvanceLib` | the chain |
| `ProcessBlock` | `process` until `lastIrreversibleBlock` is set, with the rollback in the open transaction |
| `Commit` | the end of that transaction; a group of irreversible blocks may go on first |
| `CallAssetMints`, `CallAuctionMints` | a job: the list of a procedure, read in one snapshot |
| `UpdateRow` | one round of its loop; it waits for a row that the rollback has deleted, and `Commit` may end the wait |
| `Stop`, `InitialMints`, `Start` | the end of a filler, `AtomicAssetsHandler.init`, `startProcessing` |

A cursor of PL/pgSQL that meets a COMMIT reads the rest of its rows first, so the list is one
snapshot. The blocks of the model have one mint or one auction each, and `MintsAreRowNumbers`
compares with the definition the repository gives in a view
(`definitions/views/atomicassets_asset_mints_master.sql`).

### Contracts, the handlers and Handlers

`Contracts` holds what handlers have in common. `chain`, `tables` and `memory` are records, of
which each handler's module owns some fields: `chain` is what the contract's history amounts to,
`tables` the reader's transaction, `memory` what a handler keeps between blocks.

| action | code |
|---|---|
| an action of a contract, `Send` | its traces and changed rows become jobs, `headOnly` listeners only at the head |
| `Start`, `PriorityComplete`, `Commit`, `CommitEmpty` | `executeHeadQueue`, its listeners, the end of the transaction |
| the jobs of `AtomicMarket`, `AtomicTools`, `DelphiOracle`, `SimpleAssets`, `AssetTables` | the callbacks of `processors/*.ts`, one action each, named like them |
| `LogTrace` | a callback of `logs.ts`: a row of `contract_traces` |
| `Throws`, `Throw` | a callback that throws: the transaction is aborted, the reader stands still |
| `Crash`, `NewProcess` | the end of the process; `init` of the handlers loads their memory |
| `ReachHead` | the reader has caught up: one block per commit from here on |
| `ForkSwitch` | the tables of the last block are taken back, memory is not |

The jobs of a group of blocks run by priority, so a handler sees the row of a listing after all
mints and transfers of the group, and the change of a row after later traces. `TablesMatch`
compares what comes out with the contract, `ConfigMatches` the configuration, which is written by
comparing with memory. A handler that misses a row throws, and the process that follows must get
past it (`NeverStuck`). `Traffic` picks the contracts that act in a behaviour: their tables are
disjoint, and only a purchase (the oracle's pair) reads across them.

`ConfigForks` says whether a fork may take back a row that a handler remembers; the run `handlers`
says no, `config_fork` shows what happens otherwise.

### Worker and its parts

`Worker` is the life of a filler: the master upgrades the database (`UpgradeDb`), starts the worker
of a reader, and ends when the worker reports a failure; its container starts it again. The worker
runs jobs (`JobQueue`), polls lists (`ListPoller`), reads blocks (`AbiCache`) and watches itself.
These parts share nothing but that life, so `focus` picks one of them for a behaviour.

| module | actions | code |
|---|---|---|
| `UpgradeDb` | `StartUpgrade`, `Setup`, `CommitSetup`, `UpgradeDatabase`, `UpgradeHandler`, `CommitUpgrade`, `Upgraded`; `Deploy` | `upgradeDb`, one transaction for the tables of new handlers and one for each version; another release or configuration |
| `JobQueue` | `Pulse`, `JobEnds` | `pulse`, `run`; time counts pulses, `overdue` is the order of `nextRun` |
| `ListPoller` | `Poll`, `GetListId`, `ListInserted`, `SyncList`, `SyncListEnds`, `PollFails` | `poll` to `syncListWithDb`; a statement reads when it begins and writes when it ends |
| `AbiCache` | `PrepareActionTraces` ... `Consumer`, `TakeBlock` ... `CommitBlocks`, `ReadAbi`, `ReadNextAbi`, `StoreAbi` | the preparation of a block, its processing, and `fetchContractAbi` from one `await` to the next, for both at the same time |
| `Worker` | `StartWorker`, `StartFiller`, `StartFails`, `Die`, `FirstRound`, `Round`, `Failure` | `src/bin/filler.ts`, `startFiller` and its interval |

### MarketTables and SalesFilters - the table behind /v2/sales

`MarketTables` has the tables the API reads and one action for each transaction of the reader, as
it is committed; how it comes about is the subject of the handlers. The column `template_mint` of assets and listings is NULL
until the jobs that number have run (`NumberAsset`, `NumberSale`, `NumberAuction`, `NumberBuyoffer`), which they do for irreversible rows,
so that no fork takes their work back; template buyoffers are numbered by nothing. A range is the set of the mint numbers it is made of, 'empty' is `{}`. `SalesFilters` adds the
denormalised table of sales, whose range is computed from the assets when a row is refreshed. Triggers note what changed, in the
transaction of the change; the job `update_atomicmarket_sales_filters` calls one function, in which every statement sees what is
committed when it begins.

| action | code |
|---|---|
| `Triggers`, with every transaction, fork and numbering | `update_atomicmarket_sales_filters_by_asset`, `_by_offer`, `_by_sale` |
| `CollectAssets` | the loop at the start of the function: noted assets are deleted, the sales of their rows noted in `sales_to_update` |
| `RefreshSales` | its last statement and COMMIT |
| `JobFails` | a timeout, an error or the end of the server: all is rolled back |

### QueryBuilder, AssetQueries, Listings, SalesV2 - searches

Operators, no actions: a request is a record, an answer the sequence of ids on the page, a condition
the predicate under which SQL returns TRUE. `Listings` are the searches in the tables
(`buildListingFilter` to `buildTemplateBuyofferFilter`, `get...Action`, `format...`), `SalesV2` the
one in the filter table, with its larger page that is cut after the states have been computed again
(`GetSalesV2`, `StateRecheck`). `Api` asks them in every state that `SalesFilters` reaches.

`Get...` is the first query of a handler, which finds ids. The rows are read by a second one, from a view (`InView`,
`SalesShown`; for the other listings `Fails` when a row is gone), and `Format...` shows a row as it is then, with the
clock as it is then: both are parameters. The clock `now` runs in half seconds, because the code looks at it in three ways: searches take whole seconds
(`Seconds`, `Math.floor`), `formatAuction` compares exactly, and the auctions shown with an asset are those
that end after the time rounded by a cast to BIGINT (`Rounded`).

### Sockets - from the commit to the client

| action | code |
|---|---|
| `ProcessBlock`, `CommitBlock` | the handlers call `sendActionTrace`, a fork `sendFork`; the commit |
| `PublishChunk`, `Published`, `PublishFails` | `publish`: messages of `ChunkSize` notifications, to Redis and from there to `ApiNotificationReceiver`, which filters by channel and calls the listeners |
| `QueryRows`, `EmitEvents` | a listener of `routes/*.ts`: its query, and the loop over the notifications of the message |

The server awaits a listener, but the next message does not wait for it: `tasks` are the calls under
way. A client keeps the events and forgets those of the blocks a fork message takes back.

## 4. Runs

| run | instance | shows |
|---|---|---|
| `store_rows` | 2 keys, 1 column, 2 values, 3 blocks, 3 rollback queries, clean-up every 2 blocks | `TypeOK`, `RollbackNeverThrows`, `RollbackRestores`, `HavePositionsComplete`, `QueriesBelongToBlocks` |
| `reader` | groups of 2, 11 blocks of which 4 write tables and 2 log traces, 2 forks at most 3 deep, 1 stop, fairness; also `irreversible_only` | `NeverRefused`, `ParentProcessed`, `AnnouncedIsCommitted`, refinement `IndexSpec`, `DatabaseConsistent`, `ExecutedOnce`, `PositionCoversEffects`, `CatchesUp` |
| `ship_faults` | 7 blocks, 2 messages in flight, acknowledgement every 2, 1 permit, 3 faults | `BufferBounded`, `PermitsConserved`, `ProcessedInOrder`, `Progress` |
| `assets_offers` | 2 assets, 2 accounts, 2 offers, commits of up to 3 traces | `NoJobThrows`, `OwnersMatch`, `OffersMatch`, `ClosedForGood` |
| `mints_forks` | 2 templates, 3 blocks, 1 auction, batches of 2, 1 fork, 1 stop, fairness | `MintsAreRowNumbers`, `RangesAreComplete`, `AllNumbered` |
| `handlers` | eleven kinds of traffic with 2 to 5 actions each, 1 fork, 1 crash, fairness | `TablesMatch`, `ConfigMatches`, `MediansAreFresh`, `SettledForGood`, `NeverStuck` |
| `worker` | 3 versions, 2 handlers; 4 jobs, one of them stuck; 2 lists, 2 polls at a time; 3 blocks, 2 ahead; 1 death, fairness | `MigrationsOnce`, `AbiOfBlock`, `JobsRun`, `ListsFollow`, `StalledIsReplaced` |
| `api` | 5 assets, 4 sales, 2 auctions, 2 buyoffers, 2 template buyoffers; 2 or 3 transactions or numberings and a fork; 2 seconds in halves; about 100 requests; sockets: 3 blocks of up to 2 traces | `StaleIsDue`, `VersionsAgree`, `StatesAgree`, `FiltersCatchUp`, `ClientsFollow`, `EventsShowRows` |
| `reader_deep_fork` | groups of 2, forks of any reversible depth | `DatabaseConsistent` fails, see below |
| `reader_traces` | a group of 2 whose jobs only log traces, 1 stop | `TracesLoggedOnce` fails, see below |
| `mints_late` | `LateReader`: the abandoned blocks may be irreversible on the new branch | `MintsAreRowNumbers` fails, see below |
| `config_fork` | `ConfigForks`: a fork may take back a token or a pair of the market | `ConfigMatches` fails, see below |

**Bounds.** `MaxBlock`, `MaxId`, `MaxForks`, `MaxStops`, `InitHead`, `InitLib` and `ForkDepth`
bound the instances. Three blocks and three queries give two reversible blocks with queries on
the same row, a fork of either, a clean-up and an abort in between; the run has one column, and
that a rollback restores several is proved. In `reader` the chain is 11 blocks long: the irreversible part holds a group
that only logs traces (block 3), groups without jobs, a gap of more than `PositionLag` blocks (500 in the code) without a
position, and the way from groups to single blocks (within `2 * Group` of the head); the live part a clean-up (`ClearInterval` is 5 there,
12 in the code), a fork across it and a fork of the fork, which write and log again. Commits of single blocks from the start, and forks of any depth
then, are covered by the theorems. `MaxStops = 1` puts one crash at every point; after it the reader has
no memory, so a second crash meets states the first one reaches. `Prefetch` and `DsQueueSize`
of 1 still give three blocks in flight: on the socket, prepared, in process. Symmetry is used for keys and values in
the store run, which compares them for equality alone and checks no liveness.
`MaxFaults = 3` allows a connection to be lost while the task of the connection before the
last still runs; with one permit and two messages in flight a task waits for `dsLock` while
messages wait behind it, and `BufferBounded`'s limit is reached.

`MaxTraces = 3` bounds one commit, not the number of commits: it holds an accepted exchange with
its two transfers, or an offer made, refused and its asset moved. The run uses symmetry in assets,
accounts and offers, which are compared for equality alone, and checks no liveness.

In `Mints` three blocks hold two assets and an auction of both, or three assets, one or more of them
on an abandoned branch; `BatchSize` (50000 in the code)
is smaller than what may be missing, so that batches continue each other. `LateReader = FALSE` leaves out what `mints_late` shows.

In `handlers` the bound of each kind of traffic is the length of its longest interesting history:
a sale with a median needs the configuration, the pair, the listing, its start and the purchase.
All of them may be in one commit or in as many as there are actions, with the fork, the crash and
the restart after a throw between any two. One listing is enough, since rows of different listings
are independent; two accounts and two assets make a transfer or a claim of several. The oracle's
`UpdateInterval` is 30 blocks in the code.

In `worker` three versions and the death of the master give an upgrade that is cut off between and
inside of versions, and continued by a later release; the directory that sorts as text before a lower
version (1.2.14, 1.2.2) is among them. Two polls at a time are enough to write an older answer last; three
blocks, two of them prepared, for an ABI that changes under the preparation and again.

In `api` a fork, the steps of the job and the numbering of assets and listings (counted by `MaxChanges` like transactions) may come
between two transactions: asset 2 has no number at the start (`LateNumbers`), nor have the listings it is in a range. With four sales,
two of them of the same template, there are ties, pages that end inside of them, and a sale of
several assets. `SaleRequests` are the requests that are meant to have the same answer in both
versions; `TheOtherRequests` name each parameter of the other listings. A sale is listed before its range is known: /v1 then leaves it
out when mint numbers are asked for, while /v2 takes what is known of its assets, so for these requests `VersionsAgree` compares the page of /v1 with the
sales of the page of /v2 whose range is known (`Ranged`). `StatesAgree` compares a search with rows read at the same moment (`SaleStatesAgree` and its like), and with
rows read after one more transaction, at any later time (`Following`, on `before` and `db`): what follows over one transaction follows over several,
as the states it speaks of are reached once. An auction may be missing from the assets it is shown with in its last half
second, and in no other case (`AssetsAgree`). In `Sockets`
`ChunkSize = 2` (50 in the code) splits the message of a fork and its block, ids are counted over
abandoned blocks, forks go back any number of blocks, and `PublishFails` comes at any point; one
listener is enough, as listeners do not know of each other. Publishing a message and receiving it
is one step: Redis keeps the order of a channel.

**Deadlock** is not checked: bounded chains end, and a reader that has processed everything
waits; in `AtomicAssets` all assets may be burned and all offers
closed, in `Mints` everything is numbered; the traffic of `Handlers` and the transactions of `Api`
are bounded; and a worker that died under a living master stays dead.

**Fairness** (`FairSpec`). `WF(Send)`: the node sends what it has. `WF(Reader)`: the event
loop runs queued tasks and awaited queries return. `WF(Start)`: the watchdog of a worker
that handles no blocks sends `failure` (`filler.ts:150-159`), the master exits
(`src/bin/filler.ts:66-70`), and the supervisor starts both again (`restart: on-failure` in
`docker-compose.yml`). `SF(Consume)`:
the connection is not lost again and again before one block is taken over; a weaker assumption
admits a connection that never carries a block. `PublishFails`, `Stop`, `Reconnect`, `Fork`,
`Produce` have no fairness. `CatchesUp` speaks of chains that have stopped changing; the
bounds make every chain one. In `ShipReader` node, socket, task and queue are weakly fair, faults
are not, and `Progress` names the ways the reader can stop that only a new process repairs. In
`Mints`, `SF(CallAssetMints)`: the jobs of a priority run one at a time, the one that is due
longest first (`jobqueue.ts:52-55`), so none is passed over for good; the reader, PostgreSQL and a
new filler are weakly fair. In `Handlers` the handlers are (jobs are awaited one after the other)
and the new process is, for the reason given for `Start`. In `Worker` timers, queries, fetches and
jobs that are not stuck end, the watchdog's interval fires, and the container starts a master that
ended (`restart: on-failure` in `docker-compose.yml`). In `SalesFilters`,
`WF(CollectAssets)`: the job runs every 20 seconds; `SF(RefreshSales)`: it does not time out every
time. Transactions, forks, faults and deaths have no fairness.

**reader_deep_fork.** The first reversible block n may arrive while irreversible blocks are
collected for a group. `process` then takes a new transaction whose `currentBlock` is n
(`receiver.ts:198`) and executes all collected jobs in it, so that the rollback queries of the
irreversible blocks are recorded under n. A fork that replaces n takes their effects back, and
the node sends only n and later blocks again. The README promises "Per block transactions
guarantee that the database is consistent at any time" (`README.md:17`). It takes a fork
that replaces every reversible block, with the irreversible block just below within
`2 * db_group_blocks` blocks of the head only after the response was sent; `reader`
bounds forks by `ForkDepth = 3` so that this case is left out, and shows that everything else
about groups is right.

**reader_traces.** `logTrace` writes no row (`database.ts:643-653`), so a group of catch-up blocks whose jobs only log has not
begun its transaction when `process` decides about the position (`receiver.ts:253-258`), and `commit` then inserts
the traces (`database.ts:655-662`) and commits them without one. Such a group is made, for instance, by `lognewbuyo` actions that are
ignored because of their authorization (`buyoffers.ts:20-24` of the handlers) but logged all the same (`logs.ts:99-107`). A process that starts
again before a later commit has written a position executes the group a second time, and since migration
1.3.9 has dropped the primary key of `contract_traces` ("losing uniqueness"), its traces are in the table twice, against the sentence of
`README.md:17`. (On a database whose key is still there the insert would throw, in every new process.) `reader` has such a group, too: it shows that nothing but
traces is ever repeated, and those only within `PositionLag` blocks of a reader that has not been live
(`ExecutedOnce`, `PositionCoversEffects`); that if the reader goes on, the position catches up with them (`CatchesUp`).

**mints_late.** `process` sets `lastIrreversibleBlock` before its transaction commits
(`receiver.ts:246`). If the block after a fork is irreversible already, which takes a reader that
was stopped or cut off meanwhile, a procedure called in between still sees the assets of the
abandoned branch, and they count as irreversible. Their numbers are written to whatever assets
have their ids on the new branch. The window is short, between two statements of one block, but
nothing corrects the numbers afterwards.

**config_fork.** The handler of the market's configuration compares a changed row with
`core.config`, which is memory (`handlers/atomicmarket/processors/config.ts:38-91`). A fork takes back
the rows of `atomicmarket_tokens` and `atomicmarket_symbol_pairs`, and the one of the configuration, but
not `core.config`. If the token is added again on the new branch, the lists have the same length and
the row is not inserted, until the process is started again and the list grows once more; if it is not, the next
change throws "Should not be possible", and the new process that follows gets past it. The sentence
of `README.md:17` quoted above does not hold then. `handlers` leaves such forks out and shows that
everything else about the memory of handlers is right. With `ConfigForks = TRUE`, a fork that takes back
the first row of an oracle pair lets the same median throw in every process, since the row is
looked for outside of the transaction that has rolled it back (`handlers/delphioracle/index.ts:139-160`).

### Observations

Met while the code was translated; the models follow the code in each of them, and none is a property of a run.

*Searches.* `notMany` with one value ignores its `includeNull`. `template_blacklist` asks in /v1 for some asset
that is not of the templates, in /v2 for none that is; `burned=true` for some burned asset in /v1, for all in
/v2. `buyer_blacklist` drops listings without buyer in /v1 (a TODO in `utils.ts`), not in /v2.
`collection_name` overrides the black- and whitelist in /v1; /v2 applies all of them. A sale without any
template is neither transferable nor burnable in /v2, and both in /v1. /v2 knows neither canceled sales nor those that wait.
`data.*` searches the template in /v1, the merged data in /v2. `template_id=null` together with ids ignores the ids
in /v2. The state 4 of a buyoffer on a burned asset: `utils.ts` compares with NULL and finds the
buyoffer as PENDING, `format.ts` shows it as INVALID (`OwnedByOther`). Open template buyoffers never match a
condition on an asset. `sort=ending` is allowed for buyoffers and template buyoffers, but missing in their
`sortMapping`, which is an error 500. A page of /v2 may be short when more than a quarter of the rows before it are stale.
Auctions and buyoffers throw when a row vanishes between the two queries of a page; sales drop it.
If a transaction comes between them, a listing is shown in a state it was not searched for (`Following` in `Api.tla`).
/v1 finds sales by the range of mints in the row of the sale, which is NULL until the procedure has numbered it, /v2 by the
range of the refresh, which may be some seconds late, too. No procedure ever numbers a template buyoffer, so
a search of them by template mint finds none. An asset does not name an auction
in the last half second before its end, since the cast to BIGINT rounds.

*Sockets.* The handlers send `buyoffer` and `template_buyoffer`; the listeners are called
`buyoffers` and `template_buyoffers`, so `new_buyoffer` is never emitted, and `templateBuyofferSockets` is
never called. The sockets of transfers use the path `/v1/offers`. A message that is answered after
a later one leaves the events of an abandoned branch with the clients, or takes those of the new one away: this is the
precondition `overtaken` of `ClientsFollow`. If Redis fails, the messages that are left are lost for good (`lost`). A bid on an auction
that a fork has taken back throws, and the rest of its message is not emitted.

*Filler.* Two `setabi` of one block keep only the first in `contract_abis`, and neither the table
nor the cache forgets the ABI of an abandoned block. With `Removable = TRUE` `UpgradeDb` shows that
a handler that is removed from the configuration and added again later misses migrations. `deleteDB` runs after `init`, and
removes rows `init` has inserted. The procedure that numbers template buyoffers is created and never called.
A worker whose `init` throws is not replaced. When a filler dies, its CALL may go on in PostgreSQL. `Mints` models this; `SalesFilters`
need not, since the next CALL waits for the rows the first has deleted: one that goes on is one that has not failed.

## 5. Proofs

`ContractDBProofs` proves for all keys, columns, values, bounds and clear intervals:

| theorem | statement |
|---|---|
| `Invariance` | `Spec => []Inv` |
| `TypeCorrect` | `Spec => []TypeOK` |
| `RollbackNeverThrowsTheorem` | `Spec => []RollbackNeverThrows` |
| `RollbackRestoresTheorem` | `Spec => []RollbackRestores` |
| `HavePositionsCompleteTheorem` | `Spec => []HavePositionsComplete` |
| `QueriesBelongToBlocksTheorem` | `Spec => []QueriesBelongToBlocks` |

They assume only the three named assumptions on constants of `ContractDB`. None of the
properties is inductive: what a query restores depends on the queries behind it. The invariant
therefore says that the recorded queries form a chain. Ordered as the rollback executes them,
each query is executable in, and brings back the `before` of, the table in which the next newer one
was recorded; the newest starts from the present table, and the oldest of a block ends in the
block's `image`. The same holds for the committed database `saved`, so that `Abort` keeps it.
A statement adds one link (the lemmas show it for insert, update, delete and replace), a rollback
takes links off the new end, a clean-up cuts the old end.

`ShipReaderProofs` proves for every configuration, chain and number of faults:

| theorem | statement |
|---|---|
| `Invariance` | `Spec => []Inv` |
| `TypeCorrect` | `Spec => []TypeOK` |
| `PermitsConservedTheorem` | `Spec => []PermitsConserved` |
| `ProcessedInOrderTheorem` | `Spec => ProcessedInOrder` |
| `CreditIsBounded` | `Spec => []CreditInv` |
| `BufferBoundedTheorem` | `Spec => []BufferBounded` |

It assumes `ConfigAssumption` (the acknowledgement comes within the messages in flight) and
`BoundAssumption`. `ProcessedInOrder` needs an order over the whole pipeline: `currentBlock`, the
blocks of `dsQueue`, the task, `blocksQueue`, `toReader` and the node's position increase, with
`startBlockNum` between the task and `blocksQueue` (`BehindTask`, `AheadOfTask`). A new request
keeps it only if nothing of an older request is under way, which `Handshake` says: as long as
the ABI or the request is on its way, the node sends nothing and all queues are empty.
`BufferBounded` counts the blocks in memory; what bounds them is what the node may still send. `CreditInv` says
that there is a way to read the messages to the node one after the other, a request as the start of a credit and an
acknowledgement as a gift to it, such that the final credit, the blocks that are not acknowledged and all
blocks on their way are never more than `max_messages_in_flight` and one.

`ApiProofs` proves, for any sales, assets, accounts, templates, listeners, traces, size of messages and bounds:

| theorem | statement |
|---|---|
| `Invariance` | `Spec => []Inv` |
| `StaleIsDueTheorem`, `StaleIsDueInApi` | `Spec => []StaleIsDue`, `ApiSpec => []StaleIsDue` |
| `SocketsInvariance` | `ApiSpec => []SocketsInv` |
| `ClientsFollowTheorem` | `ApiSpec => []ClientsFollow` |
| `EventsShowRowsTheorem` | `ApiSpec => []EventsShowRows` |

It assumes `MarketAssumption` (assets of sales are assets; NULL and the missing row are no
accounts), `OfferAssumption` and `SocketsAssumption` (a message has at least one notification). `StaleIsDue` is not inductive. A stale sale may be due only because a job
that runs has noted it, and when that job fails it must be due again: `JobKeeps` says that every sale the job
has noted has a row and an asset among the deleted ones, which the failure brings back. And a sale
without rows must not get some from an offer alone, whose trigger finds no row to
refresh: `Tables` says that a sale that names an offer has one, of the present tables and of those a
fork brings back. `ChangesAreDue` is the heart: what a trigger does not note does not change the rows. The procedures that
number assets and sales change rows, too, without the reader (`NumberingTables`).

What a client of a socket keeps is right only together with what is on its way to it. `ForksInv` says that an event it keeps is of a
block on the branch exactly while no fork that takes this block back is among the calls under way or the notifications to be sent, and
that a notice of a message is so exactly while no later message has such a fork. `Complete` says that each trace of the branch with an event is with the
client or on its way. They hold for the listeners that answer in order while nothing is lost; for all of them `Genuine` says that a block once
taken back never returns, so that a row read late still shows the action of every event whose block is on the branch
(`EventsShowRows`). A fork is always the first notice of its block, and of a message (`ReaderInv`, `TaskInv`), which is why
the events behind a bid that throws are none of the branch. `HeardIs` says what the loop of a listener makes of a message.

`StateReceiverProofs` proves for any chain, forks, lost connections, stops and configuration:

| theorem | statement |
|---|---|
| `PathSafe` | `Spec => []PathInv` |
| `BlocksAreAccepted` | `Spec => []NeverRefused` |
| `BlocksExtendTheView` | `Spec => []ParentProcessed` |

It assumes `ConfigAssumption` and `ChainAssumption`: the block before `start_block` is irreversible when the reader
starts. That the reader accepts a block depends on all that is under way to it: `Continues` relates
each block of `dsQueue`, of the socket and the next one of the node to the one before it, as its child
or as the replacement of an abandoned part. `Settled` says which blocks nobody behind a message
will replace, as far as its `head` and `lib` tell: the reader drops its undo information by them. `Resumes`
says the same of the `have_positions` of a request and of the database a later process starts from.

The same module goes on, with the hypothesis `ShallowForks`, to the tables:

| theorem | statement |
|---|---|
| `TablesSafe` | `Spec => [](PathInv /\ TablesInv)` |
| `DatabaseIsConsistent` | `Spec => []DatabaseConsistent` |
| `EffectsAreAppliedOnce` | no block is executed on tables that have its effects, or twice in a transaction |
| `PositionIsAboveEffects` | no effect on a table is committed above the position |
| `AnnouncedBlocksAreCommitted` | `Spec => []AnnouncedIsCommitted` |
| `ReaderImplementsIndex` | `Spec => IndexSpec` |
| `TracesSafe` | `TracesWithRows`, `Spec => [](PathInv /\ TablesInv /\ TraceInv)` |
| `TracesAreLoggedOnce` | `TracesWithRows`, `Spec => []TracesLoggedOnce` |
| `BlocksAreExecutedOnce` | `TracesWithRows`, `ExecutedOnce`, and no trace is inserted that the tables have |
| `PositionIsAbove` | `TracesWithRows`, `PositionCoversEffects`, and no trace is committed above the position |

`ShallowForks` (`Group = 1 \/ ForkDepth < 2 * Group`) says that forks do not reach the blocks the reader
groups. It cannot be left out: the run `reader_deep_fork` finds the counterexample when forks may be as deep as
`2 * Group`. `DatabaseConsistent` speaks of committed states; `TablesInv` says for each point of
`process` how the tables, the jobs that wait and the open transaction make up the image of the branch
in process: together, without overlap (`IdleInv`, `OpenInv`). An effect has a rollback query under its own block,
or no fork will reach it (`Undoable`); this fails for blocks that are executed with a later one, which is why groups
must be irreversible (`GroupInv`, `JobsInv`). The traces of actions are inserted by `commit`, after the reader has decided
whether it writes a position. `EffectsAreAppliedOnce` and `PositionIsAboveEffects` hold whatever is logged, since a job that writes a table begins the
transaction before this decision. `TracesWithRows` (`LogBlocks \subseteq JobBlocks`) says that a block that logs also
writes a table; then traces follow the effects (`TraceInv`). It cannot be left out either: the run `reader_traces` refutes `TracesLoggedOnce`
without it. What `ExecutedOnce` and `PositionCoversEffects` say of traces without it, that they are repeated
only while catching up and by at most `PositionLag` blocks, is left to TLC (`reader`). For the refinement every step of the reader maps to a step of `ChainIndex`
or to a stutter: only commits change the committed tables.

`WorkerProofs` proves for any blocks with new ABIs, any distance of the preparation, any versions, releases and handlers:

| theorem | statement |
|---|---|
| `AbisAreCurrent` | `Spec => []AbiInv` |
| `AbiOfBlockTheorem` | `Spec => []AbiOfBlock` |
| `MigrationsOnceTheorem` | `~ Removable => (Spec => []MigrationsOnce)` |

`AbiOfBlock` says what a block was decoded with. `AbiInv` has a part for each place an ABI may come
from: the table holds the ABIs up to the processed block (`DatabaseInv`), the cache is at least as new
(`CacheInv`), a prepared block knows what it was prepared with (`PreparedInv`), and an answer of the
database that is late is as new as the block in process or the cache was filled since
(`PrepareFetchInv`, `ProcessFetchInv`). The invariant of `upgradeDb` (`DbInv`) says what the open transaction and the list of versions, taken before
the first of them, have to do with the committed tables: the transaction has the next script for the handlers
that are through, and the list is what the committed version leaves. It assumes `UpgradeDbAssumption`: the directories
are versions of three numbers, later than the 1.0.0 of a new database. The lemmas show that `compareVersionString`
is a total order and what the lists it makes look like (`SortedFacts`, `SortedAppend`, `SortedTail`), and that a
later release does not change what was past (`NewRelease`). Section 4 says why handlers may not be removed.

`AtomicAssetsProofs` proves for any assets, accounts, offers and number of traces:

| theorem | statement |
|---|---|
| `Invariance` | `Spec => []Inv` |
| `JobsNeverThrow` | `Spec => []NoJobThrows` |
| `OwnersAreThoseOfTheChain` | `Spec => []OwnersMatch` |
| `OffersAreThoseOfTheChain` | `Spec => []OffersMatch` |
| `ClosedOffersStay` | `Spec => ClosedForGood` |

It assumes `AccountAssumption` (a missing or burned owner is not an account) and `BoundAssumption`. The properties hold when nothing
is left to execute; in between, the tables differ from the chain by the jobs that wait. The invariant says that the pending moves of an asset
are a chain: each leads from the owner the one before has made, the first from the owner in the row, the last
to the holder on the chain, and a mint can only be the first (`Chained`). Sorting by priority keeps
the chain, because the jobs on one asset that change its owner twice have the same priority or begin with the mint. An offer
whose state is not the contract's has a pending job, or one of its assets is among those the end of the
transaction looks at.

`MintsProofs` proves for any chain, forks, stops, templates and batch size:

| theorem | statement |
|---|---|
| `Invariance` | `~ LateReader => (Spec => []Inv)` |
| `MintsAreRowNumbersTheorem` | `~ LateReader => (Spec => []MintsAreRowNumbers)` |
| `RangesAreCompleteTheorem` | `~ LateReader => (Spec => []RangesAreComplete)` |

The hypothesis says that the reader leaves an abandoned branch before blocks of the new one at the same height are irreversible;
the run `mints_late` shows that it is needed. It assumes `ConfigAssumption` (template ids are numbers and NULL is
none) and `BoundAssumption`. `LibInv` and `TxInv` say that chain, reader and tables are the same up to the irreversible block, though the
procedures read `lastIrreversibleBlock` from a transaction that is not committed. `Numbered` says that the numbered rows are the first of
their templates. It is kept by a write because `Due` says of every list a procedure has made, one
whose filler has died included, that each row in it gets its row number, and that the rows before it have theirs or come earlier in the list.

`HandlersProofs` proves for any ids, assets, accounts and finite set of pairs, any traffic, number of actions, forks and stops:

| theorem | statement |
|---|---|
| `Invariance` | `Spec => []Inv` |
| `TablesMatchHolds` | `Spec => []TablesMatch` |
| `ConfigMatchesHolds` | `~ ConfigForks`, `Spec => []ConfigMatches` |
| `SettledForGoodHolds` | `Spec => SettledForGood` |
| `MedianInvariance` | `Spec => []MedianInv` |
| `MediansAreFreshHolds` | `Spec => []MediansAreFresh` |

The invariants are in `HandlersInvariant`; `tlapm` needs about a quarter of an hour for the proofs. They assume `HandlersAssumption`: the bounds are numbers and the oracle has finitely many pairs. `TablesMatch` speaks of the
moments when nothing is left to execute; the invariant says at each moment what the tables will be. `Follows` takes one row and the jobs of
the queue about it: in the order of their traces they lead, each fitting the row that the one before has made (`Fits`, `Made`), from what
the tables have (`Cell`) to what the contracts ask for (`Due`), and their priorities do not fall from one to the next, so
that sorting the queue by priority does not change their order. `Rests` says so of all kinds of rows, of stored transfers and of logs, and
holds (`RestsInv`) of the jobs that wait, of the jobs of the open transaction with the rows the handlers have collected, and, with no
jobs at all, of what is committed and what a fork returns to. An action of a contract appends a job to a
path (`PathLast`), a job that runs takes the first away (`PathFirst`), and no job waits behind one of a lower index and the same
priority. The row of an auction counts as two: `end_time` is written by the contract's table, by jobs of another priority than those of its actions.
`CollectedInv` says that rows are only collected in the priority whose end inserts them, and each asset once. `MemoryInv` says that what the handlers remember of the
configuration is what is in the tables; a fork breaks it if it takes configuration back, so `ConfigMatches` has the hypothesis
`~ ConfigForks`, without which the run `config_fork` refutes it. For `SettledForGood` a job on a settled row would have to fit it, and none does.
`MedianInv` speaks of the time before the first fork: either a job with the last median of a pair waits, or none with any and the row of the pair is at most
`UpdateInterval` blocks older (`Fresh`); and `lastUpdated`, by which the handler skips medians, is never newer than the row.

Left to TLC, and why:

- Liveness (`CatchesUp`, `Progress`, `AllNumbered`, `NeverStuck`, `JobsRun`, `ListsFollow`,
  `StalledIsReplaced`, `FiltersCatchUp`), since the prover knows neither fairness nor ENABLED.
- The traces of blocks that write no table, in `ExecutedOnce` and `PositionCoversEffects`: the proofs assume `TracesWithRows`.
- `VersionsAgree` and `StatesAgree` of `Api`: they compare two translations of a search over tables, and hold for the
  requests listed in `SaleRequests`, not for all (section 4). The searches sort and page with `SortSeq` and `SelectSeq`, which the
  prover cannot expand.

Type correctness is a part of each invariant; of `ContractDB` and `ShipReader` it is a theorem of its own.

## 6. Not modelled

- Pure I/O and conversions: OpenAPI documents, metrics, command line tools, connection wrappers,
  encodings, the deserialisation in a thread.
- API endpoints that are one read-only statement: statistics (`handlers/stats.ts`), prices, collections,
  schemas, templates, accounts, links, configuration, counts and logs. They have no state, and their
  SQL would have to be copied to be modelled.
- The rate limiter, which is a library over Redis, and the response cache of `server.ts`: answers at most
  `cache_life` old; two misses at the same time both answer and both store.
- Prices of variable sales and the job that refreshes them; the trigger on
  `contract_codes`.
- Within the modelled components: the AwaitLock of a transaction, JSON serialisation of rollback
  values, several readers sharing a database, `stop_block`, `stopProcessing` and `stopFiller` (which nothing
  calls), `deleteDB`, the `irreversible_queue`, forks in `AbiCache`, rooms of sockets.
- `modules.ts`: filters an operator supplies; the repository has none.
