----------------------------- MODULE Contracts -----------------------------
(***************************************************************************)
(* What the handlers of the contracts have in common: the traces and rows  *)
(* of a contract become jobs of the Processor, a throw stops the reader,   *)
(* a new process loads the handlers' memory from the committed tables, and *)
(* a fork takes back the tables of the last block, but no memory.          *)
(*                                                                         *)
(* chain, tables and memory are records: each module that extends this one *)
(* owns some of their fields.  That rollback queries bring back the tables *)
(* and that a restarted reader goes on with the right block is shown by    *)
(* ContractDB and StateReceiver; here both are single steps.               *)
(***************************************************************************)
EXTENDS Processor, Sequences

CONSTANTS
  Ids,      \* of sales, auctions, links, templates and so on
  Assets,   \* of simpleassets: 1, 2 and so on
  Accounts,
  Pairs,    \* of the oracle
  MaxForks, \* bound: forks
  MaxStops  \* bound: crashes

VARIABLES
  chain,      \* the contracts, as of the last block received
  tables,     \* the tables, as the reader's transaction sees them
  memory,     \* memory of the handlers
  committed,  \* chain and tables of the last commit
  previous,   \* those of the commit before it
  rolledBack, \* the open transaction began with a rollback to previous
  started,    \* jobs of the commit in work
  head,       \* ProcessingState.HEAD: one block per commit
  running,
  sent, forks, stops

historyVars == <<committed, previous>>
readerVars  == <<rolledBack, started, head, running>>
boundVars   == <<sent, forks, stops>>
contractVars == <<processorVars, chain, tables, memory, historyVars, readerVars, boundVars>>

NoRow == [state |-> "no row"]

(* The record or table f with the columns or rows of g. *)
With(f, g) == [x \in DOMAIN f \cup DOMAIN g |-> IF x \in DOMAIN g THEN g[x] ELSE f[x]]

On(action, callback, priority) ==
  [action |-> action, callback |-> callback, priority |-> priority, headOnly |-> FALSE]
OnHead(action, callback, priority) ==
  [action |-> action, callback |-> callback, priority |-> priority, headOnly |-> TRUE]

(* Several actions with callbacks of their own name. *)
OnEach(actions, priority) == {On(a, a, priority) : a \in actions}

(* A callback of logs.ts for each of the actions. *)
Logs(actions, priority) == {On(a, "log", priority) : a \in actions}

(* getActiveListeners *)
Active(listeners) == {l \in listeners : head \/ ~ l.headOnly}

(* Those of the traces ts that are to be logged. *)
Logged(ts, listeners) ==
  {i \in DOMAIN ts : \E l \in listeners : l.action = ts[i].action /\ l.callback = "log"}

(* An action of a contract changes it to newChain; its traces and changed  *)
(* rows reach the reader, or wait until it runs again.                     *)
Send(newChain, ts, listeners) ==
  /\ sent' = sent + 1
  /\ chain' = [newChain EXCEPT !.logs = @ + Cardinality(Logged(ts, listeners))]
  /\ ProcessTraces(ts, Active(listeners))
  /\ UNCHANGED <<tables, memory, historyVars, readerVars, forks, stops>>

(* What a job leaves alone. *)
JobFrame == UNCHANGED <<chain, historyVars, readerVars, boundVars>>

-----------------------------------------------------------------------------

(* process has collected enough blocks. *)
Start ==
  /\ running /\ ExecuteHeadQueue
  /\ started' = [jobs |-> liveQueue, traces |-> traces]
  /\ UNCHANGED <<chain, tables, memory, historyVars, rolledBack, head, running, boundVars>>

(* Jobs of a log processor: a row of contract_traces at the commit. *)
LogTrace(j) ==
  /\ Runs(j, "log")
  /\ tables' = [tables EXCEPT !.logs = @ + 1]
  /\ UNCHANGED memory /\ JobFrame

(* The end of a transaction; a fork can take back the last one only. *)
Committed ==
  /\ committed' = [chain |-> chain, tables |-> tables]
  /\ previous' = IF rolledBack THEN previous ELSE committed
  /\ rolledBack' = FALSE
  /\ UNCHANGED <<chain, tables, memory, started, head, running, boundVars>>

Commit == FinishQueue /\ Committed

(* Blocks without jobs. *)
CommitEmpty ==
  /\ running /\ ~ executing /\ liveQueue = {}
  /\ rolledBack \/ chain # committed.chain
  /\ Committed
  /\ UNCHANGED processorVars

(* The reader catches up with the head of the chain.  Blocks committed     *)
(* before are irreversible.                                                *)
ReachHead ==
  /\ running /\ ~ head /\ ~ executing /\ liveQueue = {}
  /\ head' = TRUE
  /\ previous' = committed
  /\ UNCHANGED <<processorVars, chain, tables, memory, committed, rolledBack, started,
                 running, boundVars>>

(* The first block of another branch: the last block is rolled back. *)
Fork ==
  /\ running /\ head /\ forks < MaxForks
  /\ ~ executing /\ liveQueue = {} /\ ~ rolledBack /\ previous # committed
  /\ forks' = forks + 1
  /\ chain' = previous.chain /\ tables' = previous.tables
  /\ rolledBack' = TRUE
  /\ UNCHANGED <<processorVars, memory, historyVars, started, head, running, sent, stops>>

(* The transaction is aborted and dsQueue paused, until the watchdog ends  *)
(* the process.  Its blocks will be processed again, a fork included.      *)
Stopped ==
  /\ running' = FALSE
  /\ tables' = IF rolledBack THEN previous.tables ELSE committed.tables
  /\ UNCHANGED <<chain, memory, historyVars, rolledBack, started, head, sent, forks>>

(* The job throws. *)
Throw(j) ==
  /\ executing /\ ~ PriorityDone /\ IsNext(j)
  /\ executing' = FALSE /\ queue' = {} /\ lastPriority' = None
  /\ liveQueue' = started.jobs /\ traces' = started.traces
  /\ Stopped /\ UNCHANGED stops

(* The process dies; in the middle of a transaction it leaves no more than *)
(* here, before the transaction begins.                                    *)
Crash ==
  /\ running /\ ~ executing /\ stops < MaxStops
  /\ stops' = stops + 1
  /\ Stopped /\ UNCHANGED processorVars

(* A new process; load is what init of the handlers leaves in memory, and  *)
(* filled[t] are the tables t with the rows init inserts, for good.        *)
Restart(load, filled) ==
  /\ ~ running
  /\ running' = TRUE
  /\ memory' = load
  /\ tables' = filled[tables]
  /\ committed' = [committed EXCEPT !.tables = filled[@]]
  /\ previous' = [previous EXCEPT !.tables = filled[@]]
  /\ UNCHANGED <<processorVars, chain, rolledBack, started, head, boundVars>>

InitReader ==
  /\ liveQueue = {} /\ traces = 0 /\ executing = FALSE /\ queue = {} /\ lastPriority = None
  /\ committed = [chain |-> chain, tables |-> tables] /\ previous = committed
  /\ rolledBack = FALSE /\ started = [jobs |-> {}, traces |-> 0]
  /\ head \in BOOLEAN /\ running = TRUE
  /\ sent = 0 /\ forks = 0 /\ stops = 0

(* With nothing left to execute the tables show the contracts. *)
UpToDate == ~ executing /\ liveQueue = {}
=============================================================================
