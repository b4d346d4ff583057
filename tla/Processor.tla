------------------------------ MODULE Processor ------------------------------
(***************************************************************************)
(* The queue of jobs of a block or a group of blocks: liveQueue and        *)
(* executeHeadQueue of class DataProcessor (processor.ts).                 *)
(*                                                                         *)
(* processActionTrace and processContractRow add a job for each listener   *)
(* of a trace or row.  executeHeadQueue runs the jobs of all blocks since  *)
(* the last commit by priority and, within a priority, in the order they   *)
(* were added.  Handlers are modules that extend this one: they give       *)
(* Listeners a value in ProcessTraces and an action to each callback.      *)
(*                                                                         *)
(* The queue is a set: a job is found by its priority and index, never by  *)
(* its place.  The listeners of one trace have different priorities, so    *)
(* the index of the trace is enough.                                       *)
(***************************************************************************)
EXTENDS Integers, FiniteSets

VARIABLES
  liveQueue,    \* jobs of the blocks collected since the last commit
  traces,       \* number of traces in liveQueue
  executing,    \* executeHeadQueue runs
  queue,        \* the jobs it still has to run
  lastPriority  \* priority of the job it ran last, or None

processorVars == <<liveQueue, traces, executing, queue, lastPriority>>

None == -1

Job(listener, trace, index) ==
  [callback |-> listener.callback, priority |-> listener.priority,
   trace |-> trace, index |-> index]

(* processActionTrace, processContractRow for the traces ts.  process      *)
(* handles one block at a time and awaits executeHeadQueue.                *)
ProcessTraces(ts, listeners) ==
  /\ ~ executing
  /\ liveQueue' = liveQueue \cup
       UNION {{Job(l, ts[i], traces + i) : l \in {l \in listeners : l.action = ts[i].action}} :
              i \in DOMAIN ts}
  /\ traces' = traces + Cardinality(DOMAIN ts)
  /\ UNCHANGED <<executing, queue, lastPriority>>

(* Mutant of Before: the index is ignored. *)
BeforeByPriority(j, k) == j.priority < k.priority

(* The order of executeHeadQueue. *)
Before(j, k) ==
  \/ j.priority < k.priority
  \/ j.priority = k.priority /\ j.index < k.index

IsNext(j) == j \in queue /\ \A k \in queue : ~ Before(k, j)

ExecuteHeadQueue ==
  /\ ~ executing /\ liveQueue # {}
  /\ executing' = TRUE
  /\ queue' = liveQueue
  /\ liveQueue' = {} /\ traces' = 0
  /\ lastPriority' = None

(* The priority the last jobs had is complete: its listeners come first. *)
PriorityDone ==
  /\ executing /\ lastPriority # None
  /\ \A j \in queue : j.priority # lastPriority

(* Listeners of a completed priority. *)
CompletePriority ==
  /\ PriorityDone
  /\ lastPriority' = None
  /\ UNCHANGED <<liveQueue, traces, executing, queue>>

(* The next job is a call of this callback. *)
Runs(j, callback) ==
  /\ executing /\ j.callback = callback
  /\ ~ PriorityDone /\ IsNext(j)
  /\ queue' = queue \ {j}
  /\ lastPriority' = j.priority
  /\ UNCHANGED <<liveQueue, traces, executing>>

(* All jobs have run and all priorities are complete: the listeners of a   *)
(* commit, and the commit.                                                 *)
FinishQueue ==
  /\ executing /\ queue = {} /\ ~ PriorityDone
  /\ executing' = FALSE /\ lastPriority' = None
  /\ UNCHANGED <<liveQueue, traces, queue>>
=============================================================================
