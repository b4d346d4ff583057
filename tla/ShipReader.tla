----------------------------- MODULE ShipReader -----------------------------
(***************************************************************************)
(* The connection to the state history node: class StateHistoryBlockReader *)
(* of src/connections/ship.ts with the class Semaphore its consumer waits  *)
(* on and the test for skipped blocks of the queue behind it.              *)
(*                                                                         *)
(* StateReceiver models the forks and keeps the socket simple; here the    *)
(* chain is a line of block numbers, and the socket has its handshake, its *)
(* acknowledgements and its failures.  The node is external.  It answers a *)
(* connection with its ABI, sends a block for each credit it has, and gets *)
(* credit from requests and acknowledgements.                              *)
(***************************************************************************)
EXTENDS Integers, Sequences, FiniteSets

CONSTANTS
  StartBlock,  \* start_block_num of the first request
  Prefetch,    \* max_messages_in_flight
  Confirm,     \* min_block_confirmation
  DsQueueSize, \* max of dsLock
  MaxBlock,    \* bound: last block of the chain
  MaxFaults    \* bound: lost connections and bad messages

(* The code does not check that the confirmation of a block comes within   *)
(* the blocks in flight; with a larger Confirm node and reader wait for    *)
(* each other.                                                             *)
ASSUME ConfigAssumption ==
  /\ StartBlock \in Nat \ {0} /\ DsQueueSize \in Nat \ {0}
  /\ Confirm \in Nat \ {0} /\ Prefetch \in Nat /\ Confirm <= Prefetch

ASSUME BoundAssumption == MaxBlock \in Nat /\ StartBlock <= MaxBlock /\ MaxFaults \in Nat

VARIABLES
  \* --- the socket and the node
  ws,          \* this.ws: none, or the state of the socket
  toReader,    \* messages on the way to the reader
  toNode,      \* messages on the way to the node
  node,        \* the node's request: next block to send and credit
  \* --- StateHistoryBlockReader
  types,       \* this.abi and this.types are known
  timer,       \* a call of connect is scheduled
  startBlockNum, \* currentArgs.start_block_num
  blocksQueue, \* tasks that wait in blocksQueue
  paused,      \* blocksQueue is paused
  task,        \* the task that runs: a block and where its function stands
  unconfirmed,
  \* --- Semaphore dsLock and the queue behind it
  counter,
  waiting,     \* promises of acquire that wait
  dsQueue,     \* prepared blocks
  currentBlock,
  dsPaused,    \* dsQueue is paused after an error
  crashed,     \* the process ended with an unhandled rejection
  \* --- bound
  faults

socketVars   == <<ws, toReader, toNode, node>>
readerVars   == <<types, timer, startBlockNum, blocksQueue, paused, task, unconfirmed>>
receiverVars == <<counter, waiting, dsQueue, currentBlock, dsPaused>>
vars == <<socketVars, readerVars, receiverVars, crashed, faults>>

Blocks     == StartBlock..MaxBlock
Abi        == [type |-> "abi", num |-> 0]
Block(n)   == [type |-> "block", num |-> n]
Request(n) == [type |-> "get_blocks_request", num |-> n]
Ack(n)     == [type |-> "get_blocks_ack_request", num |-> n]
NoTask     == [num |-> 0, at |-> "none"]
NoRequest  == [next |-> 0, credit |-> 0]

ToReader == {Abi} \cup {Block(n) : n \in Blocks}
ToNode   == {Request(n) : n \in StartBlock..(MaxBlock + 1)} \cup {Ack(n) : n \in 1..Confirm}
NodeRecord == [next: {0} \cup StartBlock..(MaxBlock + 1), credit: Nat]
Stages   == {"none", "hung", "deserialize", "acquire", "waiting", "prepare", "confirm"}
TaskRecord == [num: {0} \cup Blocks, at: Stages]

TypeOK ==
  /\ ws \in {"none", "connecting", "open", "closing"}
  /\ toReader \in Seq(ToReader)
  /\ toNode \in Seq(ToNode)
  /\ node \in NodeRecord
  /\ types \in BOOLEAN /\ timer \in BOOLEAN /\ paused \in BOOLEAN
  /\ startBlockNum \in StartBlock..(MaxBlock + 1)
  /\ blocksQueue \in Seq(Blocks)
  /\ task \in TaskRecord
  /\ unconfirmed \in 0..(Confirm - 1)
  /\ counter \in 0..DsQueueSize /\ waiting \in BOOLEAN
  /\ dsQueue \in Seq(Blocks)
  /\ currentBlock \in (StartBlock - 1)..MaxBlock
  /\ dsPaused \in BOOLEAN /\ crashed \in BOOLEAN /\ faults \in 0..MaxFaults

-----------------------------------------------------------------------------
(* The node *)

(* The connection is accepted, the first message is the ABI. *)
Accept ==
  /\ ws = "connecting"
  /\ ws' = "open"
  /\ toReader' = <<Abi>>
  /\ UNCHANGED <<toNode, node, readerVars, receiverVars, crashed, faults>>

(* A request replaces an earlier one, an acknowledgement adds credit. *)
NodeReceives ==
  /\ toNode # <<>>
  /\ toNode' = Tail(toNode)
  /\ LET m == Head(toNode)
     IN  node' = IF m.type = "get_blocks_request"
                 THEN [next |-> m.num, credit |-> Prefetch]
                 ELSE [node EXCEPT !.credit = @ + m.num]
  /\ UNCHANGED <<ws, toReader, readerVars, receiverVars, crashed, faults>>

NodeSends ==
  /\ ws \in {"open", "closing"}
  /\ node.credit > 0 /\ node.next \in Blocks
  /\ toReader' = Append(toReader, Block(node.next))
  /\ node' = [next |-> node.next + 1, credit |-> node.credit - 1]
  /\ UNCHANGED <<ws, toNode, readerVars, receiverVars, crashed, faults>>

-----------------------------------------------------------------------------
(* StateHistoryBlockReader: the socket *)

(* connect, from startProcessing or five seconds after onClose. *)
Connect ==
  /\ timer /\ ~ crashed
  /\ timer' = FALSE
  /\ ws' = IF ws = "none" THEN "connecting" ELSE ws
  /\ UNCHANGED <<toReader, toNode, node, types, startBlockNum, blocksQueue,
                 paused, task, unconfirmed, receiverVars, crashed, faults>>

(* Mutant of OnAbi: the count of the last connection is kept. *)
OnAbiKeepsUnconfirmed ==
  /\ ~ crashed /\ toReader # <<>> /\ Head(toReader) = Abi
  /\ toReader' = Tail(toReader)
  /\ types' = TRUE
  /\ toNode' = Append(toNode, Request(startBlockNum))
  /\ UNCHANGED <<ws, node, timer, startBlockNum, blocksQueue, paused, task,
                 unconfirmed, receiverVars, crashed, faults>>

(* onMessage, the ABI: requestBlocks. *)
OnAbi ==
  /\ ~ crashed /\ toReader # <<>> /\ Head(toReader) = Abi
  /\ toReader' = Tail(toReader)
  /\ types' = TRUE
  /\ unconfirmed' = 0
  /\ toNode' = Append(toNode, Request(startBlockNum))
  /\ UNCHANGED <<ws, node, timer, startBlockNum, blocksQueue, paused, task,
                 receiverVars, crashed, faults>>

(* onMessage, a block: a task is added to blocksQueue. *)
OnBlock ==
  /\ ~ crashed /\ toReader # <<>> /\ Head(toReader) # Abi
  /\ toReader' = Tail(toReader)
  /\ blocksQueue' = Append(blocksQueue, Head(toReader).num)
  /\ UNCHANGED <<ws, toNode, node, types, timer, startBlockNum, paused, task,
                 unconfirmed, receiverVars, crashed, faults>>

(* onMessage, a block without the data it was requested with: no task, and *)
(* blocksQueue is paused.                                                  *)
OnIncompleteBlock ==
  /\ ~ crashed /\ toReader # <<>> /\ Head(toReader) # Abi /\ faults < MaxFaults
  /\ toReader' = Tail(toReader)
  /\ paused' = TRUE
  /\ faults' = faults + 1
  /\ UNCHANGED <<ws, toNode, node, types, timer, startBlockNum, blocksQueue,
                 task, unconfirmed, receiverVars, crashed>>

(* onMessage throws: the message is lost, the socket is closing, and the   *)
(* messages behind it still arrive until it is closed.                     *)
OnBadMessage ==
  /\ ~ crashed /\ toReader # <<>> /\ faults < MaxFaults
  /\ toReader' = Tail(toReader)
  /\ ws' = "closing"
  /\ faults' = faults + 1
  /\ UNCHANGED <<toNode, node, readerVars, receiverVars, crashed>>

(* The socket is closed, by either side or an error: onClose.  The task    *)
(* that runs is not stopped, but the threads that deserialise its data are *)
(* terminated: whether their answer still comes is up to the thread pool.  *)
Closed ==
  /\ ws' = "none" /\ toReader' = <<>> /\ toNode' = <<>> /\ node' = NoRequest
  /\ types' = FALSE
  /\ blocksQueue' = <<>>
  /\ timer' = TRUE
  /\ task' \in IF task.at = "deserialize" THEN {task, [task EXCEPT !.at = "hung"]}
                                          ELSE {task}
  /\ UNCHANGED <<startBlockNum, paused, unconfirmed, receiverVars, crashed>>

CloseCompletes == ~ crashed /\ ws = "closing" /\ Closed /\ UNCHANGED faults

ConnectionLost ==
  /\ ~ crashed /\ ws \in {"connecting", "open"} /\ faults < MaxFaults
  /\ Closed
  /\ faults' = faults + 1

-----------------------------------------------------------------------------
(* StateHistoryBlockReader: the task of a block *)

(* The next task starts: currentArgs asks for the block behind it. *)
StartTask ==
  /\ ~ crashed /\ ~ paused /\ task = NoTask /\ blocksQueue # <<>>
  /\ task' = [num |-> Head(blocksQueue), at |-> "deserialize"]
  /\ blocksQueue' = Tail(blocksQueue)
  /\ startBlockNum' = Head(blocksQueue) + 1
  /\ UNCHANGED <<socketVars, types, timer, paused, unconfirmed, receiverVars,
                 crashed, faults>>

Deserialized ==
  /\ ~ crashed /\ task.at = "deserialize"
  /\ task' = [task EXCEPT !.at = "acquire"]
  /\ UNCHANGED <<socketVars, types, timer, startBlockNum, blocksQueue, paused,
                 unconfirmed, receiverVars, crashed, faults>>

(* The data of the block cannot be deserialised: the queue is cleared and  *)
(* paused, and the task ends with a rejection nobody handles.              *)
DeserializeFails ==
  /\ ~ crashed /\ task.at = "deserialize" /\ faults < MaxFaults
  /\ task' = NoTask
  /\ blocksQueue' = <<>> /\ paused' = TRUE
  /\ crashed' = TRUE
  /\ faults' = faults + 1
  /\ UNCHANGED <<socketVars, types, timer, startBlockNum, unconfirmed, receiverVars>>

(* dsLock.acquire in the consumer. *)
Acquire ==
  /\ ~ crashed /\ task.at = "acquire"
  /\ IF counter < DsQueueSize
     THEN /\ counter' = counter + 1
          /\ task' = [task EXCEPT !.at = "prepare"]
          /\ UNCHANGED waiting
     ELSE /\ waiting' = TRUE
          /\ task' = [task EXCEPT !.at = "waiting"]
          /\ UNCHANGED counter
  /\ UNCHANGED <<socketVars, types, timer, startBlockNum, blocksQueue, paused,
                 unconfirmed, dsQueue, currentBlock, dsPaused, crashed, faults>>

(* The prepared block enters dsQueue, and the consumer returns. *)
Prepare ==
  /\ ~ crashed /\ task.at = "prepare"
  /\ dsQueue' = Append(dsQueue, task.num)
  /\ task' = [task EXCEPT !.at = "confirm"]
  /\ UNCHANGED <<socketVars, types, timer, startBlockNum, blocksQueue, paused,
                 unconfirmed, counter, waiting, currentBlock, dsPaused, crashed,
                 faults>>

(* Mutant of ConfirmDue: more than min_block_confirmation blocks. *)
ConfirmDueAbove(n) == n > Confirm

ConfirmDue(n) == n >= Confirm

(* The end of the task.  An acknowledgement without a connection that has  *)
(* completed its handshake throws outside of every try: the rejection is   *)
(* not handled and ends the process.  A closing socket drops it.           *)
ConfirmBlock ==
  /\ ~ crashed /\ task.at = "confirm"
  /\ task' = NoTask
  /\ IF ~ ConfirmDue(unconfirmed + 1)
     THEN unconfirmed' = unconfirmed + 1 /\ UNCHANGED <<toNode, crashed>>
     ELSE IF types
     THEN /\ toNode' = IF ws = "open" THEN Append(toNode, Ack(unconfirmed + 1)) ELSE toNode
          /\ unconfirmed' = 0
          /\ UNCHANGED crashed
     ELSE crashed' = TRUE /\ UNCHANGED <<toNode, unconfirmed>>
  /\ UNCHANGED <<ws, toReader, node, types, timer, startBlockNum, blocksQueue,
                 paused, receiverVars, faults>>

-----------------------------------------------------------------------------
(* StateReceiver behind it *)

(* Mutant of Skipped: no test. *)
SkippedNever(n) == FALSE

(* process throws: a block is missing. *)
Skipped(n) == n > currentBlock + 1

(* Mutant of Process: release does not take a waiting task. *)
ProcessForgetsWaiting ==
  /\ ~ crashed /\ ~ dsPaused /\ dsQueue # <<>> /\ ~ Skipped(Head(dsQueue))
  /\ currentBlock' = Head(dsQueue)
  /\ dsQueue' = Tail(dsQueue)
  /\ counter' = counter - 1
  /\ UNCHANGED <<socketVars, readerVars, waiting, dsPaused, crashed, faults>>

(* process of the next prepared block, and dsLock.release: the permit goes *)
(* to the waiting task, if any.                                            *)
Process ==
  /\ ~ crashed /\ ~ dsPaused /\ dsQueue # <<>> /\ ~ Skipped(Head(dsQueue))
  /\ currentBlock' = Head(dsQueue)
  /\ dsQueue' = Tail(dsQueue)
  /\ IF waiting
     THEN waiting' = FALSE /\ task' = [task EXCEPT !.at = "prepare"] /\ UNCHANGED counter
     ELSE counter' = counter - 1 /\ UNCHANGED <<waiting, task>>
  /\ UNCHANGED <<socketVars, types, timer, startBlockNum, blocksQueue, paused,
                 unconfirmed, dsPaused, crashed, faults>>

(* process throws: dsQueue is cleared and paused, the permit is kept. *)
ProcessThrows ==
  /\ ~ crashed /\ ~ dsPaused /\ dsQueue # <<>> /\ Skipped(Head(dsQueue))
  /\ dsQueue' = <<>> /\ dsPaused' = TRUE
  /\ UNCHANGED <<socketVars, readerVars, counter, waiting, currentBlock, crashed, faults>>

Init ==
  /\ ws = "none" /\ toReader = <<>> /\ toNode = <<>> /\ node = NoRequest
  /\ types = FALSE /\ timer = TRUE /\ startBlockNum = StartBlock
  /\ blocksQueue = <<>> /\ paused = FALSE /\ task = NoTask /\ unconfirmed = 0
  /\ counter = 0 /\ waiting = FALSE /\ dsQueue = <<>>
  /\ currentBlock = StartBlock - 1 /\ dsPaused = FALSE /\ crashed = FALSE
  /\ faults = 0

Node   == Accept \/ NodeReceives \/ NodeSends
Socket == Connect \/ OnAbi \/ OnBlock \/ CloseCompletes
Task   == StartTask \/ Deserialized \/ Acquire \/ Prepare \/ ConfirmBlock
Queue  == Process \/ ProcessThrows
Fault  == OnIncompleteBlock \/ OnBadMessage \/ ConnectionLost \/ DeserializeFails

Next == Node \/ Socket \/ Task \/ Queue \/ Fault

Spec == Init /\ [][Next]_vars

(* The node and the event loop keep running; faults have no fairness. *)
Fairness == WF_vars(Node) /\ WF_vars(Socket) /\ WF_vars(Task) /\ WF_vars(Queue)

FairSpec == Spec /\ Fairness

-----------------------------------------------------------------------------
(* Properties *)

(* Whatever is lost, incomplete or unreadable, and however often the       *)
(* connection is made again with a task still running: blocks are          *)
(* processed in order, none is left out and none twice.                    *)
ProcessedInOrder == [][currentBlock' # currentBlock => currentBlock' = currentBlock + 1]_vars

(* Blocks the node sent and the consumer has not taken over yet, which the *)
(* process holds in memory: ship_prefetch_blocks bounds them, plus the     *)
(* task a lost connection left behind and the acknowledgement it sends for *)
(* a block of the old connection.                                          *)
Unprocessed == Cardinality({i \in DOMAIN toReader : toReader[i] # Abi}) + Len(blocksQueue)
               + (IF task.at \in {"none", "confirm"} THEN 0 ELSE 1)

BufferBounded == Unprocessed <= Prefetch + 1

(* A permit of dsLock is held by every prepared block and the block being  *)
(* prepared; a task waits only when none is left.                          *)
PermitsConserved ==
  LET held == Len(dsQueue) + (IF task.at = "prepare" THEN 1 ELSE 0)
  IN  /\ counter <= DsQueueSize /\ held <= counter
      /\ ~ dsPaused => held = counter
      /\ waiting <=> task.at = "waiting"
      /\ waiting => counter = DsQueueSize

(* Every block is processed, or the reader is stopped in a way only a new  *)
(* process repairs: no acknowledgement, permit or timer is lost so that    *)
(* node and reader wait for each other.                                    *)
Progress == <>(currentBlock = MaxBlock \/ paused \/ dsPaused \/ crashed \/ task.at = "hung")
=============================================================================
