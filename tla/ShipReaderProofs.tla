-------------------------- MODULE ShipReaderProofs --------------------------
(***************************************************************************)
(* Proofs about ShipReader for every configuration, length of the chain    *)
(* and number of faults.                                                   *)
(***************************************************************************)
EXTENDS ShipReader, FiniteSetTheorems, SequenceTheorems, TLAPS

-----------------------------------------------------------------------------
(* The inductive invariant: from the node to dsQueue, every block is       *)
(* behind all blocks it follows.                                           *)

(* The node has no request and nothing it sent for one is left. *)
Fresh ==
  /\ node.next = 0
  /\ blocksQueue = <<>>
  /\ \A i \in DOMAIN toReader : toReader[i] = Abi

(* The node's ABI or the request that answers it is on the way: the        *)
(* handshake of a new connection, in which the only request is for the     *)
(* block behind the last task.                                             *)
Handshake ==
  /\ ws \in {"none", "connecting"} => toReader = <<>> /\ toNode = <<>> /\ Fresh
  /\ \A i \in DOMAIN toReader :
       toReader[i] = Abi => Fresh /\ \A j \in DOMAIN toNode : toNode[j].type # "get_blocks_request"
  /\ \A i, j \in DOMAIN toReader : toReader[i] = Abi /\ toReader[j] = Abi => i = j
  /\ \A i \in DOMAIN toNode : toNode[i].type = "get_blocks_request" =>
       /\ Fresh /\ toReader = <<>> /\ toNode[i].num = startBlockNum
       /\ \A j \in DOMAIN toNode : toNode[j].type = "get_blocks_request" => j = i

(* Blocks the reader has not started a task for. *)
AheadOfTask ==
  /\ \A i \in DOMAIN blocksQueue : startBlockNum <= blocksQueue[i]
  /\ \A i, j \in DOMAIN blocksQueue : i < j => blocksQueue[i] < blocksQueue[j]
  /\ \A i \in DOMAIN toReader : toReader[i] # Abi =>
       /\ startBlockNum <= toReader[i].num
       /\ \A j \in DOMAIN blocksQueue : blocksQueue[j] < toReader[i].num
       /\ \A j \in DOMAIN toReader : i < j => toReader[i].num < toReader[j].num
  /\ node.next # 0 =>
       /\ startBlockNum <= node.next
       /\ \A i \in DOMAIN blocksQueue : blocksQueue[i] < node.next
       /\ \A i \in DOMAIN toReader : toReader[i].num < node.next

(* The block of the running task, until it enters dsQueue. *)
InTask == task.at \in {"deserialize", "acquire", "waiting", "prepare"}

(* Blocks the reader has started a task for. *)
BehindTask ==
  /\ currentBlock < startBlockNum
  /\ \A i \in DOMAIN dsQueue : currentBlock < dsQueue[i] /\ dsQueue[i] < startBlockNum
  /\ \A i, j \in DOMAIN dsQueue : i < j => dsQueue[i] < dsQueue[j]
  /\ InTask => /\ task.num \in Blocks
               /\ currentBlock < task.num /\ task.num < startBlockNum
               /\ \A i \in DOMAIN dsQueue : dsQueue[i] < task.num

Inv == TypeOK /\ PermitsConserved /\ Handshake /\ AheadOfTask /\ BehindTask

-----------------------------------------------------------------------------
(* Sequences *)

LEMMA TailOf ==
  ASSUME NEW S, NEW s \in Seq(S), s # <<>>
  PROVE  /\ Len(s) \in Nat \ {0} /\ DOMAIN s = 1..Len(s)
         /\ Head(s) = s[1] /\ s[1] \in S
         /\ Tail(s) \in Seq(S) /\ Len(Tail(s)) = Len(s) - 1
         /\ DOMAIN Tail(s) = 1..(Len(s) - 1)
         /\ \A i \in DOMAIN Tail(s) : i + 1 \in DOMAIN s /\ Tail(s)[i] = s[i + 1]
BY HeadTailProperties, EmptySeq, LenProperties, SMT

LEMMA AppendTo ==
  ASSUME NEW S, NEW s \in Seq(S), NEW e \in S
  PROVE  /\ Len(s) \in Nat /\ DOMAIN s = 1..Len(s)
         /\ Append(s, e) \in Seq(S) /\ Len(Append(s, e)) = Len(s) + 1
         /\ DOMAIN Append(s, e) = 1..(Len(s) + 1)
         /\ \A i \in DOMAIN s : Append(s, e)[i] = s[i]
         /\ Append(s, e)[Len(s) + 1] = e
BY LenProperties, AppendProperties, SMT

LEMMA Empty == \A S : <<>> \in Seq(S) /\ Len(<<>>) = 0 /\ DOMAIN <<>> = {}
BY EmptySeq, LenProperties, SMT

-----------------------------------------------------------------------------
(* Steps *)

LEMMA BlocksFacts ==
  /\ StartBlock \in Nat \ {0} /\ MaxBlock \in Nat /\ StartBlock <= MaxBlock
  /\ Confirm \in Nat \ {0} /\ Prefetch \in Nat /\ DsQueueSize \in Nat \ {0}
  /\ Blocks = StartBlock..MaxBlock
BY ConfigAssumption, BoundAssumption DEF Blocks

LEMMA ToReaderFacts ==
  ASSUME NEW m \in ToReader
  PROVE  /\ Abi.num = 0
         /\ m # Abi => m.num \in Blocks
<1>1. Abi.num = 0
  BY DEF Abi
<1>2. CASE m # Abi
  <2>1. PICK n \in Blocks : m = Block(n)
    BY <1>2 DEF ToReader
  <2> QED
    BY <1>1, <2>1 DEF Block
<1> QED
  BY <1>1, <1>2

LEMMA BlockMessage ==
  ASSUME NEW n \in Blocks
  PROVE  Block(n) \in ToReader /\ Block(n) # Abi /\ Block(n).num = n
BY DEF ToReader, Block, Abi

LEMMA ToNodeFacts ==
  ASSUME NEW m \in ToNode
  PROVE  /\ m.type = "get_blocks_request" => m.num \in StartBlock..(MaxBlock + 1)
         /\ m.type # "get_blocks_request" => m.num \in 1..Confirm
<1>1. CASE \E n \in StartBlock..(MaxBlock + 1) : m = Request(n)
  BY <1>1 DEF Request
<1>2. CASE \E n \in 1..Confirm : m = Ack(n)
  BY <1>2 DEF Ack
<1> QED
  BY <1>1, <1>2 DEF ToNode

LEMMA NodeMessage ==
  /\ \A n \in StartBlock..(MaxBlock + 1) :
       Request(n) \in ToNode /\ Request(n).type = "get_blocks_request" /\ Request(n).num = n
  /\ \A n \in 1..Confirm : Ack(n) \in ToNode /\ Ack(n).type # "get_blocks_request"
BY DEF ToNode, Request, Ack

LEMMA AtStage ==
  ASSUME NEW t \in TaskRecord, NEW a \in Stages
  PROVE  /\ [t EXCEPT !.at = a] \in TaskRecord
         /\ [t EXCEPT !.at = a].num = t.num
         /\ [t EXCEPT !.at = a].at = a
BY DEF TaskRecord

LEMMA NoTaskFacts == NoTask \in TaskRecord /\ NoTask.num = 0 /\ NoTask.at = "none"
BY DEF NoTask, TaskRecord, Stages

LEMMA NoRequestFacts ==
  NoRequest \in NodeRecord /\ NoRequest.next = 0 /\ NoRequest.credit = 0
BY DEF NoRequest, NodeRecord

LEMMA InitInv ==
  ASSUME Init
  PROVE  Inv
<1> USE BlocksFacts, NoTaskFacts, NoRequestFacts DEF Init, Inv
<1>e. /\ <<>> \in Seq(ToReader) /\ <<>> \in Seq(ToNode) /\ <<>> \in Seq(Blocks)
      /\ Len(<<>>) = 0 /\ DOMAIN <<>> = {}
  BY Empty
<1>1. TypeOK
  <2>1. faults \in 0..MaxFaults
    BY BoundAssumption
  <2>2. /\ startBlockNum \in StartBlock..(MaxBlock + 1) /\ unconfirmed \in 0..(Confirm - 1)
        /\ counter \in 0..DsQueueSize /\ currentBlock \in (StartBlock - 1)..MaxBlock
    OBVIOUS
  <2>3. task \in TaskRecord /\ node \in NodeRecord
    OBVIOUS
  <2> QED
    BY <1>e, <2>1, <2>2, <2>3 DEF TypeOK
<1>2. PermitsConserved
  BY <1>e DEF PermitsConserved
<1>3. Handshake
  BY <1>e DEF Handshake, Fresh
<1>4. AheadOfTask
  BY <1>e DEF AheadOfTask
<1>5. BehindTask
  BY <1>e DEF BehindTask, InTask
<1> QED
  BY <1>1, <1>2, <1>3, <1>4, <1>5

LEMMA AcceptInv ==
  ASSUME Inv, Accept
  PROVE  Inv'
<1> USE DEF Inv, socketVars, readerVars, receiverVars
<1>s. <<Abi>> \in Seq(ToReader) /\ DOMAIN <<Abi>> = {1} /\ <<Abi>>[1] = Abi
  <2>1. Abi \in ToReader
    BY DEF ToReader
  <2> QED
    BY <2>1, SMT
<1>o. toReader = <<>> /\ toNode = <<>> /\ Fresh
  BY DEF Handshake, Accept
<1>e. DOMAIN <<>> = {}
  BY Empty
<1>a. Abi.num = 0
  BY DEF Abi
<1>1. TypeOK'
  BY <1>s DEF Accept, TypeOK
<1>2. PermitsConserved'
  BY DEF Accept, PermitsConserved
<1>3. Handshake'
  BY <1>s, <1>o, <1>e DEF Accept, Handshake, Fresh
<1>4. AheadOfTask'
  BY <1>s, <1>o, <1>a DEF Accept, AheadOfTask, Fresh
<1>5. BehindTask'
  BY DEF Accept, BehindTask, InTask
<1> QED
  BY <1>1, <1>2, <1>3, <1>4, <1>5

LEMMA NodeReceivesInv ==
  ASSUME Inv, NodeReceives
  PROVE  Inv'
<1> USE DEF Inv, socketVars, readerVars, receiverVars
<1>n. /\ Len(toNode) \in Nat \ {0} /\ DOMAIN toNode = 1..Len(toNode)
      /\ Head(toNode) = toNode[1] /\ toNode[1] \in ToNode
      /\ Tail(toNode) \in Seq(ToNode) /\ Len(Tail(toNode)) = Len(toNode) - 1
      /\ DOMAIN Tail(toNode) = 1..(Len(toNode) - 1)
      /\ \A i \in DOMAIN Tail(toNode) : i + 1 \in DOMAIN toNode /\ Tail(toNode)[i] = toNode[i + 1]
  BY TailOf DEF TypeOK, NodeReceives
<1>h. /\ toReader \in Seq(ToReader) /\ DOMAIN toReader = 1..Len(toReader)
  BY LenProperties DEF TypeOK
<1>m. /\ toNode[1].type = "get_blocks_request" => toNode[1].num \in StartBlock..(MaxBlock + 1)
      /\ toNode[1].type # "get_blocks_request" => toNode[1].num \in 1..Confirm
  BY <1>n, ToNodeFacts
<1>r. ASSUME toNode[1].type = "get_blocks_request"
      PROVE  /\ node' \in NodeRecord /\ node'.next = startBlockNum /\ node'.next # 0
             /\ Fresh /\ toReader = <<>>
             /\ \A j \in DOMAIN toNode : toNode[j].type = "get_blocks_request" => j = 1
  <2>1. /\ Fresh /\ toReader = <<>> /\ toNode[1].num = startBlockNum
        /\ \A j \in DOMAIN toNode : toNode[j].type = "get_blocks_request" => j = 1
    BY <1>n, <1>r DEF Handshake
  <2>2. node' = [next |-> toNode[1].num, credit |-> Prefetch]
    BY <1>n, <1>r DEF NodeReceives
  <2>3. toNode[1].num \in StartBlock..(MaxBlock + 1) /\ toNode[1].num # 0
    <3>1. toNode[1].num \in StartBlock..(MaxBlock + 1)
      BY <1>m, <1>r
    <3>2. \A k \in StartBlock..(MaxBlock + 1) : k # 0
      BY BlocksFacts
    <3> QED
      BY <3>1, <3>2
  <2>4. node' \in NodeRecord
    BY <2>2, <2>3, BlocksFacts DEF NodeRecord
  <2> QED
    BY <2>1, <2>2, <2>3, <2>4
<1>q. ASSUME toNode[1].type # "get_blocks_request"
      PROVE  node' \in NodeRecord /\ node'.next = node.next
  <2>1. node' = [node EXCEPT !.credit = @ + toNode[1].num]
    BY <1>n, <1>q DEF NodeReceives
  <2>2. toNode[1].num \in Nat
    BY <1>m, <1>q, BlocksFacts
  <2>3. node \in NodeRecord
    BY DEF TypeOK
  <2> QED
    BY <2>1, <2>2, <2>3 DEF NodeRecord
<1>k. \A i \in DOMAIN Tail(toNode) : Tail(toNode)[i].type = "get_blocks_request" =>
        /\ toNode[1].type # "get_blocks_request"
        /\ toNode[i + 1].type = "get_blocks_request"
  BY <1>n, <1>r
<1>1. TypeOK'
  BY <1>n, <1>r, <1>q DEF NodeReceives, TypeOK
<1>2. PermitsConserved'
  BY DEF NodeReceives, PermitsConserved
<1>3. Handshake'
  <2>1. ws' \notin {"none", "connecting"}
    BY <1>n, Empty DEF NodeReceives, Handshake
  <2>2. ASSUME NEW i \in DOMAIN toReader', toReader'[i] = Abi
        PROVE  Fresh' /\ \A j \in DOMAIN toNode' : toNode'[j].type # "get_blocks_request"
    <3>1. Fresh /\ \A j \in DOMAIN toNode : toNode[j].type # "get_blocks_request"
      BY <2>2 DEF NodeReceives, Handshake
    <3>2. toNode[1].type # "get_blocks_request"
      BY <1>n, <3>1
    <3> QED
      BY <1>n, <1>q, <1>k, <3>1, <3>2 DEF NodeReceives, Fresh
  <2>3. ASSUME NEW i \in DOMAIN toNode', toNode'[i].type = "get_blocks_request"
        PROVE  /\ Fresh' /\ toReader' = <<>> /\ toNode'[i].num = startBlockNum'
               /\ \A j \in DOMAIN toNode' : toNode'[j].type = "get_blocks_request" => j = i
    <3>1. toNode' = Tail(toNode)
      BY DEF NodeReceives
    <3>2. toNode[1].type # "get_blocks_request" /\ i + 1 \in DOMAIN toNode
          /\ toNode[i + 1].type = "get_blocks_request" /\ toNode'[i] = toNode[i + 1]
      BY <1>n, <1>k, <2>3, <3>1
    <3>3. /\ Fresh /\ toReader = <<>> /\ toNode[i + 1].num = startBlockNum
          /\ \A j \in DOMAIN toNode : toNode[j].type = "get_blocks_request" => j = i + 1
      BY <3>2 DEF Handshake
    <3>4. Fresh' /\ toReader' = <<>> /\ startBlockNum' = startBlockNum
      BY <1>q, <3>2, <3>3 DEF NodeReceives, Fresh
    <3>5. ASSUME NEW j \in DOMAIN toNode', toNode'[j].type = "get_blocks_request"
          PROVE  j = i
      <4>1. j + 1 \in DOMAIN toNode /\ toNode[j + 1].type = "get_blocks_request"
        BY <1>n, <3>1, <3>5
      <4>2. j + 1 = i + 1
        BY <3>3, <4>1
      <4> QED
        BY <1>n, <2>3, <3>1, <3>5, <4>2
    <3> QED
      BY <3>2, <3>3, <3>4, <3>5
  <2>4. \A i, j \in DOMAIN toReader' : toReader'[i] = Abi /\ toReader'[j] = Abi => i = j
    BY DEF NodeReceives, Handshake
  <2> QED
    BY <2>1, <2>2, <2>3, <2>4 DEF Handshake
<1>4. AheadOfTask'
  <2>1. CASE toNode[1].type = "get_blocks_request"
    <3>1. /\ blocksQueue' = <<>> /\ toReader' = <<>> /\ node'.next = startBlockNum'
          /\ startBlockNum' \in Nat
      BY SMTT(30), <1>r, <2>1, BlocksFacts DEF NodeReceives, Fresh, TypeOK
    <3>2. DOMAIN <<>> = {}
      BY Empty
    <3> QED
      BY <3>1, <3>2 DEF AheadOfTask
  <2>2. CASE toNode[1].type # "get_blocks_request"
    BY <1>q, <2>2 DEF NodeReceives, AheadOfTask
  <2> QED
    BY <2>1, <2>2
<1>5. BehindTask'
  BY DEF NodeReceives, BehindTask, InTask
<1> QED
  BY <1>1, <1>2, <1>3, <1>4, <1>5

LEMMA NodeSendsInv ==
  ASSUME Inv, NodeSends
  PROVE  Inv'
<1> USE DEF Inv, socketVars, readerVars, receiverVars
<1>b. /\ node.next \in Blocks /\ node.next > 0 /\ node.credit \in Nat \ {0}
      /\ Block(node.next) \in ToReader /\ Block(node.next) # Abi
      /\ Block(node.next).num = node.next
  <2>1. node.next \in Blocks
    BY DEF NodeSends
  <2> QED
    BY <2>1, BlockMessage, BlocksFacts DEF NodeSends, TypeOK, NodeRecord
<1>a. /\ Len(toReader) \in Nat /\ DOMAIN toReader = 1..Len(toReader)
      /\ Append(toReader, Block(node.next)) \in Seq(ToReader) /\ Len(Append(toReader, Block(node.next))) = Len(toReader) + 1
      /\ DOMAIN Append(toReader, Block(node.next)) = 1..(Len(toReader) + 1)
      /\ \A i \in DOMAIN toReader : Append(toReader, Block(node.next))[i] = toReader[i]
      /\ Append(toReader, Block(node.next))[Len(toReader) + 1] = Block(node.next)
  BY AppendTo, <1>b DEF TypeOK
<1>k. /\ node' \in NodeRecord /\ node'.next = node.next + 1
  BY <1>b, BlocksFacts DEF NodeSends, NodeRecord
<1>r. \A i \in DOMAIN toReader : toReader[i] # Abi => toReader[i].num \in Blocks
  BY <1>a, ToReaderFacts, ElementOfSeq DEF TypeOK
<1>z. Abi.num = 0
  BY DEF Abi
<1>m. toReader' = Append(toReader, Block(node.next)) /\ ws' = ws /\ toNode' = toNode
     /\ startBlockNum' = startBlockNum /\ blocksQueue' = blocksQueue
  BY DEF NodeSends
<1>v. startBlockNum \in Nat /\ blocksQueue \in Seq(Blocks) /\ DOMAIN blocksQueue = 1..Len(blocksQueue)
  BY BlocksFacts, LenProperties DEF TypeOK
<1>w. \A i \in DOMAIN blocksQueue : blocksQueue[i] \in Nat
  BY <1>v, ElementOfSeq, BlocksFacts
<1>u. \A i \in DOMAIN toReader : toReader[i].num \in Nat
  BY <1>r, <1>z, BlocksFacts
<1>1. TypeOK'
  BY <1>a, <1>k DEF NodeSends, TypeOK
<1>2. PermitsConserved'
  BY DEF NodeSends, PermitsConserved
<1>3. Handshake'
  <2>1. ~ Fresh
    BY <1>b DEF Fresh
  <2> QED
    BY <1>a, <1>b, <1>m, <2>1 DEF Handshake, NodeSends
<1>4. AheadOfTask'
  <2>0. node.next \in Nat /\ node.next # 0
    BY <1>b, BlocksFacts
  <2>1. /\ \A i \in DOMAIN blocksQueue' : startBlockNum' <= blocksQueue'[i]
        /\ \A i, j \in DOMAIN blocksQueue' : i < j => blocksQueue'[i] < blocksQueue'[j]
    BY <1>m DEF AheadOfTask
  <2>2. ASSUME NEW i \in DOMAIN toReader', toReader'[i] # Abi
        PROVE  /\ startBlockNum' <= toReader'[i].num
               /\ \A j \in DOMAIN blocksQueue' : blocksQueue'[j] < toReader'[i].num
               /\ \A j \in DOMAIN toReader' : i < j => toReader'[i].num < toReader'[j].num
    <3>1. CASE i \in DOMAIN toReader
      BY <1>a, <1>b, <1>m, <2>0, <2>2, <3>1 DEF AheadOfTask
    <3>2. CASE i = Len(toReader) + 1
      BY <1>a, <1>b, <1>m, <2>0, <3>2 DEF AheadOfTask
    <3> QED
      BY <1>a, <1>m, <3>1, <3>2
  <2>3. /\ startBlockNum' <= node'.next
        /\ \A i \in DOMAIN blocksQueue' : blocksQueue'[i] < node'.next
        /\ \A i \in DOMAIN toReader' : toReader'[i].num < node'.next
    <3>1. startBlockNum <= node.next /\ \A i \in DOMAIN blocksQueue : blocksQueue[i] < node.next
      BY <2>0 DEF AheadOfTask
    <3>2. ASSUME NEW i \in DOMAIN toReader' PROVE toReader'[i].num < node'.next
      <4>1. CASE i \in DOMAIN toReader
        BY <1>a, <1>u, <1>k, <1>m, <2>0, <4>1 DEF AheadOfTask
      <4>2. CASE i = Len(toReader) + 1
        BY <1>a, <1>b, <1>k, <1>m, <2>0, <4>2
      <4> QED
        BY <1>a, <1>m, <4>1, <4>2
    <3> QED
      BY <1>k, <1>m, <1>v, <1>w, <2>0, <3>1, <3>2
  <2> QED
    BY <2>1, <2>2, <2>3 DEF AheadOfTask
<1>5. BehindTask'
  BY DEF NodeSends, BehindTask, InTask
<1> QED
  BY <1>1, <1>2, <1>3, <1>4, <1>5

LEMMA ConnectInv ==
  ASSUME Inv, Connect
  PROVE  Inv'
<1> USE DEF Inv, socketVars, readerVars, receiverVars
<1>1. TypeOK'
  BY DEF Connect, TypeOK
<1>2. PermitsConserved'
  BY DEF Connect, PermitsConserved
<1>3. Handshake'
  BY DEF Connect, Handshake, Fresh
<1>4. AheadOfTask'
  BY DEF Connect, AheadOfTask
<1>5. BehindTask'
  BY DEF Connect, BehindTask, InTask
<1> QED
  BY <1>1, <1>2, <1>3, <1>4, <1>5

LEMMA OnAbiInv ==
  ASSUME Inv, OnAbi
  PROVE  Inv'
<1> USE DEF Inv, socketVars, readerVars, receiverVars
<1>n. /\ Len(toReader) \in Nat \ {0} /\ DOMAIN toReader = 1..Len(toReader)
      /\ Head(toReader) = toReader[1] /\ toReader[1] \in ToReader
      /\ Tail(toReader) \in Seq(ToReader) /\ Len(Tail(toReader)) = Len(toReader) - 1
      /\ DOMAIN Tail(toReader) = 1..(Len(toReader) - 1)
      /\ \A i \in DOMAIN Tail(toReader) : i + 1 \in DOMAIN toReader /\ Tail(toReader)[i] = toReader[i + 1]
  BY TailOf DEF TypeOK, OnAbi
<1>r. /\ Request(startBlockNum) \in ToNode /\ Request(startBlockNum).num = startBlockNum
      /\ Request(startBlockNum).type = "get_blocks_request"
  BY NodeMessage DEF TypeOK
<1>a. /\ Len(toNode) \in Nat /\ DOMAIN toNode = 1..Len(toNode)
      /\ Append(toNode, Request(startBlockNum)) \in Seq(ToNode) /\ Len(Append(toNode, Request(startBlockNum))) = Len(toNode) + 1
      /\ DOMAIN Append(toNode, Request(startBlockNum)) = 1..(Len(toNode) + 1)
      /\ \A i \in DOMAIN toNode : Append(toNode, Request(startBlockNum))[i] = toNode[i]
      /\ Append(toNode, Request(startBlockNum))[Len(toNode) + 1] = Request(startBlockNum)
  BY AppendTo, <1>r DEF TypeOK
<1>m. /\ toReader' = Tail(toReader) /\ toNode' = Append(toNode, Request(startBlockNum))
      /\ ws' = ws /\ node' = node /\ blocksQueue' = blocksQueue /\ startBlockNum' = startBlockNum
      /\ toReader[1] = Abi /\ 1 \in DOMAIN toReader /\ toReader # <<>>
  BY <1>n DEF OnAbi
<1>h. Fresh /\ \A j \in DOMAIN toNode : toNode[j].type # "get_blocks_request"
  BY <1>m DEF Handshake
<1>z. Tail(toReader) = <<>> /\ DOMAIN Tail(toReader) = {}
  <2>1. ~ 1 \in DOMAIN Tail(toReader)
    <3> SUFFICES ASSUME 1 \in DOMAIN Tail(toReader)
                 PROVE  FALSE
      OBVIOUS
    <3>1. 1 + 1 \in DOMAIN toReader
      BY <1>n
    <3>2. toReader[1 + 1] = Abi
      BY <1>h, <3>1 DEF Fresh
    <3>3. 1 = 1 + 1
      BY <1>m, <3>1, <3>2 DEF Handshake
    <3> QED
      BY <3>3
  <2>2. Len(Tail(toReader)) = 0
    BY <1>n, <2>1
  <2>3. Tail(toReader) \in Seq(ToReader)
    BY <1>n
  <2>4. Tail(toReader) = <<>>
    BY <2>2, <2>3, EmptySeq
  <2> QED
    BY <2>4, Empty
<1>y. Fresh'
  BY <1>h, <1>m, <1>z DEF Fresh
<1>1. TypeOK'
  BY <1>n, <1>a, BlocksFacts DEF OnAbi, TypeOK
<1>2. PermitsConserved'
  BY DEF OnAbi, PermitsConserved
<1>3. Handshake'
  <2>1. ws' \notin {"none", "connecting"}
    BY <1>m DEF Handshake
  <2>2. ASSUME NEW i \in DOMAIN toNode', toNode'[i].type = "get_blocks_request"
        PROVE  i = Len(toNode) + 1
    BY <1>a, <1>h, <1>m, <2>2
  <2>3. ASSUME NEW i \in DOMAIN toNode', toNode'[i].type = "get_blocks_request"
        PROVE  /\ Fresh' /\ toReader' = <<>> /\ toNode'[i].num = startBlockNum'
               /\ \A j \in DOMAIN toNode' : toNode'[j].type = "get_blocks_request" => j = i
    BY <1>a, <1>m, <1>r, <1>y, <1>z, <2>2, <2>3
  <2> QED
    BY <1>m, <1>z, <2>1, <2>3 DEF Handshake
<1>4. AheadOfTask'
  <2>1. node'.next = 0 /\ blocksQueue' = <<>>
    BY <1>y DEF Fresh
  <2> QED
    BY <1>m, <1>z, <2>1, Empty DEF AheadOfTask
<1>5. BehindTask'
  BY DEF OnAbi, BehindTask, InTask
<1> QED
  BY <1>1, <1>2, <1>3, <1>4, <1>5

LEMMA OnBlockInv ==
  ASSUME Inv, OnBlock
  PROVE  Inv'
<1> USE DEF Inv, socketVars, readerVars, receiverVars
<1>n. /\ Len(toReader) \in Nat \ {0} /\ DOMAIN toReader = 1..Len(toReader)
      /\ Head(toReader) = toReader[1] /\ toReader[1] \in ToReader
      /\ Tail(toReader) \in Seq(ToReader) /\ Len(Tail(toReader)) = Len(toReader) - 1
      /\ DOMAIN Tail(toReader) = 1..(Len(toReader) - 1)
      /\ \A i \in DOMAIN Tail(toReader) : i + 1 \in DOMAIN toReader /\ Tail(toReader)[i] = toReader[i + 1]
  BY TailOf DEF TypeOK, OnBlock
<1>r. toReader[1] \in ToReader /\ toReader[1] # Abi /\ 1 \in DOMAIN toReader
     /\ toReader[1].num \in Blocks /\ toReader # <<>>
  BY <1>n, ToReaderFacts DEF OnBlock
<1>a. /\ Len(blocksQueue) \in Nat /\ DOMAIN blocksQueue = 1..Len(blocksQueue)
      /\ Append(blocksQueue, toReader[1].num) \in Seq(Blocks) /\ Len(Append(blocksQueue, toReader[1].num)) = Len(blocksQueue) + 1
      /\ DOMAIN Append(blocksQueue, toReader[1].num) = 1..(Len(blocksQueue) + 1)
      /\ \A i \in DOMAIN blocksQueue : Append(blocksQueue, toReader[1].num)[i] = blocksQueue[i]
      /\ Append(blocksQueue, toReader[1].num)[Len(blocksQueue) + 1] = toReader[1].num
  BY AppendTo, <1>r DEF TypeOK
<1>m. /\ toReader' = Tail(toReader) /\ blocksQueue' = Append(blocksQueue, toReader[1].num)
      /\ ws' = ws /\ node' = node /\ toNode' = toNode /\ startBlockNum' = startBlockNum
  BY <1>n DEF OnBlock
<1>1. TypeOK'
  BY <1>n, <1>a, <1>m DEF OnBlock, TypeOK
<1>2. PermitsConserved'
  BY DEF OnBlock, PermitsConserved
<1>3. Handshake'
  <2>1. ws' \notin {"none", "connecting"}
    BY <1>m, <1>r DEF Handshake
  <2>2. \A i \in DOMAIN toReader' : toReader'[i] # Abi
    <3> SUFFICES ASSUME NEW i \in DOMAIN toReader', toReader'[i] = Abi
                 PROVE  FALSE
      OBVIOUS
    <3>1. i + 1 \in DOMAIN toReader /\ toReader[i + 1] = Abi
      BY <1>n, <1>m
    <3>2. Fresh
      BY <3>1 DEF Handshake
    <3> QED
      BY <1>r, <3>2 DEF Fresh
  <2>3. \A i \in DOMAIN toNode' : toNode'[i].type # "get_blocks_request"
    BY <1>m, <1>r DEF Handshake
  <2> QED
    BY <2>1, <2>2, <2>3 DEF Handshake
<1>4. AheadOfTask'
  <2>1. ASSUME NEW i \in DOMAIN blocksQueue'
        PROVE  /\ startBlockNum' <= blocksQueue'[i]
               /\ \A j \in DOMAIN blocksQueue' : i < j => blocksQueue'[i] < blocksQueue'[j]
               /\ node'.next # 0 => blocksQueue'[i] < node'.next
    <3>1. CASE i \in DOMAIN blocksQueue
      BY <1>a, <1>m, <1>r, <3>1 DEF AheadOfTask
    <3>2. CASE i = Len(blocksQueue) + 1
      BY <1>a, <1>m, <1>r, <3>2 DEF AheadOfTask
    <3> QED
      BY <1>a, <1>m, <3>1, <3>2
  <2>2. ASSUME NEW i \in DOMAIN toReader'
        PROVE  /\ toReader'[i] # Abi =>
                    /\ startBlockNum' <= toReader'[i].num
                    /\ \A j \in DOMAIN blocksQueue' : blocksQueue'[j] < toReader'[i].num
                    /\ \A j \in DOMAIN toReader' : i < j => toReader'[i].num < toReader'[j].num
               /\ node'.next # 0 => toReader'[i].num < node'.next
    <3>1. i + 1 \in DOMAIN toReader /\ toReader'[i] = toReader[i + 1] /\ 1 < i + 1
      BY <1>n, <1>m
    <3>2. node'.next # 0 => toReader'[i].num < node'.next
      BY <1>m, <3>1 DEF AheadOfTask
    <3>3. ASSUME toReader'[i] # Abi
          PROVE  startBlockNum' <= toReader'[i].num
      BY <1>m, <3>1, <3>3 DEF AheadOfTask
    <3>4. ASSUME toReader'[i] # Abi, NEW j \in DOMAIN blocksQueue'
          PROVE  blocksQueue'[j] < toReader'[i].num
      <4>1. CASE j \in DOMAIN blocksQueue
        BY <1>a, <1>m, <3>1, <3>4, <4>1 DEF AheadOfTask
      <4>2. CASE j = Len(blocksQueue) + 1
        BY <1>a, <1>m, <1>r, <3>1, <3>4, <4>2 DEF AheadOfTask
      <4> QED
        BY <1>a, <1>m, <3>4, <4>1, <4>2
    <3>5. ASSUME toReader'[i] # Abi, NEW j \in DOMAIN toReader', i < j
          PROVE  toReader'[i].num < toReader'[j].num
      <4>1. j + 1 \in DOMAIN toReader /\ toReader'[j] = toReader[j + 1] /\ i + 1 < j + 1
        BY <1>n, <1>m, <3>5
      <4> QED
        BY <3>1, <3>5, <4>1 DEF AheadOfTask
    <3> QED
      BY <3>2, <3>3, <3>4, <3>5
  <2>3. node'.next # 0 => startBlockNum' <= node'.next
    BY <1>m DEF AheadOfTask
  <2> QED
    BY <2>1, <2>2, <2>3 DEF AheadOfTask
<1>5. BehindTask'
  BY DEF OnBlock, BehindTask, InTask
<1> QED
  BY <1>1, <1>2, <1>3, <1>4, <1>5

LEMMA OnIncompleteBlockInv ==
  ASSUME Inv, OnIncompleteBlock
  PROVE  Inv'
<1> USE DEF Inv, socketVars, readerVars, receiverVars
<1>n. /\ Len(toReader) \in Nat \ {0} /\ DOMAIN toReader = 1..Len(toReader)
      /\ Head(toReader) = toReader[1] /\ toReader[1] \in ToReader
      /\ Tail(toReader) \in Seq(ToReader) /\ Len(Tail(toReader)) = Len(toReader) - 1
      /\ DOMAIN Tail(toReader) = 1..(Len(toReader) - 1)
      /\ \A i \in DOMAIN Tail(toReader) : i + 1 \in DOMAIN toReader /\ Tail(toReader)[i] = toReader[i + 1]
  BY TailOf DEF TypeOK, OnIncompleteBlock
<1>r. toReader[1] \in ToReader /\ toReader[1] # Abi /\ 1 \in DOMAIN toReader
     /\ toReader[1].num \in Blocks /\ toReader # <<>>
  BY <1>n, ToReaderFacts DEF OnIncompleteBlock
<1>m. /\ toReader' = Tail(toReader) /\ blocksQueue' = blocksQueue
      /\ node' = node /\ toNode' = toNode /\ startBlockNum' = startBlockNum
  BY DEF OnIncompleteBlock
<1>f. faults + 1 \in 0..MaxFaults
  BY BoundAssumption DEF OnIncompleteBlock, TypeOK
<1>1. TypeOK'
  BY <1>n, <1>f DEF OnIncompleteBlock, TypeOK
<1>2. PermitsConserved'
  BY DEF OnIncompleteBlock, PermitsConserved
<1>3. Handshake'
  <2>1. ws' \notin {"none", "connecting"}
    BY <1>r DEF OnIncompleteBlock, Handshake
  <2>2. \A i \in DOMAIN toReader' : toReader'[i] # Abi
    <3> SUFFICES ASSUME NEW i \in DOMAIN toReader', toReader'[i] = Abi
                 PROVE  FALSE
      OBVIOUS
    <3>1. i + 1 \in DOMAIN toReader /\ toReader[i + 1] = Abi
      BY <1>n, <1>m
    <3>2. Fresh
      BY <3>1 DEF Handshake
    <3> QED
      BY <1>r, <3>2 DEF Fresh
  <2>3. \A i \in DOMAIN toNode' : toNode'[i].type # "get_blocks_request"
    BY <1>m, <1>r DEF Handshake
  <2> QED
    BY <2>1, <2>2, <2>3 DEF Handshake
<1>4. AheadOfTask'
  <2>2. ASSUME NEW i \in DOMAIN toReader'
        PROVE  /\ toReader'[i] # Abi =>
                    /\ startBlockNum' <= toReader'[i].num
                    /\ \A j \in DOMAIN blocksQueue' : blocksQueue'[j] < toReader'[i].num
                    /\ \A j \in DOMAIN toReader' : i < j => toReader'[i].num < toReader'[j].num
               /\ node'.next # 0 => toReader'[i].num < node'.next
    <3>1. i + 1 \in DOMAIN toReader /\ toReader'[i] = toReader[i + 1]
      BY <1>n, <1>m
    <3>2. ASSUME NEW j \in DOMAIN toReader', i < j
          PROVE  j + 1 \in DOMAIN toReader /\ toReader'[j] = toReader[j + 1] /\ i + 1 < j + 1
      BY <1>n, <1>m, <3>2
    <3> QED
      BY <1>m, <3>1, <3>2 DEF AheadOfTask
  <2> QED
    BY <1>m, <2>2 DEF AheadOfTask
<1>5. BehindTask'
  BY DEF OnIncompleteBlock, BehindTask, InTask
<1> QED
  BY <1>1, <1>2, <1>3, <1>4, <1>5

LEMMA OnBadMessageInv ==
  ASSUME Inv, OnBadMessage
  PROVE  Inv'
<1> USE DEF Inv, socketVars, readerVars, receiverVars
<1>n. /\ Len(toReader) \in Nat \ {0} /\ DOMAIN toReader = 1..Len(toReader)
      /\ Head(toReader) = toReader[1] /\ toReader[1] \in ToReader
      /\ Tail(toReader) \in Seq(ToReader) /\ Len(Tail(toReader)) = Len(toReader) - 1
      /\ DOMAIN Tail(toReader) = 1..(Len(toReader) - 1)
      /\ \A i \in DOMAIN Tail(toReader) : i + 1 \in DOMAIN toReader /\ Tail(toReader)[i] = toReader[i + 1]
  BY TailOf DEF TypeOK, OnBadMessage
<1>m. /\ toReader' = Tail(toReader) /\ blocksQueue' = blocksQueue
      /\ node' = node /\ toNode' = toNode /\ startBlockNum' = startBlockNum
  BY DEF OnBadMessage
<1>r. 1 \in DOMAIN toReader /\ toReader # <<>>
  BY <1>n DEF OnBadMessage
<1>f. faults + 1 \in 0..MaxFaults
  BY BoundAssumption DEF OnBadMessage, TypeOK
<1>1. TypeOK'
  BY <1>n, <1>f DEF OnBadMessage, TypeOK
<1>2. PermitsConserved'
  BY DEF OnBadMessage, PermitsConserved
<1>3. Handshake'
  <2>1. ws' = "closing"
    BY DEF OnBadMessage
  <2>2. ASSUME NEW i \in DOMAIN toReader', toReader'[i] = Abi
        PROVE  Fresh' /\ \A j \in DOMAIN toNode' : toNode'[j].type # "get_blocks_request"
    <3>1. i + 1 \in DOMAIN toReader /\ toReader[i + 1] = Abi
      BY <1>n, <1>m, <2>2
    <3>2. Fresh /\ \A j \in DOMAIN toNode : toNode[j].type # "get_blocks_request"
      BY <3>1 DEF Handshake
    <3> QED
      BY <1>n, <1>m, <3>2 DEF Fresh
  <2>3. ASSUME NEW i \in DOMAIN toReader', NEW j \in DOMAIN toReader',
               toReader'[i] = Abi, toReader'[j] = Abi
        PROVE  i = j
    <3>1. /\ i + 1 \in DOMAIN toReader /\ toReader[i + 1] = Abi
          /\ j + 1 \in DOMAIN toReader /\ toReader[j + 1] = Abi
      BY <1>n, <1>m, <2>3
    <3>2. i + 1 = j + 1
      BY <3>1 DEF Handshake
    <3> QED
      BY <1>n, <1>m, <2>3, <3>2
  <2>4. \A i \in DOMAIN toNode' : toNode'[i].type # "get_blocks_request"
    BY <1>m, <1>r DEF Handshake
  <2> QED
    BY <2>1, <2>2, <2>3, <2>4 DEF Handshake
<1>4. AheadOfTask'
  <2>2. ASSUME NEW i \in DOMAIN toReader'
        PROVE  /\ toReader'[i] # Abi =>
                    /\ startBlockNum' <= toReader'[i].num
                    /\ \A j \in DOMAIN blocksQueue' : blocksQueue'[j] < toReader'[i].num
                    /\ \A j \in DOMAIN toReader' : i < j => toReader'[i].num < toReader'[j].num
               /\ node'.next # 0 => toReader'[i].num < node'.next
    <3>1. i + 1 \in DOMAIN toReader /\ toReader'[i] = toReader[i + 1]
      BY <1>n, <1>m
    <3>2. ASSUME NEW j \in DOMAIN toReader', i < j
          PROVE  j + 1 \in DOMAIN toReader /\ toReader'[j] = toReader[j + 1] /\ i + 1 < j + 1
      BY <1>n, <1>m, <3>2
    <3> QED
      BY <1>m, <3>1, <3>2 DEF AheadOfTask
  <2> QED
    BY <1>m, <2>2 DEF AheadOfTask
<1>5. BehindTask'
  BY DEF OnBadMessage, BehindTask, InTask
<1> QED
  BY <1>1, <1>2, <1>3, <1>4, <1>5

LEMMA CloseCompletesInv ==
  ASSUME Inv, CloseCompletes
  PROVE  Inv'
<1> USE DEF Inv, socketVars, readerVars, receiverVars
<1>e. /\ <<>> \in Seq(ToReader) /\ <<>> \in Seq(ToNode) /\ <<>> \in Seq(Blocks)
      /\ Len(<<>>) = 0 /\ DOMAIN <<>> = {}
  BY Empty
<1>m. /\ toReader' = <<>> /\ toNode' = <<>> /\ node' = NoRequest /\ blocksQueue' = <<>>
  BY DEF CloseCompletes, Closed
<1>t. task' \in TaskRecord /\ task'.num = task.num
     /\ \/ task'.at = task.at
        \/ task.at = "deserialize" /\ task'.at = "hung"
  <2>1. task \in TaskRecord /\ "hung" \in Stages
    BY DEF TypeOK, Stages
  <2>2. /\ [task EXCEPT !.at = "hung"] \in TaskRecord
        /\ [task EXCEPT !.at = "hung"].num = task.num
        /\ [task EXCEPT !.at = "hung"].at = "hung"
    BY <2>1, AtStage
  <2>3. \/ task' = task
        \/ task.at = "deserialize" /\ task' = [task EXCEPT !.at = "hung"]
    BY DEF CloseCompletes, Closed
  <2> QED
    BY <2>1, <2>2, <2>3
<1>s. UNCHANGED <<startBlockNum, paused, unconfirmed, counter, waiting, dsQueue, currentBlock, dsPaused, crashed>>
     /\ ws' = "none" /\ types' = FALSE /\ timer' = TRUE
  BY DEF CloseCompletes, Closed
<1>f. faults' \in 0..MaxFaults
  BY BoundAssumption DEF CloseCompletes, TypeOK
<1>1. TypeOK'
  BY <1>e, <1>m, <1>t, <1>s, <1>f, NoRequestFacts DEF TypeOK
<1>2. PermitsConserved'
  BY <1>t, <1>s DEF PermitsConserved
<1>3. Handshake'
  BY <1>e, <1>m, <1>s, NoRequestFacts DEF Handshake, Fresh
<1>4. AheadOfTask'
  BY <1>e, <1>m, <1>s, NoRequestFacts DEF AheadOfTask
<1>5. BehindTask'
  BY <1>t, <1>s DEF BehindTask, InTask
<1> QED
  BY <1>1, <1>2, <1>3, <1>4, <1>5

LEMMA ConnectionLostInv ==
  ASSUME Inv, ConnectionLost
  PROVE  Inv'
<1> USE DEF Inv, socketVars, readerVars, receiverVars
<1>e. /\ <<>> \in Seq(ToReader) /\ <<>> \in Seq(ToNode) /\ <<>> \in Seq(Blocks)
      /\ Len(<<>>) = 0 /\ DOMAIN <<>> = {}
  BY Empty
<1>m. /\ toReader' = <<>> /\ toNode' = <<>> /\ node' = NoRequest /\ blocksQueue' = <<>>
  BY DEF ConnectionLost, Closed
<1>t. task' \in TaskRecord /\ task'.num = task.num
     /\ \/ task'.at = task.at
        \/ task.at = "deserialize" /\ task'.at = "hung"
  <2>1. task \in TaskRecord /\ "hung" \in Stages
    BY DEF TypeOK, Stages
  <2>2. /\ [task EXCEPT !.at = "hung"] \in TaskRecord
        /\ [task EXCEPT !.at = "hung"].num = task.num
        /\ [task EXCEPT !.at = "hung"].at = "hung"
    BY <2>1, AtStage
  <2>3. \/ task' = task
        \/ task.at = "deserialize" /\ task' = [task EXCEPT !.at = "hung"]
    BY DEF ConnectionLost, Closed
  <2> QED
    BY <2>1, <2>2, <2>3
<1>s. UNCHANGED <<startBlockNum, paused, unconfirmed, counter, waiting, dsQueue, currentBlock, dsPaused, crashed>>
     /\ ws' = "none" /\ types' = FALSE /\ timer' = TRUE
  BY DEF ConnectionLost, Closed
<1>f. faults' \in 0..MaxFaults
  BY BoundAssumption DEF ConnectionLost, TypeOK
<1>1. TypeOK'
  BY <1>e, <1>m, <1>t, <1>s, <1>f, NoRequestFacts DEF TypeOK
<1>2. PermitsConserved'
  BY <1>t, <1>s DEF PermitsConserved
<1>3. Handshake'
  BY <1>e, <1>m, <1>s, NoRequestFacts DEF Handshake, Fresh
<1>4. AheadOfTask'
  BY <1>e, <1>m, <1>s, NoRequestFacts DEF AheadOfTask
<1>5. BehindTask'
  BY <1>t, <1>s DEF BehindTask, InTask
<1> QED
  BY <1>1, <1>2, <1>3, <1>4, <1>5

LEMMA StartTaskInv ==
  ASSUME Inv, StartTask
  PROVE  Inv'
<1> USE DEF Inv, socketVars, readerVars, receiverVars
<1>n. /\ Len(blocksQueue) \in Nat \ {0} /\ DOMAIN blocksQueue = 1..Len(blocksQueue)
      /\ Head(blocksQueue) = blocksQueue[1] /\ blocksQueue[1] \in Blocks
      /\ Tail(blocksQueue) \in Seq(Blocks) /\ Len(Tail(blocksQueue)) = Len(blocksQueue) - 1
      /\ DOMAIN Tail(blocksQueue) = 1..(Len(blocksQueue) - 1)
      /\ \A i \in DOMAIN Tail(blocksQueue) : i + 1 \in DOMAIN blocksQueue /\ Tail(blocksQueue)[i] = blocksQueue[i + 1]
  BY TailOf DEF TypeOK, StartTask
<1>m. /\ blocksQueue' = Tail(blocksQueue) /\ startBlockNum' = blocksQueue[1] + 1
      /\ task' = [num |-> blocksQueue[1], at |-> "deserialize"]
      /\ UNCHANGED <<socketVars, types, timer, paused, unconfirmed, receiverVars, crashed, faults>>
      /\ task.at = "none" /\ 1 \in DOMAIN blocksQueue /\ blocksQueue # <<>>
  BY <1>n, NoTaskFacts DEF StartTask
<1>b. /\ blocksQueue[1] \in Nat /\ StartBlock <= blocksQueue[1] /\ blocksQueue[1] <= MaxBlock
      /\ startBlockNum \in Nat /\ startBlockNum <= blocksQueue[1]
  <2>1. startBlockNum <= blocksQueue[1]
    BY <1>m DEF AheadOfTask
  <2>2. startBlockNum \in StartBlock..(MaxBlock + 1)
    BY DEF TypeOK
  <2> QED
    BY <1>n, <1>m, <2>1, <2>2, BlocksFacts
<1>t. /\ task' \in TaskRecord /\ task'.num = blocksQueue[1] /\ task'.at = "deserialize"
  BY <1>m, <1>n DEF TaskRecord, Stages
<1>o. ~ Fresh
  BY <1>m DEF Fresh
<1>1. TypeOK'
  BY SMTT(30), <1>n, <1>m, <1>b, <1>t, BlocksFacts DEF TypeOK
<1>2. PermitsConserved'
  BY <1>m, <1>t DEF PermitsConserved
<1>3. Handshake'
  BY <1>m, <1>o DEF Handshake
<1>4. AheadOfTask'
  <2>1. ASSUME NEW i \in DOMAIN blocksQueue'
        PROVE  /\ startBlockNum' <= blocksQueue'[i]
               /\ \A j \in DOMAIN blocksQueue' : i < j => blocksQueue'[i] < blocksQueue'[j]
               /\ node'.next # 0 => blocksQueue'[i] < node'.next
               /\ \A j \in DOMAIN toReader' : toReader'[j] # Abi => blocksQueue'[i] < toReader'[j].num
    <3>1. i + 1 \in DOMAIN blocksQueue /\ blocksQueue'[i] = blocksQueue[i + 1] /\ 1 < i + 1
      BY <1>n, <1>m
    <3>2. blocksQueue[i + 1] \in Nat
      BY <3>1, ElementOfSeq, BlocksFacts, <1>n DEF TypeOK
    <3>3. blocksQueue[1] < blocksQueue[i + 1]
      BY <1>m, <3>1 DEF AheadOfTask
    <3>4. ASSUME NEW j \in DOMAIN blocksQueue', i < j
          PROVE  blocksQueue'[i] < blocksQueue'[j]
      <4>1. j + 1 \in DOMAIN blocksQueue /\ blocksQueue'[j] = blocksQueue[j + 1] /\ i + 1 < j + 1
        BY <1>n, <1>m, <3>4
      <4> QED
        BY <3>1, <4>1 DEF AheadOfTask
    <3> QED
      BY <1>b, <1>m, <3>1, <3>2, <3>3, <3>4 DEF AheadOfTask
  <2>2. ASSUME NEW i \in DOMAIN toReader', toReader'[i] # Abi
        PROVE  startBlockNum' <= toReader'[i].num
    <3>1. blocksQueue[1] < toReader[i].num
      BY <1>m, <2>2 DEF AheadOfTask
    <3>2. toReader[i].num \in Blocks
      BY <1>m, <2>2, ToReaderFacts, ElementOfSeq, LenProperties DEF TypeOK
    <3> QED
      BY <1>b, <1>m, <3>1, <3>2, BlocksFacts
  <2>3. node'.next # 0 => startBlockNum' <= node'.next
    BY <1>b, <1>m, BlocksFacts DEF AheadOfTask, TypeOK, NodeRecord
  <2> QED
    BY <1>m, <2>1, <2>2, <2>3 DEF AheadOfTask
<1>5. BehindTask'
  <2>1. currentBlock < startBlockNum /\ currentBlock \in Int
    BY BlocksFacts DEF BehindTask, TypeOK
  <2>2. ASSUME NEW i \in DOMAIN dsQueue
        PROVE  dsQueue[i] < startBlockNum /\ dsQueue[i] \in Int
    BY <2>2, ElementOfSeq, LenProperties, BlocksFacts DEF BehindTask, TypeOK
  <2> QED
    BY <1>b, <1>m, <1>n, <1>t, <2>1, <2>2 DEF BehindTask
<1> QED
  BY <1>1, <1>2, <1>3, <1>4, <1>5

LEMMA DeserializedInv ==
  ASSUME Inv, Deserialized
  PROVE  Inv'
<1> USE DEF Inv, socketVars, readerVars, receiverVars
<1>t. /\ task' \in TaskRecord /\ task'.num = task.num /\ task'.at = "acquire"
  BY AtStage DEF Deserialized, TypeOK, Stages
<1>1. TypeOK'
  BY <1>t DEF Deserialized, TypeOK
<1>2. PermitsConserved'
  BY <1>t DEF Deserialized, PermitsConserved
<1>3. Handshake'
  BY DEF Deserialized, Handshake, Fresh
<1>4. AheadOfTask'
  BY DEF Deserialized, AheadOfTask
<1>5. BehindTask'
  BY <1>t DEF Deserialized, BehindTask, InTask
<1> QED
  BY <1>1, <1>2, <1>3, <1>4, <1>5

LEMMA DeserializeFailsInv ==
  ASSUME Inv, DeserializeFails
  PROVE  Inv'
<1> USE DEF Inv, socketVars, readerVars, receiverVars
<1>e. /\ <<>> \in Seq(ToReader) /\ <<>> \in Seq(ToNode) /\ <<>> \in Seq(Blocks)
      /\ Len(<<>>) = 0 /\ DOMAIN <<>> = {}
  BY Empty
<1>f. faults + 1 \in 0..MaxFaults
  BY BoundAssumption DEF DeserializeFails, TypeOK
<1>1. TypeOK'
  BY <1>e, <1>f, NoTaskFacts DEF DeserializeFails, TypeOK
<1>2. PermitsConserved'
  BY NoTaskFacts DEF DeserializeFails, PermitsConserved
<1>3. Handshake'
  BY <1>e DEF DeserializeFails, Handshake, Fresh
<1>4. AheadOfTask'
  BY <1>e DEF DeserializeFails, AheadOfTask
<1>5. BehindTask'
  BY NoTaskFacts DEF DeserializeFails, BehindTask, InTask
<1> QED
  BY <1>1, <1>2, <1>3, <1>4, <1>5

LEMMA AcquireInv ==
  ASSUME Inv, Acquire
  PROVE  Inv'
<1> USE DEF Inv, socketVars, readerVars, receiverVars
<1>t. /\ task' \in TaskRecord /\ task'.num = task.num
      /\ task'.at = IF counter < DsQueueSize THEN "prepare" ELSE "waiting"
  <2>1. task \in TaskRecord /\ "prepare" \in Stages /\ "waiting" \in Stages
    BY DEF TypeOK, Stages
  <2>2. CASE counter < DsQueueSize
    <3>1. task' = [task EXCEPT !.at = "prepare"]
      BY <2>2 DEF Acquire
    <3> QED
      BY <2>1, <2>2, <3>1, AtStage
  <2>3. CASE ~ (counter < DsQueueSize)
    <3>1. task' = [task EXCEPT !.at = "waiting"]
      BY <2>3 DEF Acquire
    <3> QED
      BY <2>1, <2>3, <3>1, AtStage
  <2> QED
    BY <2>2, <2>3
<1>1. TypeOK'
  <2>1. counter' \in 0..DsQueueSize /\ waiting' \in BOOLEAN
    <3>1. counter \in 0..DsQueueSize /\ waiting \in BOOLEAN
      BY DEF TypeOK
    <3>2. counter' = counter \/ (counter < DsQueueSize /\ counter' = counter + 1)
      BY DEF Acquire
    <3>3. waiting' = waiting \/ waiting' = TRUE
      BY DEF Acquire
    <3>4. counter' \in 0..DsQueueSize
      BY <3>1, <3>2, BlocksFacts
    <3>5. waiting' \in BOOLEAN
      BY <3>1, <3>3
    <3> QED
      BY <3>4, <3>5
  <2> QED
    BY <1>t, <2>1 DEF Acquire, TypeOK
<1>2. PermitsConserved'
  <2>1. dsQueue' = dsQueue /\ dsPaused' = dsPaused /\ task.at = "acquire"
    BY DEF Acquire
  <2>2. Len(dsQueue) \in Nat /\ counter \in 0..DsQueueSize
    BY LenProperties DEF TypeOK
  <2>3. CASE counter < DsQueueSize
    <3>1. counter' = counter + 1 /\ waiting' = waiting /\ task'.at = "prepare"
      BY <1>t, <2>3 DEF Acquire
    <3> QED
      BY <2>1, <2>2, <2>3, <3>1, BlocksFacts DEF PermitsConserved
  <2>4. CASE ~ (counter < DsQueueSize)
    <3>1. counter' = counter /\ waiting' = TRUE /\ task'.at = "waiting"
      BY <1>t, <2>4 DEF Acquire
    <3> QED
      BY <2>1, <2>2, <2>4, <3>1, BlocksFacts DEF PermitsConserved
  <2> QED
    BY <2>3, <2>4
<1>3. Handshake'
  BY DEF Acquire, Handshake, Fresh
<1>4. AheadOfTask'
  BY DEF Acquire, AheadOfTask
<1>5. BehindTask'
  BY <1>t DEF Acquire, BehindTask, InTask
<1> QED
  BY <1>1, <1>2, <1>3, <1>4, <1>5

LEMMA PrepareInv ==
  ASSUME Inv, Prepare
  PROVE  Inv'
<1> USE DEF Inv, socketVars, readerVars, receiverVars
<1>t. /\ task' \in TaskRecord /\ task'.num = task.num /\ task'.at = "confirm"
  BY AtStage DEF Prepare, TypeOK, Stages
<1>b. task.num \in Blocks /\ currentBlock < task.num /\ task.num < startBlockNum
     /\ \A i \in DOMAIN dsQueue : dsQueue[i] < task.num
  BY DEF Prepare, BehindTask, InTask
<1>a. /\ Len(dsQueue) \in Nat /\ DOMAIN dsQueue = 1..Len(dsQueue)
      /\ Append(dsQueue, task.num) \in Seq(Blocks) /\ Len(Append(dsQueue, task.num)) = Len(dsQueue) + 1
      /\ DOMAIN Append(dsQueue, task.num) = 1..(Len(dsQueue) + 1)
      /\ \A i \in DOMAIN dsQueue : Append(dsQueue, task.num)[i] = dsQueue[i]
      /\ Append(dsQueue, task.num)[Len(dsQueue) + 1] = task.num
  BY AppendTo, <1>b DEF TypeOK
<1>1. TypeOK'
  BY <1>t, <1>a DEF Prepare, TypeOK
<1>2. PermitsConserved'
  BY <1>t, <1>a, BlocksFacts DEF Prepare, PermitsConserved
<1>3. Handshake'
  BY DEF Prepare, Handshake, Fresh
<1>4. AheadOfTask'
  BY DEF Prepare, AheadOfTask
<1>5. BehindTask'
  <2>1. /\ dsQueue' = Append(dsQueue, task.num) /\ currentBlock' = currentBlock
        /\ startBlockNum' = startBlockNum
    BY DEF Prepare
  <2>2. ASSUME NEW i \in DOMAIN dsQueue'
        PROVE  /\ currentBlock < dsQueue'[i] /\ dsQueue'[i] < startBlockNum
               /\ \A j \in DOMAIN dsQueue' : i < j => dsQueue'[i] < dsQueue'[j]
    <3>1. CASE i \in DOMAIN dsQueue
      BY <1>a, <1>b, <2>1, <3>1 DEF BehindTask
    <3>2. CASE i = Len(dsQueue) + 1
      BY <1>a, <1>b, <2>1, <3>2
    <3> QED
      BY <1>a, <2>1, <3>1, <3>2
  <2> QED
    BY <1>t, <2>1, <2>2 DEF BehindTask, InTask
<1> QED
  BY <1>1, <1>2, <1>3, <1>4, <1>5

LEMMA ConfirmBlockInv ==
  ASSUME Inv, ConfirmBlock
  PROVE  Inv'
<1> USE DEF Inv, socketVars, readerVars, receiverVars
<1>t. /\ unconfirmed + 1 \in 1..Confirm /\ toNode' \in Seq(ToNode)
      /\ unconfirmed' \in 0..(Confirm - 1) /\ crashed' \in BOOLEAN
  <2>1. unconfirmed + 1 \in 1..Confirm
    BY BlocksFacts DEF TypeOK
  <2>2. Append(toNode, Ack(unconfirmed + 1)) \in Seq(ToNode)
    BY <2>1, NodeMessage, AppendTo DEF TypeOK
  <2>3. unconfirmed + 1 < Confirm => unconfirmed + 1 \in 0..(Confirm - 1)
    BY <2>1, BlocksFacts
  <2>4. 0 \in 0..(Confirm - 1)
    BY BlocksFacts
  <2>5. /\ toNode \in Seq(ToNode) /\ unconfirmed \in 0..(Confirm - 1) /\ crashed \in BOOLEAN
        /\ ~ (unconfirmed + 1 >= Confirm) => unconfirmed + 1 < Confirm
    BY <2>1, BlocksFacts DEF TypeOK
  <2> QED
    BY <2>1, <2>2, <2>3, <2>4, <2>5 DEF ConfirmBlock, ConfirmDue
<1>m. /\ toReader' = toReader /\ node' = node /\ blocksQueue' = blocksQueue /\ ws' = ws
      /\ startBlockNum' = startBlockNum
      /\ task' = NoTask /\ task.at = "confirm"
  BY DEF ConfirmBlock
<1>a. \/ toNode' = toNode
     \/ /\ toNode' = Append(toNode, Ack(unconfirmed + 1)) /\ ws = "open"
        /\ DOMAIN toNode = 1..Len(toNode) /\ Len(toNode) \in Nat
        /\ DOMAIN toNode' = 1..(Len(toNode) + 1)
        /\ \A i \in DOMAIN toNode : toNode'[i] = toNode[i]
        /\ toNode'[Len(toNode) + 1].type # "get_blocks_request"
  <2>1. /\ Ack(unconfirmed + 1) \in ToNode /\ Ack(unconfirmed + 1).type # "get_blocks_request"
        /\ toNode \in Seq(ToNode)
    BY <1>t, NodeMessage DEF TypeOK
  <2> DEFINE s == Append(toNode, Ack(unconfirmed + 1))
  <2>2. /\ Len(toNode) \in Nat /\ DOMAIN toNode = 1..Len(toNode)
        /\ DOMAIN s = 1..(Len(toNode) + 1)
        /\ \A i \in DOMAIN toNode : s[i] = toNode[i]
        /\ s[Len(toNode) + 1] = Ack(unconfirmed + 1)
    BY <2>1, AppendTo
  <2>3. toNode' = toNode \/ (toNode' = s /\ ws = "open")
    BY DEF ConfirmBlock
  <2> HIDE DEF s
  <2>4. CASE toNode' = toNode
    BY <2>4
  <2>5. CASE toNode' = s /\ ws = "open"
    BY <2>1, <2>2, <2>5 DEF s
  <2> QED
    BY <2>3, <2>4, <2>5
<1>1. TypeOK'
  BY <1>t, NoTaskFacts DEF ConfirmBlock, TypeOK
<1>2. PermitsConserved'
  BY NoTaskFacts DEF ConfirmBlock, PermitsConserved
<1>3. Handshake'
  <2>1. ws = "open" => ws \notin {"none", "connecting"}
    OBVIOUS
  <2>2. ASSUME NEW i \in DOMAIN toNode', toNode'[i].type = "get_blocks_request"
        PROVE  i \in DOMAIN toNode /\ toNode[i].type = "get_blocks_request" /\ toNode[i] = toNode'[i]
    BY <1>a, <2>2
  <2>3. ws' \in {"none", "connecting"} => toReader' = <<>> /\ toNode' = <<>> /\ Fresh'
    BY <1>a, <1>m, <2>1 DEF Handshake, Fresh
  <2>4. Fresh' <=> Fresh
    BY <1>m DEF Fresh
  <2> QED
    BY <1>m, <2>2, <2>3, <2>4 DEF Handshake
<1>4. AheadOfTask'
  BY <1>m DEF ConfirmBlock, AheadOfTask
<1>5. BehindTask'
  BY <1>m, NoTaskFacts DEF ConfirmBlock, BehindTask, InTask
<1> QED
  BY <1>1, <1>2, <1>3, <1>4, <1>5

LEMMA ProcessInv ==
  ASSUME Inv, Process
  PROVE  Inv'
<1> USE DEF Inv, socketVars, readerVars, receiverVars
<1>n. /\ Len(dsQueue) \in Nat \ {0} /\ DOMAIN dsQueue = 1..Len(dsQueue)
      /\ Head(dsQueue) = dsQueue[1] /\ dsQueue[1] \in Blocks
      /\ Tail(dsQueue) \in Seq(Blocks) /\ Len(Tail(dsQueue)) = Len(dsQueue) - 1
      /\ DOMAIN Tail(dsQueue) = 1..(Len(dsQueue) - 1)
      /\ \A i \in DOMAIN Tail(dsQueue) : i + 1 \in DOMAIN dsQueue /\ Tail(dsQueue)[i] = dsQueue[i + 1]
  BY TailOf DEF TypeOK, Process
<1>m. /\ dsQueue' = Tail(dsQueue) /\ currentBlock' = dsQueue[1] /\ 1 \in DOMAIN dsQueue
      /\ startBlockNum' = startBlockNum
  BY <1>n DEF Process
<1>t. /\ task' \in TaskRecord /\ task'.num = task.num
      /\ task'.at = IF waiting THEN "prepare" ELSE task.at
  <2>1. task \in TaskRecord /\ "prepare" \in Stages
    BY DEF TypeOK, Stages
  <2>2. CASE waiting
    <3>1. task' = [task EXCEPT !.at = "prepare"]
      BY <2>2 DEF Process
    <3> QED
      BY <2>1, <2>2, <3>1, AtStage
  <2>3. CASE ~ waiting
    BY <2>1, <2>3 DEF Process
  <2> QED
    BY <2>2, <2>3
<1>1. TypeOK'
  <2>1. counter' \in 0..DsQueueSize
    <3>1. counter \in 0..DsQueueSize /\ Len(dsQueue) <= counter /\ ~ dsPaused
      BY <1>n, BlocksFacts DEF Process, TypeOK, PermitsConserved
    <3>2. counter' = counter \/ counter' = counter - 1
      BY DEF Process
    <3> QED
      BY <1>n, <3>1, <3>2, BlocksFacts
  <2>2. currentBlock' \in (StartBlock - 1)..MaxBlock /\ waiting' \in BOOLEAN
    <3>1. dsQueue[1] \in StartBlock..MaxBlock /\ waiting \in BOOLEAN
      BY <1>n, BlocksFacts DEF TypeOK
    <3>2. waiting' = waiting \/ waiting' = FALSE
      BY DEF Process
    <3>3. currentBlock' \in (StartBlock - 1)..MaxBlock
      BY <1>m, <3>1, BlocksFacts
    <3>4. waiting' \in BOOLEAN
      BY <3>1, <3>2
    <3> QED
      BY <3>3, <3>4
  <2> QED
    BY <1>n, <1>m, <1>t, <2>1, <2>2 DEF Process, TypeOK
<1>2. PermitsConserved'
  BY <1>n, <1>t, BlocksFacts DEF Process, PermitsConserved
<1>3. Handshake'
  BY DEF Process, Handshake, Fresh
<1>4. AheadOfTask'
  BY DEF Process, AheadOfTask
<1>5. BehindTask'
  <2>1. ASSUME NEW i \in DOMAIN dsQueue'
        PROVE  /\ dsQueue[1] < dsQueue'[i] /\ dsQueue'[i] < startBlockNum
               /\ \A j \in DOMAIN dsQueue' : i < j => dsQueue'[i] < dsQueue'[j]
               /\ InTask => dsQueue'[i] < task.num
    <3>1. i + 1 \in DOMAIN dsQueue /\ dsQueue'[i] = dsQueue[i + 1] /\ 1 < i + 1
      BY <1>n, <1>m
    <3>2. ASSUME NEW j \in DOMAIN dsQueue', i < j
          PROVE  j + 1 \in DOMAIN dsQueue /\ dsQueue'[j] = dsQueue[j + 1] /\ i + 1 < j + 1
      BY <1>n, <1>m, <3>2
    <3> QED
      BY <1>m, <3>1, <3>2 DEF BehindTask
  <2>2. InTask' => InTask
    BY <1>t DEF InTask, PermitsConserved
  <2>3. dsQueue[1] < startBlockNum /\ (InTask => dsQueue[1] < task.num)
    BY <1>m DEF BehindTask
  <2>4. InTask => task.num \in Blocks /\ task.num < startBlockNum
    BY DEF BehindTask
  <2> QED
    BY <1>m, <1>t, <2>1, <2>2, <2>3, <2>4 DEF BehindTask
<1> QED
  BY <1>1, <1>2, <1>3, <1>4, <1>5

LEMMA ProcessThrowsInv ==
  ASSUME Inv, ProcessThrows
  PROVE  Inv'
<1> USE DEF Inv, socketVars, readerVars, receiverVars
<1>e. /\ <<>> \in Seq(ToReader) /\ <<>> \in Seq(ToNode) /\ <<>> \in Seq(Blocks)
      /\ Len(<<>>) = 0 /\ DOMAIN <<>> = {}
  BY Empty
<1>1. TypeOK'
  BY <1>e DEF ProcessThrows, TypeOK
<1>2. PermitsConserved'
  BY <1>e, LenProperties, BlocksFacts DEF ProcessThrows, PermitsConserved
<1>3. Handshake'
  BY DEF ProcessThrows, Handshake, Fresh
<1>4. AheadOfTask'
  BY DEF ProcessThrows, AheadOfTask
<1>5. BehindTask'
  BY <1>e DEF ProcessThrows, BehindTask, InTask
<1> QED
  BY <1>1, <1>2, <1>3, <1>4, <1>5

LEMMA StutterInv ==
  ASSUME Inv, UNCHANGED vars
  PROVE  Inv'
BY DEF vars, socketVars, readerVars, receiverVars, Inv, TypeOK, PermitsConserved,
       Handshake, Fresh, AheadOfTask, BehindTask, InTask

LEMMA NextInv ==
  ASSUME Inv, [Next]_vars
  PROVE  Inv'
<1>1. CASE Accept
  BY <1>1, AcceptInv
<1>2. CASE NodeReceives
  BY <1>2, NodeReceivesInv
<1>3. CASE NodeSends
  BY <1>3, NodeSendsInv
<1>4. CASE Connect
  BY <1>4, ConnectInv
<1>5. CASE OnAbi
  BY <1>5, OnAbiInv
<1>6. CASE OnBlock
  BY <1>6, OnBlockInv
<1>7. CASE OnIncompleteBlock
  BY <1>7, OnIncompleteBlockInv
<1>8. CASE OnBadMessage
  BY <1>8, OnBadMessageInv
<1>9. CASE CloseCompletes
  BY <1>9, CloseCompletesInv
<1>10. CASE ConnectionLost
  BY <1>10, ConnectionLostInv
<1>11. CASE StartTask
  BY <1>11, StartTaskInv
<1>12. CASE Deserialized
  BY <1>12, DeserializedInv
<1>13. CASE DeserializeFails
  BY <1>13, DeserializeFailsInv
<1>14. CASE Acquire
  BY <1>14, AcquireInv
<1>15. CASE Prepare
  BY <1>15, PrepareInv
<1>16. CASE ConfirmBlock
  BY <1>16, ConfirmBlockInv
<1>17. CASE Process
  BY <1>17, ProcessInv
<1>18. CASE ProcessThrows
  BY <1>18, ProcessThrowsInv
<1>19. CASE UNCHANGED vars
  BY <1>19, StutterInv
<1> QED
  BY <1>1, <1>2, <1>3, <1>4, <1>5, <1>6, <1>7, <1>8, <1>9,
      <1>10, <1>11, <1>12, <1>13, <1>14, <1>15, <1>16, <1>17, <1>18, <1>19
  DEF Next, Node, Socket, Task, Queue, Fault

-----------------------------------------------------------------------------
(* Theorems *)

(* Every reachable state has the blocks in order from the node to dsQueue, *)
(* across lost connections, incomplete and unreadable messages.            *)
THEOREM Invariance == Spec => []Inv
<1>1. Init => Inv
  BY InitInv
<1>2. Inv /\ [Next]_vars => Inv'
  BY NextInv
<1>3. QED
  BY <1>1, <1>2, PTL DEF Spec

(* The types of the socket, the queues and the task. *)
THEOREM TypeCorrect == Spec => []TypeOK
<1>1. Inv => TypeOK
  BY DEF Inv
<1>2. QED
  BY <1>1, Invariance, PTL

(* dsLock loses no permit and gives out none too many. *)
THEOREM PermitsConservedTheorem == Spec => []PermitsConserved
<1>1. Inv => PermitsConserved
  BY DEF Inv
<1>2. QED
  BY <1>1, Invariance, PTL

(* Blocks are processed in order, none left out and none twice. *)
THEOREM ProcessedInOrderTheorem == Spec => ProcessedInOrder
<1>1. Inv /\ [Next]_vars => [currentBlock' # currentBlock => currentBlock' = currentBlock + 1]_vars
  <2> SUFFICES ASSUME Inv, Next, currentBlock' # currentBlock
               PROVE  currentBlock' = currentBlock + 1
    BY DEF vars
  <2>1. Process
    BY DEF Next, Node, Socket, Task, Queue, Fault, Accept, NodeReceives, NodeSends,
           Connect, OnAbi, OnBlock, OnIncompleteBlock, OnBadMessage, CloseCompletes,
           ConnectionLost, Closed, StartTask, Deserialized, DeserializeFails, Acquire,
           Prepare, ConfirmBlock, ProcessThrows, receiverVars
  <2>2. dsQueue \in Seq(Blocks) /\ dsQueue # <<>> /\ currentBlock \in Int
    BY <2>1, ConfigAssumption, BoundAssumption DEF Inv, TypeOK, Process
  <2>3. Head(dsQueue) = dsQueue[1] /\ 1 \in DOMAIN dsQueue /\ dsQueue[1] \in Blocks
    BY <2>2, TailOf
  <2>4. currentBlock < dsQueue[1]
    BY <2>3 DEF Inv, BehindTask
  <2>5. dsQueue[1] <= currentBlock + 1 /\ currentBlock' = dsQueue[1]
    BY <2>1, <2>2, <2>3, ConfigAssumption, BoundAssumption DEF Process, Skipped, Blocks
  <2> QED
    BY <2>2, <2>3, <2>4, <2>5, ConfigAssumption, BoundAssumption DEF Blocks
<1>2. QED
  BY <1>1, Invariance, PTL DEF Spec, ProcessedInOrder

-----------------------------------------------------------------------------
(* The bound on the blocks in memory.  The credit the node will have when  *)
(* it has read the messages on their way is a function of their positions, *)
(* in place of a sum over them: what it will have at the end, the blocks   *)
(* it has sent and the blocks that wait to be acknowledged are the         *)
(* prefetch, plus the task a lost connection left behind.                  *)

(* Without the types of a handshake nothing of a connection is there. *)
TypesInv ==
  /\ ws \in {"none", "connecting"} => ~ types
  /\ types => \A i \in DOMAIN toReader : toReader[i] # Abi
  /\ ~ types => Fresh /\ toNode = <<>> /\ node.credit = 0

(* f[i] is the credit of a node that has c and reads i messages of q. *)
Credit(f, q, c) ==
  /\ f \in [0..Len(q) -> Nat]
  /\ f[0] = c
  /\ \A i \in 1..Len(q) :
       f[i] = IF q[i].type = "get_blocks_request" THEN Prefetch ELSE f[i - 1] + q[i].num
  /\ \A i, j \in 0..Len(q) : i <= j => f[i] <= f[j]

(* The blocks sent and not confirmed: the block of every task counts. *)
OnTheWay == IF types THEN Len(toReader) ELSE 0
Running  == IF task.at = "none" THEN 0 ELSE 1
Held     == OnTheWay + Len(blocksQueue) + Running

CreditInv ==
  \E f : /\ Credit(f, toNode, node.credit)
         /\ f[Len(toNode)] + unconfirmed + Held <= Prefetch + 1

LEMMA CreditEmpty ==
  ASSUME NEW c \in Nat
  PROVE  \E g : Credit(g, <<>>, c) /\ g[Len(<<>>)] = c
<1> DEFINE g == [i \in 0..0 |-> c]
<1>1. Len(<<>>) = 0
  BY Empty
<1>2. g \in [0..0 -> Nat] /\ g[0] = c
  OBVIOUS
<1>3. Credit(g, <<>>, c)
  <2>1. \A i \in 1..0 : FALSE
    BY SMT
  <2>2. \A i, j \in 0..0 : i = 0 /\ j = 0
    BY SMT
  <2>3. \A i, j \in 0..0 : g[i] <= g[j]
    BY <1>2, <2>2
  <2> HIDE DEF g
  <2> QED
    BY <1>1, <1>2, <2>1, <2>3 DEF Credit
<1> HIDE DEF g
<1> QED
  BY <1>1, <1>2, <1>3

LEMMA CreditAppend ==
  ASSUME NEW q \in Seq(ToNode), NEW m \in ToNode, NEW c, NEW f, Credit(f, q, c),
         m.type = "get_blocks_request" => f[Len(q)] <= Prefetch
  PROVE  \E g : /\ Credit(g, Append(q, m), c)
                /\ g[Len(Append(q, m))]
                   = IF m.type = "get_blocks_request" THEN Prefetch ELSE f[Len(q)] + m.num
<1> DEFINE n == Len(q)
           v == IF m.type = "get_blocks_request" THEN Prefetch ELSE f[n] + m.num
           r == Append(q, m)
           g == [i \in 0..(n + 1) |-> IF i = n + 1 THEN v ELSE f[i]]
<1>1. /\ n \in Nat /\ Len(r) = n + 1
      /\ \A i \in 1..n : r[i] = q[i]
      /\ r[n + 1] = m
  BY AppendTo
<1>2. /\ f \in [0..n -> Nat] /\ f[0] = c
      /\ \A i \in 1..n :
           f[i] = IF q[i].type = "get_blocks_request" THEN Prefetch ELSE f[i - 1] + q[i].num
      /\ \A i, j \in 0..n : i <= j => f[i] <= f[j]
  BY DEF Credit
<1>3. n \in 0..n /\ f[n] \in Nat
  BY <1>1, <1>2
<1>4. v \in Nat /\ f[n] <= v
  <2>1. CASE m.type = "get_blocks_request"
    BY <2>1, <1>3, BlocksFacts
  <2>2. CASE m.type # "get_blocks_request"
    BY <2>2, <1>3, ToNodeFacts, BlocksFacts
  <2> QED
    BY <2>1, <2>2
<1> HIDE DEF v, r, n
<1>5. /\ \A i \in 0..n : g[i] = f[i] /\ i \in 0..(n + 1)
      /\ g[n + 1] = v /\ n + 1 \in 0..(n + 1)
      /\ 0 \in 0..n
  BY <1>1
<1>6. g \in [0..(n + 1) -> Nat]
  BY <1>1, <1>2, <1>4
<1> HIDE DEF g
<1>7. ASSUME NEW i \in 1..(n + 1)
      PROVE  g[i] = IF r[i].type = "get_blocks_request" THEN Prefetch ELSE g[i - 1] + r[i].num
  <2>1. CASE i = n + 1
    <3>1. g[i - 1] = f[n] /\ g[i] = v /\ r[i] = m
      BY <1>1, <1>3, <1>5, <2>1
    <3> QED
      BY <3>1 DEF v
  <2>2. CASE i \in 1..n
    <3>1. i \in 0..n /\ i - 1 \in 0..n
      BY <1>1, <2>2
    <3>2. g[i] = f[i] /\ g[i - 1] = f[i - 1] /\ r[i] = q[i]
      BY <1>1, <1>5, <2>2, <3>1
    <3> QED
      BY <1>2, <2>2, <3>2
  <2> QED
    BY <1>1, <2>1, <2>2
<1>8. ASSUME NEW i \in 0..(n + 1), NEW j \in 0..(n + 1), i <= j
      PROVE  g[i] <= g[j]
  <2>1. CASE j \in 0..n
    <3>1. i \in 0..n
      BY <1>1, <1>8, <2>1
    <3> QED
      BY <1>2, <1>5, <1>8, <2>1, <3>1
  <2>2. CASE j = n + 1 /\ i \in 0..n
    <3>1. f[i] <= f[n] /\ f[i] \in Nat
      BY <1>1, <1>2, <1>3, <2>2
    <3> QED
      BY <1>3, <1>4, <1>5, <2>2, <3>1
  <2>3. CASE j = n + 1 /\ i = n + 1
    BY <1>4, <1>5, <2>3
  <2> QED
    BY <1>1, <1>8, <2>1, <2>2, <2>3
<1>9. Credit(g, r, c)
  BY <1>1, <1>2, <1>5, <1>6, <1>7, <1>8 DEF Credit
<1>10. g[Len(r)] = v
  BY <1>1, <1>5
<1> QED
  BY <1>9, <1>10 DEF v, r, n

LEMMA CreditTail ==
  ASSUME NEW q \in Seq(ToNode), q # <<>>, NEW c, NEW f, Credit(f, q, c)
  PROVE  \E g : Credit(g, Tail(q), f[1]) /\ g[Len(Tail(q))] = f[Len(q)]
<1> DEFINE n == Len(q)
           r == Tail(q)
           g == [i \in 0..(n - 1) |-> f[i + 1]]
<1>1. /\ n \in Nat \ {0} /\ Len(r) = n - 1
      /\ \A i \in 1..(n - 1) : r[i] = q[i + 1]
  BY TailOf
<1>2. /\ f \in [0..n -> Nat]
      /\ \A i \in 1..n :
           f[i] = IF q[i].type = "get_blocks_request" THEN Prefetch ELSE f[i - 1] + q[i].num
      /\ \A i, j \in 0..n : i <= j => f[i] <= f[j]
  BY DEF Credit
<1> HIDE DEF r, n
<1>3. \A i \in 0..(n - 1) : g[i] = f[i + 1] /\ i + 1 \in 1..n /\ i + 1 \in 0..n /\ i \in 0..n
  BY <1>1
<1>4. g \in [0..(n - 1) -> Nat] /\ 0 \in 0..(n - 1) /\ n - 1 \in 0..(n - 1)
  BY <1>1, <1>2
<1> HIDE DEF g
<1>5. g[0] = f[1] /\ g[n - 1] = f[n]
  BY <1>1, <1>3, <1>4
<1>6. ASSUME NEW i \in 1..(n - 1)
      PROVE  g[i] = IF r[i].type = "get_blocks_request" THEN Prefetch ELSE g[i - 1] + r[i].num
  <2>1. i \in 0..(n - 1) /\ i - 1 \in 0..(n - 1) /\ i + 1 \in 1..n /\ (i - 1) + 1 = i /\ (i + 1) - 1 = i
    BY <1>1
  <2>2. g[i] = f[i + 1] /\ g[i - 1] = f[i] /\ r[i] = q[i + 1]
    BY <1>1, <1>3, <2>1
  <2>3. f[i + 1] = IF q[i + 1].type = "get_blocks_request" THEN Prefetch ELSE f[i] + q[i + 1].num
    BY <1>2, <2>1
  <2> QED
    BY <2>2, <2>3
<1>7. ASSUME NEW i \in 0..(n - 1), NEW j \in 0..(n - 1), i <= j
      PROVE  g[i] <= g[j]
  <2>1. i + 1 \in 0..n /\ j + 1 \in 0..n /\ i + 1 <= j + 1
    BY <1>1, <1>7
  <2> QED
    BY <1>2, <1>3, <2>1
<1>8. Credit(g, r, f[1])
  BY <1>1, <1>4, <1>5, <1>6, <1>7 DEF Credit
<1> QED
  BY <1>1, <1>5, <1>8 DEF r, n

LEMMA CreditLess ==
  ASSUME NEW q \in Seq(ToNode), NEW c \in Nat \ {0}, NEW f, Credit(f, q, c),
         \A i \in DOMAIN q : q[i].type # "get_blocks_request"
  PROVE  \E g : Credit(g, q, c - 1) /\ g[Len(q)] = f[Len(q)] - 1
<1> DEFINE n == Len(q)
           g == [i \in 0..n |-> f[i] - 1]
<1>1. n \in Nat /\ DOMAIN q = 1..n
  BY LenProperties
<1>2. /\ f \in [0..n -> Nat] /\ f[0] = c
      /\ \A i \in 1..n :
           f[i] = IF q[i].type = "get_blocks_request" THEN Prefetch ELSE f[i - 1] + q[i].num
      /\ \A i, j \in 0..n : i <= j => f[i] <= f[j]
  BY DEF Credit
<1> HIDE DEF n
<1>3. \A i \in 0..n : f[i] \in Nat /\ 1 <= f[i]
  BY <1>1, <1>2
<1>4. \A i \in 0..n : g[i] = f[i] - 1
  OBVIOUS
<1>5. g \in [0..n -> Nat] /\ 0 \in 0..n /\ n \in 0..n
  BY <1>1, <1>3
<1> HIDE DEF g
<1>6. ASSUME NEW i \in 1..n
      PROVE  g[i] = IF q[i].type = "get_blocks_request" THEN Prefetch ELSE g[i - 1] + q[i].num
  <2>1. i \in 0..n /\ i - 1 \in 0..n
    BY <1>1
  <2>2. q[i].type # "get_blocks_request" /\ f[i] = f[i - 1] + q[i].num
    BY <1>1, <1>2
  <2>3. q[i].num \in Nat
    BY <1>1, <2>2, ElementOfSeq, ToNodeFacts, BlocksFacts
  <2>4. g[i] = f[i] - 1 /\ g[i - 1] = f[i - 1] - 1 /\ f[i - 1] \in Nat
    BY <1>3, <1>4, <2>1
  <2> QED
    BY <2>2, <2>3, <2>4
<1>7. ASSUME NEW i \in 0..n, NEW j \in 0..n, i <= j
      PROVE  g[i] <= g[j]
  BY <1>2, <1>3, <1>4, <1>7
<1>8. g[0] = c - 1 /\ g[n] = f[n] - 1
  BY <1>2, <1>4, <1>5
<1>9. Credit(g, q, c - 1)
  BY <1>5, <1>6, <1>7, <1>8 DEF Credit, n
<1> QED
  BY <1>8, <1>9 DEF n

(* Lengths of the queues, and the credit is a number. *)
LEMMA CountFacts ==
  ASSUME TypeOK
  PROVE  /\ Len(toReader) \in Nat /\ Len(blocksQueue) \in Nat /\ Len(toNode) \in Nat
         /\ unconfirmed \in Nat /\ unconfirmed <= Confirm - 1 /\ Held \in Nat
<1>1. Len(toReader) \in Nat /\ Len(blocksQueue) \in Nat /\ Len(toNode) \in Nat
  BY LenProperties DEF TypeOK
<1>2. unconfirmed \in Nat /\ unconfirmed <= Confirm - 1
  BY BlocksFacts DEF TypeOK
<1>3. OnTheWay \in Nat /\ Running \in Nat
  BY <1>1 DEF OnTheWay, Running
<1>4. Held \in Nat
  BY <1>1, <1>3 DEF Held
<1> QED
  BY <1>1, <1>2, <1>4

LEMMA Sums ==
  \A k, u, h, v, g, p \in Nat :
    k + u + h <= p + 1 /\ v + g <= u + h => k + v + g <= p + 1
OBVIOUS

LEMMA SumsUp ==
  \A u, h, v, g \in Nat : v <= u /\ g <= h => v + g <= u + h
OBVIOUS

LEMMA CreditAtEnd ==
  ASSUME NEW q \in Seq(ToNode), NEW c, NEW f, Credit(f, q, c)
  PROVE  f[Len(q)] \in Nat /\ f[0] = c
BY LenProperties DEF Credit

(* A step that leaves the messages to the node and its credit alone. *)
LEMMA CreditKept ==
  ASSUME TypeOK, TypeOK', CreditInv, toNode' = toNode, node'.credit = node.credit,
         unconfirmed' + Held' <= unconfirmed + Held
  PROVE  CreditInv'
<1>1. PICK f : /\ Credit(f, toNode, node.credit)
               /\ f[Len(toNode)] + unconfirmed + Held <= Prefetch + 1
  BY DEF CreditInv
<1>2. f[Len(toNode)] \in Nat
  BY <1>1, CreditAtEnd DEF TypeOK
<1>3. f[Len(toNode)] + unconfirmed' + Held' <= Prefetch + 1
  <2>1. unconfirmed \in Nat /\ Held \in Nat
    BY CountFacts
  <2>2. unconfirmed' \in Nat /\ Held' \in Nat
    <3>1. Len(toReader') \in Nat /\ Len(blocksQueue') \in Nat
      BY LenProperties DEF TypeOK
    <3>2. unconfirmed' \in Nat
      BY BlocksFacts DEF TypeOK
    <3>3. OnTheWay' \in Nat /\ Running' \in Nat
      BY <3>1 DEF OnTheWay, Running
    <3> QED
      BY <3>1, <3>2, <3>3 DEF Held
  <2>3. unconfirmed' + Held' <= unconfirmed + Held /\ Prefetch \in Nat
    BY BlocksFacts
  <2> DEFINE k == f[Len(toNode)]
  <2>4. k \in Nat /\ k + unconfirmed + Held <= Prefetch + 1
    BY <1>1, <1>2
  <2> HIDE DEF k
  <2>5. k + unconfirmed' + Held' <= Prefetch + 1
    BY <2>1, <2>2, <2>3, <2>4, Sums
  <2> QED
    BY <2>5 DEF k
<1> QED
  BY <1>1, <1>3 DEF CreditInv

(* The messages to the reader that are blocks: all of them after the       *)
(* handshake, none before it.                                              *)
LEMMA BlocksSent ==
  ASSUME TypeOK, TypesInv
  PROVE  Cardinality({i \in DOMAIN toReader : toReader[i] # Abi}) = OnTheWay
<1>1. DOMAIN toReader = 1..Len(toReader) /\ Len(toReader) \in Nat
  BY LenProperties DEF TypeOK
<1>2. CASE types
  <2>1. {i \in DOMAIN toReader : toReader[i] # Abi} = 1..Len(toReader)
    BY <1>1, <1>2 DEF TypesInv
  <2>2. Cardinality(1..Len(toReader)) = Len(toReader)
    <3> DEFINE n == Len(toReader)
    <3>1. n \in Nat
      BY <1>1
    <3> HIDE DEF n
    <3>2. Cardinality(1..n) = IF 1 > n THEN 0 ELSE n - 1 + 1
      BY <3>1, FS_Interval
    <3>3. Cardinality(1..n) = n
      BY <3>1, <3>2
    <3> QED
      BY <3>3 DEF n
  <2> QED
    BY <1>2, <2>1, <2>2 DEF OnTheWay
<1>3. CASE ~ types
  <2>1. {i \in DOMAIN toReader : toReader[i] # Abi} = {}
    BY <1>3 DEF TypesInv, Fresh
  <2> QED
    BY <1>3, <2>1, FS_EmptySet DEF OnTheWay
<1> QED
  BY <1>2, <1>3

LEMMA NodeCredit ==
  ASSUME TypesInv, CreditInv, Inv, Accept \/ NodeReceives \/ NodeSends, TypeOK'
  PROVE  TypesInv' /\ CreditInv'
<1> USE DEF Inv
<1>t. /\ types' = types /\ blocksQueue' = blocksQueue /\ task' = task
      /\ unconfirmed' = unconfirmed
  BY DEF Accept, NodeReceives, NodeSends, readerVars
<1>c. /\ Len(toReader) \in Nat /\ Len(blocksQueue) \in Nat /\ Len(toNode) \in Nat
      /\ unconfirmed \in Nat /\ Held \in Nat
  BY CountFacts
<1>p. PICK f : /\ Credit(f, toNode, node.credit)
               /\ f[Len(toNode)] + unconfirmed + Held <= Prefetch + 1
  BY DEF CreditInv
<1>e. f[Len(toNode)] \in Nat /\ f[0] = node.credit /\ toNode \in Seq(ToNode)
  BY <1>p, CreditAtEnd DEF TypeOK
<1>1. CASE Accept
  <2>1. /\ ws = "connecting" /\ ws' = "open" /\ toReader' = <<Abi>> /\ toNode' = toNode
        /\ node' = node
    BY <1>1 DEF Accept
  <2>2. ~ types
    BY <2>1 DEF TypesInv
  <2>3. DOMAIN <<Abi>> = {1} /\ <<Abi>>[1] = Abi
    OBVIOUS
  <2>4. TypesInv'
    BY <1>t, <2>1, <2>2, <2>3 DEF TypesInv, Fresh
  <2>5. Held' = Held
    BY <1>t, <2>2 DEF Held, OnTheWay, Running
  <2>6. CreditInv'
    <3>1. unconfirmed' + Held' <= unconfirmed + Held
      BY <1>c, <1>t, <2>5
    <3> QED
      BY <2>1, <3>1, CreditKept
  <2> QED
    BY <2>4, <2>6
<1>2. CASE NodeReceives
  <2>1. /\ ws' = ws /\ toReader' = toReader /\ toNode # <<>> /\ toNode' = Tail(toNode)
    BY <1>2 DEF NodeReceives
  <2>2. types
    BY <2>1 DEF TypesInv
  <2>3. TypesInv'
    BY <1>t, <2>1, <2>2 DEF TypesInv
  <2>4. PICK g : Credit(g, Tail(toNode), f[1]) /\ g[Len(Tail(toNode))] = f[Len(toNode)]
    BY <1>p, <1>e, <2>1, CreditTail
  <2>5. Head(toNode) = toNode[1] /\ 1 \in 1..Len(toNode)
    BY <1>e, <2>1, TailOf
  <2>6. node'.credit = f[1]
    <3>1. f[1] = IF toNode[1].type = "get_blocks_request" THEN Prefetch
                 ELSE f[1 - 1] + toNode[1].num
      BY <1>p, <2>5 DEF Credit
    <3>2. f[1 - 1] = node.credit
      BY <1>e
    <3>3. node \in NodeRecord
      BY DEF TypeOK
    <3>4. CASE toNode[1].type = "get_blocks_request"
      <4>1. node' = [next |-> toNode[1].num, credit |-> Prefetch]
        BY <1>2, <2>5, <3>4 DEF NodeReceives
      <4> QED
        BY <3>1, <3>4, <4>1
    <3>5. CASE toNode[1].type # "get_blocks_request"
      <4>1. node' = [node EXCEPT !.credit = @ + toNode[1].num]
        BY <1>2, <2>5, <3>5 DEF NodeReceives
      <4>2. node'.credit = node.credit + toNode[1].num
        BY <3>3, <4>1 DEF NodeRecord
      <4> QED
        BY <3>1, <3>2, <3>5, <4>2
    <3> QED
      BY <3>4, <3>5
  <2>7. Held' = Held
    BY <1>t, <2>1 DEF Held, OnTheWay, Running
  <2>8. CreditInv'
    BY <1>p, <1>t, <2>1, <2>4, <2>6, <2>7 DEF CreditInv
  <2> QED
    BY <2>3, <2>8
<1>3. CASE NodeSends
  <2>1. /\ ws' = ws /\ toNode' = toNode /\ node.next \in Blocks /\ node.credit > 0
        /\ toReader' = Append(toReader, Block(node.next))
        /\ node'.credit = node.credit - 1
    BY <1>3 DEF NodeSends
  <2>2. Block(node.next) \in ToReader /\ Block(node.next) # Abi /\ node.next # 0
    BY <2>1, BlockMessage, BlocksFacts
  <2>3. types
    BY <2>2 DEF TypesInv, Fresh
  <2>4. /\ DOMAIN toReader = 1..Len(toReader) /\ Len(toReader') = Len(toReader) + 1
        /\ DOMAIN toReader' = 1..(Len(toReader) + 1)
        /\ \A i \in DOMAIN toReader : toReader'[i] = toReader[i]
        /\ toReader'[Len(toReader) + 1] = Block(node.next)
    <3> DEFINE r == Append(toReader, Block(node.next))
    <3>1. /\ DOMAIN toReader = 1..Len(toReader) /\ Len(r) = Len(toReader) + 1
          /\ DOMAIN r = 1..(Len(toReader) + 1)
          /\ \A i \in DOMAIN toReader : r[i] = toReader[i]
          /\ r[Len(toReader) + 1] = Block(node.next)
      <4> DEFINE m == Block(node.next)
      <4>1. m \in ToReader /\ toReader \in Seq(ToReader)
        BY <2>2 DEF TypeOK
      <4> HIDE DEF m
      <4>2. /\ DOMAIN toReader = 1..Len(toReader) /\ Len(Append(toReader, m)) = Len(toReader) + 1
            /\ DOMAIN Append(toReader, m) = 1..(Len(toReader) + 1)
            /\ \A i \in DOMAIN toReader : Append(toReader, m)[i] = toReader[i]
            /\ Append(toReader, m)[Len(toReader) + 1] = m
        BY <4>1, AppendTo
      <4> QED
        BY <4>2 DEF m
    <3>2. toReader' = r
      BY <2>1
    <3> HIDE DEF r
    <3> QED
      BY <3>1, <3>2
  <2>5. TypesInv'
    <3>1. ASSUME NEW i \in DOMAIN toReader'
          PROVE  toReader'[i] # Abi
      <4>1. CASE i \in DOMAIN toReader
        BY <2>3, <2>4, <4>1 DEF TypesInv
      <4>2. CASE i = Len(toReader) + 1
        BY <2>2, <2>4, <4>2
      <4> QED
        BY <1>c, <2>4, <4>1, <4>2
    <3> QED
      BY <1>t, <2>1, <2>3, <3>1 DEF TypesInv
  <2>6. \A i \in DOMAIN toNode : toNode[i].type # "get_blocks_request"
    BY <2>2 DEF Handshake, Fresh
  <2>7. node.credit \in Nat \ {0}
    BY <2>1 DEF TypeOK, NodeRecord
  <2>8. PICK g : Credit(g, toNode, node.credit - 1) /\ g[Len(toNode)] = f[Len(toNode)] - 1
    BY <1>p, <1>e, <2>6, <2>7, CreditLess
  <2>9. Held' = Held + 1
    <3>1. OnTheWay = Len(toReader) /\ OnTheWay' = Len(toReader) + 1 /\ Running' = Running
      BY <1>t, <2>3, <2>4 DEF OnTheWay, Running
    <3>2. Running \in Nat
      BY DEF Running
    <3> QED
      BY <1>c, <1>t, <3>1, <3>2 DEF Held
  <2>10. g[Len(toNode')] + unconfirmed' + Held' <= Prefetch + 1
    <3> DEFINE k == f[Len(toNode)]
    <3>1. k \in Nat /\ k + unconfirmed + Held <= Prefetch + 1 /\ g[Len(toNode')] = k - 1
      BY <1>e, <1>p, <2>1, <2>8
    <3> HIDE DEF k
    <3>2. (k - 1) + unconfirmed + (Held + 1) <= Prefetch + 1
      BY <1>c, <3>1, BlocksFacts
    <3> QED
      BY <1>t, <2>9, <3>1, <3>2
  <2> QED
    BY <2>1, <2>5, <2>8, <2>10 DEF CreditInv
<1> QED
  BY <1>1, <1>2, <1>3

LEMMA SocketCredit ==
  ASSUME TypesInv, CreditInv, Inv, TypeOK',
         Connect \/ OnAbi \/ OnBlock \/ OnIncompleteBlock \/ OnBadMessage
  PROVE  TypesInv' /\ CreditInv'
<1> USE DEF Inv
<1>c. /\ Len(toReader) \in Nat /\ Len(blocksQueue) \in Nat /\ Len(toNode) \in Nat
      /\ unconfirmed \in Nat /\ Held \in Nat /\ OnTheWay \in Nat /\ Running \in Nat
  BY CountFacts DEF OnTheWay, Running
<1>1. CASE Connect
  <2>1. /\ toReader' = toReader /\ toNode' = toNode /\ node' = node /\ types' = types
        /\ blocksQueue' = blocksQueue /\ task' = task /\ unconfirmed' = unconfirmed
        /\ ws' = IF ws = "none" THEN "connecting" ELSE ws
    BY <1>1 DEF Connect
  <2>2. TypesInv'
    BY <2>1 DEF TypesInv, Fresh
  <2>3. unconfirmed' + Held' <= unconfirmed + Held
    <3>1. Held' = Held
      BY <2>1 DEF Held, OnTheWay, Running
    <3> QED
      BY <1>c, <2>1, <3>1
  <2>4. CreditInv'
    BY <2>1, <2>3, CreditKept
  <2> QED
    BY <2>2, <2>4
<1> DEFINE Reads == ~ crashed /\ toReader # <<>> /\ toReader' = Tail(toReader) /\ task' = task
<1>r. ASSUME Reads
      PROVE  /\ Len(toReader) # 0 /\ Len(toReader') = Len(toReader) - 1
             /\ toReader[1] = Head(toReader) /\ 1 \in DOMAIN toReader
             /\ \A i \in DOMAIN toReader' : i + 1 \in DOMAIN toReader /\ toReader'[i] = toReader[i + 1]
             /\ Running' = Running
  <2> DEFINE r == Tail(toReader)
  <2>1. /\ Len(toReader) \in Nat \ {0} /\ DOMAIN toReader = 1..Len(toReader)
        /\ Head(toReader) = toReader[1] /\ Len(r) = Len(toReader) - 1
        /\ \A i \in DOMAIN r : i + 1 \in DOMAIN toReader /\ r[i] = toReader[i + 1]
    BY <1>r, TailOf DEF TypeOK
  <2>2. toReader' = r
    BY <1>r
  <2> HIDE DEF r
  <2> QED
    BY <1>r, <2>1, <2>2 DEF Running
<1>2. CASE OnAbi
  <2>1. /\ Reads /\ Head(toReader) = Abi /\ types' = TRUE /\ unconfirmed' = 0 /\ ws' = ws
        /\ toNode' = Append(toNode, Request(startBlockNum)) /\ node' = node
        /\ blocksQueue' = blocksQueue
    BY <1>2 DEF OnAbi
  <2>2. ~ types /\ toNode = <<>> /\ node.credit = 0 /\ Fresh
    BY <1>r, <2>1 DEF TypesInv
  <2>3. toReader' = <<>>
    <3>1. \A i \in DOMAIN toReader : i = 1
      BY <1>r, <2>1, <2>2 DEF Handshake, Fresh
    <3>2. DOMAIN toReader = 1..Len(toReader)
      BY LenProperties DEF TypeOK
    <3>3. Len(toReader) \in DOMAIN toReader
      BY <1>c, <1>r, <2>1, <3>2
    <3>4. Len(toReader) = 1
      BY <3>1, <3>3
    <3>5. toReader' \in Seq(ToReader) /\ Len(toReader') = 0
      BY <1>r, <2>1, <3>4 DEF TypeOK
    <3> QED
      BY <3>5, EmptySeq
  <2>4. ws' \notin {"none", "connecting"}
    BY <1>r, <2>1, Empty DEF Handshake
  <2>5. TypesInv'
    <3>1. DOMAIN toReader' = {}
      BY <2>3, Empty
    <3> QED
      BY <2>1, <2>4, <3>1 DEF TypesInv
  <2>6. PICK f : Credit(f, <<>>, 0) /\ f[Len(<<>>)] = 0
    BY CreditEmpty
  <2>7. /\ Request(startBlockNum) \in ToNode
        /\ Request(startBlockNum).type = "get_blocks_request"
    BY NodeMessage DEF TypeOK
  <2>8. PICK g : Credit(g, Append(<<>>, Request(startBlockNum)), 0)
                 /\ g[Len(Append(<<>>, Request(startBlockNum)))] = Prefetch
    <3>1. <<>> \in Seq(ToNode) /\ f[Len(<<>>)] <= Prefetch
      BY <2>6, Empty, BlocksFacts
    <3> DEFINE m == Request(startBlockNum)
    <3>2. m \in ToNode /\ m.type = "get_blocks_request"
      BY <2>7
    <3> HIDE DEF m
    <3>3. \E g : /\ Credit(g, Append(<<>>, m), 0)
                 /\ g[Len(Append(<<>>, m))]
                    = IF m.type = "get_blocks_request" THEN Prefetch ELSE f[Len(<<>>)] + m.num
      <4>1. m.type = "get_blocks_request" => f[Len(<<>>)] <= Prefetch
        BY <3>1
      <4>2. <<>> \in Seq(ToNode) /\ Credit(f, <<>>, 0)
        BY <2>6, <3>1
      <4> QED
        BY ONLY <3>2, <4>1, <4>2, CreditAppend, Zenon
    <3> QED
      BY <3>2, <3>3 DEF m
  <2>9. Credit(g, toNode', node'.credit) /\ g[Len(toNode')] = Prefetch
    BY <2>1, <2>2, <2>8
  <2>10. Held' <= 1 /\ Held' \in Nat
    <3>1. OnTheWay' = 0
      BY <2>1, <2>3, Empty DEF OnTheWay
    <3>2. Len(blocksQueue') = 0
      BY <2>1, <2>2, Empty DEF Fresh
    <3>3. Running' \in 0..1
      BY DEF Running
    <3>4. Held' = 0 + 0 + Running'
      BY <3>1, <3>2 DEF Held
    <3>5. \A h \in 0..1 : 0 + 0 + h <= 1 /\ 0 + 0 + h \in Nat
      OBVIOUS
    <3> QED
      BY <3>3, <3>4, <3>5
  <2>11. g[Len(toNode')] + unconfirmed' + Held' <= Prefetch + 1
    <3>1. \A p, h \in Nat : h <= 1 => p + 0 + h <= p + 1
      OBVIOUS
    <3> QED
      BY <2>1, <2>9, <2>10, <3>1, BlocksFacts
  <2> QED
    BY <2>5, <2>9, <2>11 DEF CreditInv
<1> DEFINE Keeps == /\ types' = types /\ toNode' = toNode /\ node' = node
                    /\ unconfirmed' = unconfirmed
<1>k. ASSUME Reads, Keeps, Len(blocksQueue') <= Len(blocksQueue) + (IF types THEN 1 ELSE 0),
             Len(blocksQueue') \in Nat, blocksQueue' = blocksQueue \/ types,
             ws' = ws \/ ws' = "closing"
      PROVE  TypesInv' /\ CreditInv'
  <2>1. TypesInv'
    <3>1. types => \A i \in DOMAIN toReader' : toReader'[i] # Abi
      BY <1>r, <1>k DEF TypesInv
    <3>2. ~ types => \A i \in DOMAIN toReader' : toReader'[i] = Abi
      BY <1>r, <1>k DEF TypesInv, Fresh
    <3> QED
      BY <1>k, <3>1, <3>2 DEF TypesInv, Fresh
  <2>2. Held' <= Held /\ Held' \in Nat
    <3>1. CASE types
      <4>1. OnTheWay = Len(toReader) /\ OnTheWay' = Len(toReader) - 1
        BY <1>r, <1>k, <3>1 DEF OnTheWay
      <4>2. Len(blocksQueue') <= Len(blocksQueue) + 1 /\ Running' = Running /\ Len(toReader) # 0
        BY <1>k, <1>r, <3>1
      <4> QED
        BY <1>c, <1>k, <4>1, <4>2 DEF Held
    <3>2. CASE ~ types
      <4>1. OnTheWay = 0 /\ OnTheWay' = 0 /\ Running' = Running
        BY <1>r, <1>k, <3>2 DEF OnTheWay
      <4>2. Len(blocksQueue') <= Len(blocksQueue)
        BY <1>c, <1>k, <3>2
      <4> QED
        BY <1>c, <1>k, <4>1, <4>2 DEF Held
    <3> QED
      BY <3>1, <3>2
  <2>3. unconfirmed' + Held' <= unconfirmed + Held
    <3>1. unconfirmed' \in Nat /\ unconfirmed' <= unconfirmed
      BY <1>c, <1>k
    <3> QED
      BY <1>c, <2>2, <3>1, SumsUp
  <2>4. CreditInv'
    BY <1>k, <2>3, CreditKept
  <2> QED
    BY <2>1, <2>4
<1>3. CASE OnBlock
  <2>1. /\ Reads /\ Keeps /\ Head(toReader) # Abi /\ ws' = ws
        /\ blocksQueue' = Append(blocksQueue, Head(toReader).num)
    BY <1>3 DEF OnBlock
  <2>2. types
    BY <1>r, <2>1 DEF TypesInv, Fresh
  <2>3. Len(blocksQueue') = Len(blocksQueue) + 1
    <3>0. toReader \in Seq(ToReader) /\ toReader # <<>>
      BY <2>1 DEF TypeOK
    <3>1. toReader[1] \in ToReader /\ toReader[1] # Abi
      BY <1>r, <2>1, <3>0, TailOf
    <3>2. Head(toReader).num \in Blocks
      BY <1>r, <2>1, <3>1, ToReaderFacts
    <3> QED
      BY <2>1, <3>2, AppendTo DEF TypeOK
  <2> QED
    BY <1>c, <1>k, <2>1, <2>2, <2>3
<1>4. CASE OnIncompleteBlock
  <2>1. Reads /\ Keeps /\ ws' = ws /\ blocksQueue' = blocksQueue
    BY <1>4 DEF OnIncompleteBlock
  <2> QED
    BY <1>c, <1>k, <2>1
<1>5. CASE OnBadMessage
  <2>1. Reads /\ Keeps /\ ws' = "closing" /\ blocksQueue' = blocksQueue
    BY <1>5 DEF OnBadMessage, readerVars
  <2> QED
    BY <1>c, <1>k, <2>1
<1> QED
  BY <1>1, <1>2, <1>3, <1>4, <1>5

LEMMA ClosedCredit ==
  ASSUME TypesInv, CreditInv, Inv, TypeOK', Closed
  PROVE  TypesInv' /\ CreditInv'
<1> USE DEF Inv
<1>1. /\ ws' = "none" /\ toReader' = <<>> /\ toNode' = <<>> /\ node' = NoRequest
      /\ types' = FALSE /\ blocksQueue' = <<>> /\ unconfirmed' = unconfirmed
  BY DEF Closed
<1>2. TypesInv'
  <2>1. DOMAIN toReader' = {}
    BY <1>1, Empty
  <2> QED
    BY <1>1, <2>1, NoRequestFacts DEF TypesInv, Fresh
<1>3. PICK f : Credit(f, <<>>, 0) /\ f[Len(<<>>)] = 0
  BY CreditEmpty
<1>4. Held' \in Nat /\ Held' <= 1
  <2>1. OnTheWay' = 0 /\ Len(blocksQueue') = 0
    BY <1>1, Empty DEF OnTheWay
  <2>2. Running' \in 0..1
    BY DEF Running
  <2>3. Held' = 0 + 0 + Running'
    BY <2>1 DEF Held
  <2>4. \A h \in 0..1 : 0 + 0 + h <= 1 /\ 0 + 0 + h \in Nat
    OBVIOUS
  <2> QED
    BY <2>2, <2>3, <2>4
<1>5. 0 + unconfirmed + Held' <= Prefetch + 1
  <2>1. unconfirmed \in Nat /\ unconfirmed <= Confirm - 1
    BY CountFacts
  <2>2. \A u, h, c, p \in Nat : u <= c - 1 /\ h <= 1 /\ c <= p => 0 + u + h <= p + 1
    OBVIOUS
  <2>3. Confirm \in Nat /\ Prefetch \in Nat /\ Confirm <= Prefetch
    BY ConfigAssumption
  <2> QED
    BY <1>4, <2>1, <2>2, <2>3
<1>6. Credit(f, toNode', node'.credit) /\ f[Len(toNode')] + unconfirmed' + Held' <= Prefetch + 1
  BY <1>1, <1>3, <1>5, NoRequestFacts
<1> QED
  BY <1>2, <1>6 DEF CreditInv

LEMMA TaskCredit ==
  ASSUME TypesInv, CreditInv, Inv, TypeOK',
         \/ StartTask \/ Deserialized \/ DeserializeFails \/ Acquire \/ Prepare
         \/ Process \/ ProcessThrows
  PROVE  TypesInv' /\ CreditInv'
<1> USE DEF Inv
<1>c. /\ Len(toReader) \in Nat /\ Len(blocksQueue) \in Nat /\ Len(toNode) \in Nat
      /\ unconfirmed \in Nat /\ Held \in Nat /\ OnTheWay \in Nat /\ Running \in 0..1
  BY CountFacts DEF OnTheWay, Running
<1>1. /\ ws' = ws /\ toReader' = toReader /\ toNode' = toNode /\ node' = node
      /\ types' = types /\ unconfirmed' = unconfirmed
  BY DEF StartTask, Deserialized, DeserializeFails, Acquire, Prepare, Process,
         ProcessThrows, socketVars, readerVars
<1>t. task \in TaskRecord /\ (blocksQueue = <<>> \/ types)
  BY DEF TypeOK, TypesInv, Fresh
<1>2. Held' <= Held /\ Held' \in Nat /\ (blocksQueue' = <<>> \/ types)
  <2>1. CASE StartTask
    <3>1. /\ blocksQueue # <<>> /\ blocksQueue' = Tail(blocksQueue) /\ task = NoTask
      BY <2>1 DEF StartTask
    <3>2. Len(blocksQueue) # 0 /\ Len(blocksQueue') = Len(blocksQueue) - 1
      BY <3>1, TailOf DEF TypeOK
    <3>3. Running = 0 /\ Running' <= 1 /\ Running' \in Nat /\ OnTheWay' = OnTheWay
      BY <1>1, <3>1, NoTaskFacts DEF Running, OnTheWay
    <3>4. Held = OnTheWay + Len(blocksQueue) + 0
      BY <3>3 DEF Held
    <3>5. Held' = OnTheWay + (Len(blocksQueue) - 1) + Running'
      BY <3>2, <3>3 DEF Held
    <3>6. \A o, n, r \in Nat : n # 0 /\ r <= 1 =>
            o + (n - 1) + r <= o + n + 0 /\ o + (n - 1) + r \in Nat
      OBVIOUS
    <3>7. Held' <= Held /\ Held' \in Nat
      BY <1>c, <3>2, <3>3, <3>4, <3>5, <3>6
    <3> QED
      BY <1>t, <3>1, <3>7
  <2>2. CASE Deserialized \/ Acquire \/ Prepare \/ Process
    <3>1. blocksQueue' = blocksQueue /\ Running' <= Running /\ Running' \in Nat
      <4>1. blocksQueue' = blocksQueue
        BY <2>2 DEF Deserialized, Acquire, Prepare, Process
      <4>2. CASE Process
        <5>1. waiting \/ task' = task
          BY <4>2 DEF Process
        <5>2. waiting => task.at = "waiting"
          BY DEF PermitsConserved
        <5>3. Running' <= Running /\ Running' \in Nat
          BY <1>c, <5>1, <5>2 DEF Running
        <5> QED
          BY <4>1, <5>3
      <4>3. CASE Deserialized \/ Acquire \/ Prepare
        <5>1. task.at # "none"
          BY <4>3 DEF Deserialized, Acquire, Prepare
        <5>2. Running' <= Running /\ Running' \in Nat
          BY <1>c, <5>1 DEF Running
        <5> QED
          BY <4>1, <5>2
      <4> QED
        BY <2>2, <4>2, <4>3
    <3>2. OnTheWay' = OnTheWay
      BY <1>1 DEF OnTheWay
    <3>3. Held = OnTheWay + Len(blocksQueue) + Running
      BY DEF Held
    <3>4. Held' = OnTheWay + Len(blocksQueue) + Running'
      BY <3>1, <3>2 DEF Held
    <3>5. \A o, n, r, s \in Nat : s <= r => o + n + s <= o + n + r /\ o + n + s \in Nat
      OBVIOUS
    <3>6. Running \in Nat
      BY <1>c
    <3> QED
      BY <1>c, <1>t, <3>1, <3>3, <3>4, <3>5, <3>6
  <2>3. CASE DeserializeFails
    <3>1. blocksQueue' = <<>> /\ task' = NoTask
      BY <2>3 DEF DeserializeFails
    <3>2. Len(blocksQueue') = 0 /\ Running' = 0 /\ OnTheWay' = OnTheWay
      BY <1>1, <3>1, Empty, NoTaskFacts DEF Running, OnTheWay
    <3>3. Held = OnTheWay + Len(blocksQueue) + Running
      BY DEF Held
    <3>4. Held' = OnTheWay + 0 + 0
      BY <3>2 DEF Held
    <3>5. \A o, n, r \in Nat : o + 0 + 0 <= o + n + r /\ o + 0 + 0 \in Nat
      OBVIOUS
    <3>6. Running \in Nat
      BY <1>c
    <3> QED
      BY <1>c, <3>1, <3>3, <3>4, <3>5, <3>6
  <2>4. CASE ProcessThrows
    <3>1. blocksQueue' = blocksQueue /\ task' = task
      BY <2>4 DEF ProcessThrows, readerVars
    <3>2. Held' = Held
      BY <1>1, <3>1 DEF Held, Running, OnTheWay
    <3> QED
      BY <1>c, <1>t, <3>1, <3>2
  <2> QED
    BY <2>1, <2>2, <2>3, <2>4
<1>3. TypesInv'
  BY <1>1, <1>2 DEF TypesInv, Fresh
<1>4. unconfirmed' + Held' <= unconfirmed + Held
  <2>1. unconfirmed' \in Nat /\ unconfirmed' <= unconfirmed
    BY <1>c, <1>1
  <2> QED
    BY <1>c, <1>2, <2>1, SumsUp
<1>5. CreditInv'
  BY <1>1, <1>4, CreditKept
<1> QED
  BY <1>3, <1>5

LEMMA ConfirmCredit ==
  ASSUME TypesInv, CreditInv, Inv, TypeOK', ConfirmBlock
  PROVE  TypesInv' /\ CreditInv'
<1> USE DEF Inv
<1>c. /\ Len(toReader) \in Nat /\ Len(blocksQueue) \in Nat /\ Len(toNode) \in Nat
      /\ unconfirmed \in Nat /\ unconfirmed <= Confirm - 1 /\ Held \in Nat /\ OnTheWay \in Nat
  BY CountFacts DEF OnTheWay
<1>1. /\ ws' = ws /\ toReader' = toReader /\ node' = node /\ types' = types
      /\ blocksQueue' = blocksQueue /\ task' = NoTask /\ task.at = "confirm"
  BY DEF ConfirmBlock
<1>2. Held' \in Nat /\ Held = Held' + 1
  <2>1. Running = 1 /\ Running' = 0 /\ OnTheWay' = OnTheWay
    BY <1>1, NoTaskFacts DEF Running, OnTheWay
  <2>2. Held = OnTheWay + Len(blocksQueue) + 1
    BY <2>1 DEF Held
  <2>3. Held' = OnTheWay + Len(blocksQueue) + 0
    BY <1>1, <2>1 DEF Held
  <2>4. \A o, n \in Nat : o + n + 0 \in Nat /\ o + n + 1 = (o + n + 0) + 1
    OBVIOUS
  <2> QED
    BY <1>c, <2>2, <2>3, <2>4
<1>3. CASE types /\ ws = "open" /\ ConfirmDue(unconfirmed + 1)
  <2>1. toNode' = Append(toNode, Ack(unconfirmed + 1)) /\ unconfirmed' = 0
    BY <1>3 DEF ConfirmBlock
  <2> DEFINE m == Ack(unconfirmed + 1)
  <2>2. m \in ToNode /\ m.type # "get_blocks_request" /\ m.num = unconfirmed + 1
    <3>1. unconfirmed + 1 \in 1..Confirm
      BY <1>c, BlocksFacts
    <3>2. m \in ToNode /\ m.type # "get_blocks_request"
      BY <3>1, NodeMessage
    <3> QED
      BY <3>2 DEF Ack
  <2> HIDE DEF m
  <2>3. PICK f : /\ Credit(f, toNode, node.credit)
                 /\ f[Len(toNode)] + unconfirmed + Held <= Prefetch + 1
    BY DEF CreditInv
  <2>4. f[Len(toNode)] \in Nat /\ toNode \in Seq(ToNode)
    BY <2>3, CreditAtEnd DEF TypeOK
  <2>5. PICK g : /\ Credit(g, Append(toNode, m), node.credit)
                 /\ g[Len(Append(toNode, m))]
                    = IF m.type = "get_blocks_request" THEN Prefetch ELSE f[Len(toNode)] + m.num
    <3>1. m.type = "get_blocks_request" => f[Len(toNode)] <= Prefetch
      BY <2>2
    <3> QED
      BY ONLY <2>2, <2>3, <2>4, <3>1, CreditAppend, Zenon
  <2>6. Credit(g, toNode', node'.credit) /\ g[Len(toNode')] = f[Len(toNode)] + (unconfirmed + 1)
    BY <1>1, <2>1, <2>2, <2>5 DEF m
  <2>7. g[Len(toNode')] + unconfirmed' + Held' <= Prefetch + 1
    <3>1. \A k, u, h, p \in Nat : k + u + (h + 1) <= p + 1 => (k + (u + 1)) + 0 + h <= p + 1
      OBVIOUS
    <3>2. f[Len(toNode)] + unconfirmed + (Held' + 1) <= Prefetch + 1
      BY <1>2, <2>3
    <3>3. (f[Len(toNode)] + (unconfirmed + 1)) + 0 + Held' <= Prefetch + 1
      BY <1>c, <1>2, <2>4, <3>1, <3>2, BlocksFacts
    <3> QED
      BY <2>1, <2>6, <3>3
  <2>8. TypesInv'
    BY <1>1, <1>3 DEF TypesInv
  <2> QED
    BY <2>6, <2>7, <2>8 DEF CreditInv
<1>4. CASE ~ (types /\ ws = "open" /\ ConfirmDue(unconfirmed + 1))
  <2>1. toNode' = toNode /\ (unconfirmed' = unconfirmed + 1 \/ unconfirmed' = 0 \/ unconfirmed' = unconfirmed)
    BY <1>4 DEF ConfirmBlock
  <2>2. TypesInv'
    BY <1>1, <2>1 DEF TypesInv, Fresh
  <2>3. unconfirmed' + Held' <= unconfirmed + Held
    <3>1. \A u, h \in Nat : (u + 1) + h <= u + (h + 1) /\ 0 + h <= u + (h + 1) /\ u + h <= u + (h + 1)
      OBVIOUS
    <3>2. /\ (unconfirmed + 1) + Held' <= unconfirmed + (Held' + 1)
          /\ 0 + Held' <= unconfirmed + (Held' + 1)
          /\ unconfirmed + Held' <= unconfirmed + (Held' + 1)
      BY <1>c, <1>2, <3>1
    <3> QED
      BY <1>2, <2>1, <3>2
  <2>4. CreditInv'
    BY <1>1, <2>1, <2>3, CreditKept
  <2> QED
    BY <2>2, <2>4
<1> QED
  BY <1>3, <1>4

LEMMA InitCredit ==
  ASSUME Init
  PROVE  TypesInv /\ CreditInv
<1>1. /\ ws = "none" /\ toReader = <<>> /\ toNode = <<>> /\ node = NoRequest
      /\ types = FALSE /\ blocksQueue = <<>> /\ task = NoTask /\ unconfirmed = 0
  BY DEF Init
<1>2. TypesInv
  <2>1. DOMAIN toReader = {}
    BY <1>1, Empty
  <2> QED
    BY <1>1, <2>1, NoRequestFacts DEF TypesInv, Fresh
<1>3. PICK f : Credit(f, <<>>, 0) /\ f[Len(<<>>)] = 0
  BY CreditEmpty
<1>4. Held = 0
  <2>1. OnTheWay = 0 /\ Len(blocksQueue) = 0 /\ Running = 0
    BY <1>1, Empty, NoTaskFacts DEF OnTheWay, Running
  <2> QED
    BY <2>1 DEF Held
<1>5. Credit(f, toNode, node.credit) /\ f[Len(toNode)] + unconfirmed + Held <= Prefetch + 1
  <2>1. \A p \in Nat : 0 + 0 + 0 <= p + 1
    OBVIOUS
  <2> QED
    BY <1>1, <1>3, <1>4, <2>1, NoRequestFacts, BlocksFacts
<1> QED
  BY <1>2, <1>5 DEF CreditInv

LEMMA NextCredit ==
  ASSUME TypesInv, CreditInv, Inv, [Next]_vars
  PROVE  TypesInv' /\ CreditInv'
<1>1. TypeOK'
  BY NextInv DEF Inv
<1>2. CASE UNCHANGED vars
  <2>1. TypesInv' /\ Held' = Held
    BY <1>2 DEF TypesInv, Fresh, Held, OnTheWay, Running, vars, socketVars, readerVars
  <2>2. toNode' = toNode /\ node' = node /\ unconfirmed' = unconfirmed
    BY <1>2 DEF vars, socketVars, readerVars
  <2> QED
    BY <2>1, <2>2 DEF CreditInv
<1>3. CASE Node
  BY <1>1, <1>3, NodeCredit DEF Node
<1>4. CASE Connect \/ OnAbi \/ OnBlock \/ OnIncompleteBlock \/ OnBadMessage
  BY <1>1, <1>4, SocketCredit
<1>5. CASE CloseCompletes \/ ConnectionLost
  BY <1>1, <1>5, ClosedCredit DEF CloseCompletes, ConnectionLost
<1>6. CASE ConfirmBlock
  BY <1>1, <1>6, ConfirmCredit
<1>7. CASE \/ StartTask \/ Deserialized \/ DeserializeFails \/ Acquire \/ Prepare
           \/ Process \/ ProcessThrows
  BY <1>1, <1>7, TaskCredit
<1> QED
  BY <1>2, <1>3, <1>4, <1>5, <1>6, <1>7 DEF Next, Socket, Task, Queue, Fault

(* Every reachable state has the node's credit, the blocks sent and the    *)
(* blocks to acknowledge within the prefetch and one task.                 *)
THEOREM CreditIsBounded == Spec => [](TypesInv /\ CreditInv)
<1>1. Init => TypesInv /\ CreditInv
  BY InitCredit
<1>2. TypesInv /\ CreditInv /\ Inv /\ [Next]_vars => (TypesInv /\ CreditInv)'
  BY NextCredit
<1>3. QED
  BY <1>1, <1>2, Invariance, PTL DEF Spec

(* ship_prefetch_blocks bounds the blocks the process holds in memory, but *)
(* for the task a lost connection left behind.                             *)
THEOREM BufferBoundedTheorem == Spec => []BufferBounded
<1>1. TypeOK /\ TypesInv /\ CreditInv => BufferBounded
  <2> SUFFICES ASSUME TypeOK, TypesInv, CreditInv
               PROVE  BufferBounded
    OBVIOUS
  <2>1. PICK f : /\ Credit(f, toNode, node.credit)
                 /\ f[Len(toNode)] + unconfirmed + Held <= Prefetch + 1
    BY DEF CreditInv
  <2>2. f[Len(toNode)] \in Nat
    BY <2>1, CreditAtEnd DEF TypeOK
  <2>3. unconfirmed \in Nat /\ Held \in Nat /\ Len(blocksQueue) \in Nat /\ OnTheWay \in Nat
    BY CountFacts DEF OnTheWay
  <2>4. Held <= Prefetch + 1
    <3>1. \A k, u, h, p \in Nat : k + u + h <= p + 1 => h <= p + 1
      OBVIOUS
    <3> QED
      BY <2>1, <2>2, <2>3, <3>1, BlocksFacts
  <2> DEFINE r == IF task.at \in {"none", "confirm"} THEN 0 ELSE 1
  <2>5. r \in 0..1 /\ Running \in 0..1 /\ r <= Running
    BY DEF Running
  <2>6. Unprocessed = OnTheWay + Len(blocksQueue) + r
    BY BlocksSent DEF Unprocessed
  <2> HIDE DEF r
  <2>7. OnTheWay + Len(blocksQueue) + r <= OnTheWay + Len(blocksQueue) + Running
    <3>1. \A o, n \in Nat, s, t \in 0..1 : s <= t => o + n + s <= o + n + t
      OBVIOUS
    <3> QED
      BY <2>3, <2>5, <3>1
  <2>8. Held = OnTheWay + Len(blocksQueue) + Running
    BY DEF Held
  <2>9. \A o, n \in Nat, s, t \in 0..1, p \in Nat :
          o + n + s <= o + n + t /\ o + n + t <= p + 1 => o + n + s <= p + 1
    OBVIOUS
  <2>10. OnTheWay + Len(blocksQueue) + r <= Prefetch + 1
    BY <2>3, <2>4, <2>5, <2>7, <2>8, <2>9, BlocksFacts
  <2> QED
    BY <2>6, <2>10 DEF BufferBounded
<1>2. QED
  BY <1>1, CreditIsBounded, TypeCorrect, PTL
=============================================================================
