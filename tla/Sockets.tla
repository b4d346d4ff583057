-------------------------------- MODULE Sockets --------------------------------
(***************************************************************************)
(* From the commit of a block to the events of the sockets.  The reader    *)
(* sends its notifications to Redis in messages of ChunkSize               *)
(* (src/filler/notifier.ts); the API server hands each message to the      *)
(* listeners of the namespaces (src/api/notification.ts), which look up    *)
(* the rows it is about and emit an event for each trace and each fork.    *)
(* A listener awaits its queries while the next messages arrive, so the    *)
(* messages of one listener may be answered in any order.                  *)
(*                                                                         *)
(* A client of the model has joined every room, keeps the events of each   *)
(* listener, and forgets those of the blocks that a fork takes back.       *)
(***************************************************************************)
EXTENDS Integers, Sequences, FiniteSets, FiniteSetsExt, SequencesExt

CONSTANTS
  Listened,      \* channels with a listener
  Logged,        \* traces the contracts may log: [name, id, amount]
  ChunkSize,     \* 50 in the code: notifications of a message
  MaxBlocks,     \* bound: blocks, those of abandoned branches included
  MaxTraces      \* bound: traces of a block

ASSUME SocketsAssumption == ChunkSize \in Nat \ {0} /\ MaxBlocks \in Nat /\ MaxTraces \in Nat

VARIABLES
  committed,     \* the blocks whose effects the tables contain: [id, traces]
  pc,            \* where process stands: "idle", "commit" or "publish"
  block,         \* the block in process, [num, id, traces]
  notifications, \* notifier.notifications
  blocks,        \* blocks so far
  sent,          \* messages so far
  tasks,         \* calls of listeners: [no, channel, notifications, at, rows]
  clients,       \* for each listener, the events a client keeps
  overtaken,     \* history: listeners that answered a message before an older one
  lost           \* history: a message was lost

socketVars == <<committed, pc, block, notifications, blocks, sent, tasks, clients, overtaken, lost>>

-----------------------------------------------------------------------------
(* The channel a handler sends the trace of an action to.  Nothing listens *)
(* to "buyoffer" and "template_buyoffer": the listeners are called         *)
(* "buyoffers" and "template_buyoffers".                                   *)
ChannelOf(trace) ==
  CASE trace.name \in {"lognewsale", "logsalestart", "purchasesale", "cancelsale"} -> "sales"
    [] trace.name \in {"lognewauct", "logauctstart", "auctionbid", "cancelauct"} -> "auctions"
    [] trace.name \in {"lognewbuyo", "declinebuyo", "cancelbuyo", "acceptbuyo"} -> "buyoffer"
    [] trace.name \in {"lognewtbuyo", "canceltbuyo", "fulfilltbuyo"} -> "template_buyoffer"
    [] trace.name = "lognewoffer" -> "offers"
    [] trace.name = "logtransfer" -> "transfers"
    [] OTHER -> "assets"

(* The actions for which the listeners emit an event.  Of template         *)
(* buyoffers there is one, but socket of AtomicMarketNamespace never calls *)
(* templateBuyofferSockets.                                                *)
SaleEvents == {"lognewsale", "purchasesale"}
AuctionEvents == {"lognewauct", "auctionbid"}
BuyofferEvents == {"lognewbuyo"}
AssetEvents == {"logmint", "logburnasset", "logbackasset", "logsetdata"}
OfferEvents == {"lognewoffer"}
TransferEvents == {"logtransfer"}
Emits == SaleEvents \cup AuctionEvents \cup BuyofferEvents \cup AssetEvents \cup OfferEvents \cup TransferEvents

(* Those that make the row they are about. *)
Creates ==
  {"lognewsale", "lognewauct", "lognewbuyo", "lognewtbuyo", "lognewoffer", "logtransfer",
   "logmint"}

TracesOf(branch) == UNION {ToSet(branch[n].traces) : n \in DOMAIN branch}

(* The row of a listing, asset, offer or transfer: what has been done to   *)
(* it; {} if there is none.                                                *)
RowOf(trace) ==
  {t \in TracesOf(committed) : ChannelOf(t) = ChannelOf(trace) /\ t.id = trace.id}

(* What may be logged on a branch: a row is made before it is changed.     *)
Possible(branch, traces) ==
  \A i \in DOMAIN traces :
    LET earlier == TracesOf(branch) \cup {traces[j] : j \in 1 .. i - 1} IN
    /\ traces[i] \notin earlier
    /\ traces[i].name \in Creates
         \/ \E t \in earlier : /\ ChannelOf(t) = ChannelOf(traces[i]) /\ t.id = traces[i].id
                               /\ t.name \in Creates

-----------------------------------------------------------------------------
(* The reader, in head mode *)

NoBlock == [num |-> 0]

ForkNotice(n) == [type |-> "fork", num |-> n]
TraceNotices(b) ==
  [i \in DOMAIN b.traces |-> [type |-> "trace", num |-> b.num, block |-> b.id, trace |-> b.traces[i]]]

(* A block is processed: a fork is announced first, then the handlers      *)
(* announce the traces.                                                    *)
ProcessBlock ==
  /\ pc = "idle" /\ blocks < MaxBlocks
  /\ \E n \in 1 .. Len(committed) + 1, traces \in SeqOf(Logged, MaxTraces) :
       LET b == [num |-> n, id |-> blocks + 1, traces |-> traces]
           branch == SubSeq(committed, 1, n - 1)
       IN  /\ Possible(branch, traces)
           /\ block' = b
           /\ notifications' = (IF n <= Len(committed) THEN <<ForkNotice(n)>> ELSE <<>>) \o TraceNotices(b)
  /\ pc' = "commit"
  /\ blocks' = blocks + 1
  /\ UNCHANGED <<committed, sent, tasks, clients, overtaken, lost>>

CommitBlock ==
  /\ pc = "commit"
  /\ committed' = Append(SubSeq(committed, 1, block.num - 1), [id |-> block.id, traces |-> block.traces])
  /\ pc' = "publish"
  /\ UNCHANGED <<block, notifications, blocks, sent, tasks, clients, overtaken, lost>>

(* Mutant of Kept: a notification without channel is for nobody. *)
KeptByChannel(message, channel) ==
  {i \in DOMAIN message : message[i].type = "trace" /\ ChannelOf(message[i].trace) = channel}

(* What a listener is given of a message: the traces of its channel, and   *)
(* all forks. *)
Kept(message, channel) ==
  {i \in DOMAIN message : message[i].type = "trace" => ChannelOf(message[i].trace) = channel}

Filtered(message, channel) ==
  LET kept == Kept(message, channel)
      Place(i) == Cardinality({j \in kept : j <= i})
  IN  [k \in 1 .. Cardinality(kept) |-> message[CHOOSE i \in kept : Place(i) = k]]

Chunk == SubSeq(notifications, 1, Min({ChunkSize, Len(notifications)}))
AfterChunk == SubSeq(notifications, Len(Chunk) + 1, Len(notifications))

(* A message is published and, in this order, received. *)
SendChunk ==
  /\ notifications # <<>>
  /\ notifications' = AfterChunk
  /\ sent' = sent + 1
  /\ tasks' = tasks \cup
       {[no |-> sent + 1, channel |-> c, notifications |-> Filtered(Chunk, c), at |-> "query", rows |-> <<>>] :
          c \in {x \in Listened : Filtered(Chunk, x) # <<>>}}
  /\ UNCHANGED <<committed, block, blocks, clients, overtaken, lost>>

(* Mutant of PublishChunk: the messages need not wait for the commit. *)
PublishChunkEarly == pc # "idle" /\ SendChunk /\ UNCHANGED pc

PublishChunk == pc = "publish" /\ SendChunk /\ UNCHANGED pc

Published ==
  /\ pc = "publish" /\ notifications = <<>>
  /\ pc' = "idle" /\ block' = NoBlock
  /\ UNCHANGED <<committed, notifications, blocks, sent, tasks, clients, overtaken, lost>>

(* Redis fails and the remaining messages are dropped; a reader that dies  *)
(* drops them, too, and before the commit it reads the block again.        *)
PublishFails ==
  /\ pc # "idle"
  /\ notifications' = <<>> /\ pc' = "idle" /\ block' = NoBlock
  /\ lost' = (lost \/ (pc = "publish" /\ notifications # <<>>))
  /\ UNCHANGED <<committed, blocks, sent, tasks, clients, overtaken>>

-----------------------------------------------------------------------------
(* The API server *)

(* The rows of a message are read; the assets to show with them follow.    *)
QueryRows(task) ==
  /\ task.at = "query"
  /\ tasks' = (tasks \ {task}) \cup
       {[task EXCEPT !.at = "emit",
                     !.rows = [i \in DOMAIN task.notifications |->
                                 IF task.notifications[i].type = "trace"
                                 THEN RowOf(task.notifications[i].trace) ELSE {}]]}
  /\ UNCHANGED <<committed, pc, block, notifications, blocks, sent, clients, overtaken, lost>>

(* A bid on an auction that is not found throws (auction.bids), and the    *)
(* rest of the message is left.                                            *)
Throws(task, i) ==
  /\ task.notifications[i].type = "trace" /\ task.notifications[i].trace.name = "auctionbid"
  /\ task.rows[i] = {}

Heard(known, n, row) ==
  IF n.type = "fork" THEN {e \in known : e.num < n.num}
  ELSE IF n.trace.name \in Emits
       THEN known \cup {[num |-> n.num, block |-> n.block, trace |-> n.trace, row |-> row]}
       ELSE known

(* The loop over the notifications of a message. *)
EmitEvents(task) ==
  LET throwing == {i \in DOMAIN task.notifications : Throws(task, i)}
      last == IF throwing = {} THEN Len(task.notifications) ELSE Min(throwing) - 1
      heard[i \in 0 .. last] ==
        IF i = 0 THEN clients[task.channel]
        ELSE Heard(heard[i - 1], task.notifications[i], task.rows[i])
  IN  /\ task.at = "emit"
      /\ clients' = [clients EXCEPT ![task.channel] = heard[last]]
      /\ overtaken' = overtaken \cup
           {t.channel : t \in {x \in tasks : x.channel = task.channel /\ x.no < task.no}}
      /\ tasks' = tasks \ {task}
      /\ UNCHANGED <<committed, pc, block, notifications, blocks, sent, lost>>

InitSockets ==
  /\ committed = <<>> /\ pc = "idle" /\ block = NoBlock /\ notifications = <<>>
  /\ blocks = 0 /\ sent = 0 /\ tasks = {}
  /\ clients = [c \in Listened |-> {}] /\ overtaken = {} /\ lost = FALSE

NextSockets ==
  \/ ProcessBlock \/ CommitBlock \/ PublishChunk \/ Published \/ PublishFails
  \/ \E task \in tasks : QueryRows(task) \/ EmitEvents(task)

-----------------------------------------------------------------------------
(* What is on its way to a listener: the messages it has not answered, and *)
(* what is to be sent. *)
OnItsWay(channel) ==
  LET Numbered(no, list) == {[no |-> no, at |-> i, notice |-> list[i]] : i \in DOMAIN list}
  IN  (UNION {Numbered(t.no, t.notifications) : t \in {x \in tasks : x.channel = channel}})
        \cup (IF pc = "publish" THEN Numbered(sent + 1, Filtered(notifications, channel)) ELSE {})

Later(x, y) == y.no > x.no \/ (y.no = x.no /\ y.at > x.at)

(* One of these notices takes block num back. *)
TakenBack(num, notices) == \E y \in notices : y.notice.type = "fork" /\ y.notice.num <= num

EventOf(n) == [num |-> n.num, block |-> n.block, trace |-> n.trace]

EventsOf(channel) ==
  UNION {{[num |-> n, block |-> committed[n].id, trace |-> t] :
            t \in {x \in ToSet(committed[n].traces) : ChannelOf(x) = channel /\ x.name \in Emits}} :
           n \in DOMAIN committed}

(* While no message is lost and a listener answers its messages in order,  *)
(* its clients are told what was committed: when everything on its way has *)
(* arrived, they keep exactly the events of the branch that the tables     *)
(* show, across forks, messages that are split and events that throw.      *)
ClientsFollow ==
  ~ lost =>
    \A c \in Listened \ overtaken :
      LET way  == OnItsWay(c)
          kept == {e \in clients[c] : ~ TakenBack(e.num, way)}
          come == {x \in way : /\ x.notice.type = "trace" /\ x.notice.trace.name \in Emits
                               /\ ~ TakenBack(x.notice.num, {y \in way : Later(x, y)})}
      IN  {EventOf(e) : e \in kept} \cup {EventOf(x.notice) : x \in come} = EventsOf(c)

(* An event shows the row as it is after the action, or as it became       *)
(* later, unless the block has been taken back: messages are published     *)
(* after the commit, whenever a listener's query comes.                    *)
EventsShowRows ==
  \A c \in Listened : \A e \in clients[c] :
    \/ e.trace \in e.row
    \/ e.num \notin DOMAIN committed
    \/ committed[e.num].id # e.block
=============================================================================
