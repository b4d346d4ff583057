------------------------- MODULE StateReceiverProofs -------------------------
(***************************************************************************)
(* The path of the reader along the chain: blocks are never refused and    *)
(* each extends the branch the reader is on, for any chain, configuration, *)
(* forks, lost connections and restarts; and the tables it leads to, with  *)
(* the proof that the reader implements ChainIndex.                        *)
(***************************************************************************)
EXTENDS StateReceiver, SequenceTheorems, WellFoundedInduction, TLAPS

Block == Seq(Nat)

(* The n-th block of the branch that ends with b. *)
Ancestor(b, n) == SubSeq(b, 1, n)

OnChain(b) == Num(b) <= Len(chain) /\ b = Ancestor(chain, Num(b))

(* Blocks that may have been on the best branch at some time. *)
Known(b) == b \in Seq(0..forks) /\ Num(b) <= Len(chain)

(* No fork replaces the n-th block of the best branch any more. *)
Fixed(n) == n <= lib \/ n <= Len(chain) - ForkDepth

-----------------------------------------------------------------------------
(* The inductive invariant.                                                *)

(* The blocks on their way to process, and the one the node sends next. *)
pipe == dsQueue \o wire
Sending == Len(pipe) + 1

(* The j-th of them: its branch, its number, and the block before it. *)
Branch(j)  == IF j = Sending THEN chain ELSE pipe[j].id
Number(j)  == IF j = Sending THEN cursor ELSE Num(pipe[j].id)
Prev(j)    == IF j = 1 THEN view ELSE pipe[j - 1].id
PrevNum(j) == IF j = 1 THEN currentBlock ELSE Num(pipe[j - 1].id)

(* Block n of a branch extends the block prev with number num, or it       *)
(* replaces prev and blocks below it, which the chain has abandoned.  A    *)
(* reader that has not processed any block has no view.                    *)
Continues(num, prev, n, branch) ==
  /\ StartBlock <= n /\ n <= num + 1
  /\ prev # <<>> => Ancestor(branch, n - 1) = Ancestor(prev, n - 1)
  /\ n <= num => prev # <<>> /\ ~ OnChain(Ancestor(prev, n))

(* From the j-th block on, the n-th of the branch remains the same. *)
Settled(n, j) ==
  /\ Fixed(n)
  /\ \A k \in j..Sending : n < Number(k)
  /\ \A k \in j..Len(pipe) : OnChain(Ancestor(pipe[k].id, n))

Response == [id : Block, head : Nat, lib : Nat]

(* Fixed(n), as far as the response r tells. *)
FixedBy(r, n) == n <= r.lib \/ n <= r.head - ForkDepth

Sound(r) ==
  /\ Known(r.id)
  /\ StartBlock - 1 <= r.lib /\ r.lib <= lib
  /\ StartBlock <= Num(r.id) /\ Num(r.id) <= r.head /\ r.head <= Len(chain)
  /\ irreversibleOnly => Num(r.id) <= r.lib

ChainInv ==
  /\ forks \in Nat /\ chain \in Seq(0..forks)
  /\ lib \in Nat /\ StartBlock - 1 <= lib /\ lib <= Len(chain)
  /\ irreversibleOnly \in BOOLEAN /\ running \in BOOLEAN
  /\ dsQueue \in Seq(Response) /\ wire \in Seq(Response)

PipeInv ==
  /\ cursor \in Nat
  /\ \A j \in 1..Len(pipe) : Sound(pipe[j])
  /\ \A j \in 1..Sending : Continues(PrevNum(j), Prev(j), Number(j), Branch(j))
  /\ \A j \in 1..Len(pipe) : \A n \in 1..Num(pipe[j].id) :
       FixedBy(pipe[j], n) => OnChain(Ancestor(pipe[j].id, n)) /\ Settled(n, j + 1)
  /\ \A i, j \in 1..Len(pipe) : i < j => pipe[i].head <= pipe[j].head

(* have names ancestors of b, all but some that are irreversible. *)
Ancestors(have, b) ==
  \A x \in have : Num(x) \in StartBlock..Num(b) /\ x = Ancestor(b, Num(x))
Held(have, b) ==
  \A n \in 1..Num(b) : Ancestor(b, n) \in have \/ (n <= lib /\ OnChain(Ancestor(b, n)))
Resumes(have, b) == Ancestors(have, b) /\ Held(have, b)

(* The last block that has left the wire. *)
Consumed    == IF dsQueue = <<>> THEN view ELSE dsQueue[Len(dsQueue)].id
ConsumedNum == IF dsQueue = <<>> THEN currentBlock ELSE Num(dsQueue[Len(dsQueue)].id)

RequestInv ==
  /\ args.start = ConsumedNum + 1
  /\ Resumes(args.have, Consumed)

ViewInv ==
  /\ currentBlock \in Nat /\ lastIrreversibleBlock \in Nat
  /\ Known(view) /\ currentBlock <= Len(chain)
  /\ view = <<>> => currentBlock = StartBlock - 1
  /\ view # <<>> => currentBlock = Num(view) /\ StartBlock <= currentBlock
  /\ \A n \in 1..currentBlock : n <= lastIrreversibleBlock =>
       Settled(n, 1) /\ (view # <<>> => OnChain(Ancestor(view, n)))

Store == [effects : SUBSET Block, undo : SUBSET (Nat \X Block),
          traces : SUBSET Block, repeated : SUBSET Block, traceUndo : SUBSET (Nat \X Block),
          blocks : SUBSET Block, position : Nat, live : BOOLEAN, tip : Block]
Message == [fork : Nat, blocks : SUBSET Block]
Transactions == [open : {TRUE}, begun : BOOLEAN, block : Nat, store : Store]

NoUndo(s) == s.blocks = {} /\ s.undo = {}

(* A reader can be started from the committed database. *)
StoreInv ==
  /\ store \in Store /\ Known(store.tip)
  /\ store.position <= Num(store.tip) /\ (store.position = 0 \/ StartBlock <= store.position)
  /\ Resumes(store.blocks, Ancestor(store.tip, store.position))
  /\ ~ store.live => NoUndo(store)

(* A reader that catches up has not seen a reversible block. *)
StateInv ==
  /\ state \in {"HEAD", "CATCHUP"}
  /\ store.live => state = "HEAD"
  /\ state # "HEAD" => Settled(currentBlock, 1) /\ OnChain(view) /\ store.position <= currentBlock

(* The transaction can be committed once the reader's position is written. *)
TxInv ==
  /\ db \in Transactions /\ db.block \in {0, currentBlock} /\ view # <<>>
  /\ db.block # 0 => state = "HEAD"
  /\ Resumes(db.store.blocks, view)

CommitInv ==
  /\ liveQueue = {}
  /\ db.store.live => state = "HEAD"
  /\ ~ db.store.live => NoUndo(db.store)
  /\ db.store.position <= currentBlock
  /\ db.store.position = 0 \/ StartBlock <= db.store.position
  /\ state = "HEAD" => db.store.position = currentBlock

StageInv ==
  /\ pc \in {"idle", "execute", "commit", "publish"}
  /\ liveQueue \subseteq Block /\ actionLogs \subseteq Block /\ notifications \in Seq(Message)
  /\ collectedBlocks \in Nat /\ lastBlockUpdate \in Nat
  /\ pc \in {"idle", "publish"} => Resumes(store.blocks, view)
  /\ pc = "idle" => db \in {NoTransaction, Transaction(0)}
  /\ pc = "execute" => TxInv /\ (state # "HEAD" => db.store = store)
  /\ pc = "commit" => TxInv /\ CommitInv
  /\ pc = "publish" => db = NoTransaction /\ liveQueue = {}

Stopped ==
  /\ pc = "idle" /\ dsQueue = <<>> /\ wire = <<>> /\ liveQueue = {} /\ actionLogs = {}
  /\ db = NoTransaction /\ notifications = <<>>
  /\ collectedBlocks = 0 /\ lastIrreversibleBlock = 0

PathInv ==
  /\ ChainInv /\ StoreInv
  /\ running => PipeInv /\ RequestInv /\ ViewInv /\ StateInv /\ StageInv
  /\ ~ running => Stopped

-----------------------------------------------------------------------------
(* Numbers and sequences *)

LEMMA Bounds ==
  /\ ForkDepth \in Nat /\ InitLib \in Nat /\ InitHead \in Nat
  /\ StartBlock \in Nat /\ StartBlock > 1 /\ Group \in Nat /\ Group > 0
  /\ StartBlock - 1 <= InitLib /\ InitLib <= InitHead
BY ConfigAssumption, ChainAssumption

LEMMA Least ==
  ASSUME NEW S \in SUBSET Nat, S # {}
  PROVE  \E n \in S : \A m \in S : n <= m
<1>1. PICK n \in S : \A m \in S : ~ (<<m, n>> \in OpToRel(<, Nat))
  BY WFMin, NatLessThanWellFounded, Zenon
<1>2. \A m \in S : m < n => <<m, n>> \in OpToRel(<, Nat)
  BY Zenon DEF OpToRel
<1>3. \A m \in S : ~ (m < n)
  BY <1>1, <1>2, Zenon
<1>4. QED
  BY <1>3

LEMMA MinFacts ==
  ASSUME NEW S \in SUBSET Nat, S # {}
  PROVE  Min(S) \in S /\ \A m \in S : Min(S) <= m
BY Least DEF Min

LEMMA AncestorFacts ==
  ASSUME NEW S, NEW b \in Seq(S), NEW n \in 0..Len(b)
  PROVE  /\ Ancestor(b, n) \in Seq(S) /\ Len(Ancestor(b, n)) = n
         /\ \A i \in 1..n : Ancestor(b, n)[i] = b[i]
         /\ n > 0 => Ancestor(b, n) # <<>>
BY DEF Ancestor

LEMMA Whole ==
  ASSUME NEW S, NEW b \in Seq(S)
  PROVE  Ancestor(b, Len(b)) = b
BY DEF Ancestor

LEMMA SameAncestor ==
  ASSUME NEW S, NEW T, NEW b \in Seq(S), NEW c \in Seq(T),
         NEW n \in Nat, n <= Len(b), n <= Len(c)
  PROVE  Ancestor(b, n) = Ancestor(c, n) <=> \A i \in 1..n : b[i] = c[i]
BY DEF Ancestor

LEMMA Nested ==
  ASSUME NEW S, NEW b \in Seq(S), NEW m \in 0..Len(b), NEW n \in 0..m
  PROVE  Ancestor(Ancestor(b, m), n) = Ancestor(b, n)
<1>1. Ancestor(b, m) \in Seq(S) /\ Len(Ancestor(b, m)) = m
  BY AncestorFacts
<1>2. \A i \in 1..n : Ancestor(b, m)[i] = b[i]
  BY AncestorFacts
<1>3. QED
  BY <1>1, <1>2, SameAncestor

-----------------------------------------------------------------------------
(* The chain *)

LEMMA OnChainIff ==
  ASSUME ChainInv, NEW b \in Block
  PROVE  OnChain(b) <=> Num(b) <= Len(chain) /\ \A i \in 1..Num(b) : b[i] = chain[i]
<1>1. b \in Seq(Nat) /\ chain \in Seq(0..forks) /\ Num(b) = Len(b) /\ Len(b) \in Nat /\ Len(chain) \in Nat
  BY DEF Block, Num, ChainInv
<1>2. Ancestor(b, Len(b)) = b
  BY <1>1, Whole
<1>3. Len(b) <= Len(chain) =>
        (Ancestor(b, Len(b)) = Ancestor(chain, Len(b)) <=> \A i \in 1..Len(b) : b[i] = chain[i])
  BY <1>1, SameAncestor
<1>4. QED
  BY <1>1, <1>2, <1>3 DEF OnChain

LEMMA OnChainIffNext ==
  ASSUME ChainInv', NEW b \in Block
  PROVE  OnChain(b)' <=> Num(b) <= Len(chain') /\ \A i \in 1..Num(b) : b[i] = chain'[i]
<1>1. b \in Seq(Nat) /\ chain' \in Seq(0..forks') /\ Num(b) = Len(b) /\ Len(b) \in Nat /\ Len(chain') \in Nat
  BY DEF Block, Num, ChainInv
<1>2. Ancestor(b, Len(b)) = b
  BY <1>1, Whole
<1>3. Len(b) <= Len(chain') =>
        (Ancestor(b, Len(b)) = Ancestor(chain', Len(b)) <=> \A i \in 1..Len(b) : b[i] = chain'[i])
  BY <1>1, SameAncestor
<1>4. QED
  BY <1>1, <1>2, <1>3 DEF OnChain

LEMMA KnownFacts ==
  ASSUME ChainInv, NEW b, Known(b)
  PROVE  b \in Block /\ Num(b) \in Nat /\ Num(b) <= Len(chain)
BY DEF Known, ChainInv, Block, Num

LEMMA OnChainAncestor ==
  ASSUME ChainInv, NEW b \in Block, OnChain(b), NEW n \in 0..Num(b)
  PROVE  OnChain(Ancestor(b, n))
<1>1. Ancestor(b, n) \in Block /\ Num(Ancestor(b, n)) = n /\ \A i \in 1..n : Ancestor(b, n)[i] = b[i]
  BY AncestorFacts DEF Block, Num
<1>2. Num(b) <= Len(chain) /\ (\A i \in 1..Num(b) : b[i] = chain[i]) /\ Num(b) \in Nat
  BY OnChainIff DEF Block, Num
<1>3. n <= Len(chain) /\ \A i \in 1..n : Ancestor(b, n)[i] = chain[i]
  BY <1>1, <1>2 DEF ChainInv
<1>4. QED
  BY <1>1, <1>3, OnChainIff

LEMMA ChainAncestor ==
  ASSUME ChainInv, NEW n \in 0..Len(chain)
  PROVE  Known(Ancestor(chain, n)) /\ Num(Ancestor(chain, n)) = n /\ OnChain(Ancestor(chain, n))
BY AncestorFacts DEF ChainInv, Known, OnChain, Num

LEMMA KnownAncestor ==
  ASSUME ChainInv, NEW b, Known(b), NEW n \in 0..Num(b)
  PROVE  Known(Ancestor(b, n)) /\ Num(Ancestor(b, n)) = n
BY AncestorFacts DEF ChainInv, Known, Num

(* What any step of the chain leaves as it is. *)
Grown ==
  /\ lib <= lib' /\ Len(chain) <= Len(chain')
  /\ \A b : Known(b) => Known(b)' /\ (OnChain(b)' => OnChain(b))
  /\ \A b : Known(b) /\ OnChain(b) /\ Fixed(Num(b)) => OnChain(b)'
  /\ \A n \in Nat : Fixed(n) => Fixed(n)'

LEMMA ProduceGrown ==
  ASSUME ChainInv, Produce
  PROVE  ChainInv' /\ Grown
<1>1. /\ chain' = Append(chain, forks)
      /\ UNCHANGED <<lib, forks, irreversibleOnly, running, dsQueue, wire>>
  BY DEF Produce, memoryVars
<1>2. /\ chain' \in Seq(0..forks) /\ Len(chain') = Len(chain) + 1
      /\ \A i \in 1..Len(chain) : chain'[i] = chain[i]
  BY <1>1 DEF ChainInv
<1>3. ChainInv'
  BY <1>1, <1>2 DEF ChainInv
<1>4. ASSUME NEW b, Known(b)
      PROVE  Known(b)' /\ (OnChain(b)' <=> OnChain(b))
  <2>1. Known(b)' /\ b \in Block
    BY <1>1, <1>2, <1>4, KnownFacts DEF Known, Num, ChainInv
  <2>2. OnChain(b)' <=> Num(b) <= Len(chain') /\ \A i \in 1..Num(b) : b[i] = chain'[i]
    BY <1>3, <2>1, OnChainIffNext
  <2>3. QED
    BY <1>1, <1>2, <1>4, <2>1, <2>2, OnChainIff, KnownFacts
<1>5. \A n \in Nat : Fixed(n) => Fixed(n)'
  BY <1>1, <1>2, Bounds DEF Fixed, ChainInv
<1>6. QED
  BY <1>1, <1>2, <1>3, <1>4, <1>5 DEF Grown, ChainInv

LEMMA ForkGrown ==
  ASSUME ChainInv, NEW k \in 1..Len(chain) - 1, Fork(k)
  PROVE  /\ ChainInv' /\ Grown
         /\ Ancestor(chain', k) = Ancestor(chain, k)
         /\ \A b : Known(b) /\ OnChain(b)' => Num(b) <= k
<1>1. /\ chain' = [n \in 1..(Len(chain) + 1) |-> IF n <= k THEN chain[n] ELSE forks + 1]
      /\ forks' = forks + 1 /\ lib <= k /\ Len(chain) - ForkDepth <= k
      /\ UNCHANGED <<lib, irreversibleOnly, running, dsQueue, wire>>
  BY DEF Fork, memoryVars
<1>0. k \in Nat /\ k <= Len(chain) /\ Len(chain) \in Nat
  BY DEF ChainInv
<1>2. /\ chain' \in Seq(0..forks') /\ Len(chain') = Len(chain) + 1
      /\ \A i \in 1..k : chain'[i] = chain[i]
      /\ chain'[k + 1] = forks + 1
  <2>1. \A n \in 1..(Len(chain) + 1) : (IF n <= k THEN chain[n] ELSE forks + 1) \in 0..forks'
    <3>1. forks \in Nat /\ \A n \in 1..Len(chain) : chain[n] \in 0..forks
      BY ElementOfSeq DEF ChainInv
    <3>2. QED
      BY <1>0, <1>1, <3>1
  <2>2. QED
    BY <1>0, <1>1, <2>1 DEF ChainInv
<1>3. ChainInv'
  BY <1>0, <1>1, <1>2 DEF ChainInv
<1>4. ASSUME NEW b, Known(b)
      PROVE  Known(b)' /\ (OnChain(b)' => OnChain(b) /\ Num(b) <= k)
                       /\ (OnChain(b) /\ Num(b) <= k => OnChain(b)')
  <2>1. Known(b)' /\ b \in Block /\ Num(b) \in Nat
    BY <1>0, <1>1, <1>2, <1>4, KnownFacts DEF Known, Num, ChainInv
  <2>2. OnChain(b)' <=> Num(b) <= Len(chain') /\ \A i \in 1..Num(b) : b[i] = chain'[i]
    BY <1>3, <2>1, OnChainIffNext
  <2>3. OnChain(b) <=> Num(b) <= Len(chain) /\ \A i \in 1..Num(b) : b[i] = chain[i]
    BY <2>1, OnChainIff
  <2>4. ASSUME OnChain(b)'
        PROVE  Num(b) <= k
    <3>1. SUFFICES ASSUME Num(b) > k
                   PROVE  FALSE
      BY <1>0, <2>1
    <3>2. b[k + 1] = forks + 1
      BY <1>0, <1>2, <2>1, <2>2, <2>4, <3>1
    <3>3. b \in Seq(0..forks) /\ k + 1 \in 1..Len(b)
      BY <1>0, <1>4, <2>1, <3>1 DEF Known, Num
    <3>4. b[k + 1] \in 0..forks /\ forks \in Nat
      BY <3>3, ElementOfSeq DEF ChainInv
    <3>5. QED
      BY <3>2, <3>4
  <2>5. QED
    BY <1>0, <1>2, <2>1, <2>2, <2>3, <2>4
<1>5. \A n \in Nat : Fixed(n) => Fixed(n)' /\ n <= k
  BY <1>0, <1>1, <1>2, Bounds DEF Fixed, ChainInv
<1>6. Ancestor(chain', k) = Ancestor(chain, k)
  <2>1. chain' \in Seq(0..forks') /\ chain \in Seq(0..forks) /\ k \in Nat /\ k <= Len(chain) /\ k <= Len(chain')
    BY <1>0, <1>2 DEF ChainInv
  <2>2. QED
    BY <1>2, <2>1, SameAncestor
<1>7. QED
  BY <1>1, <1>2, <1>3, <1>4, <1>5, <1>6, KnownFacts DEF Grown, ChainInv

LEMMA AdvanceLibGrown ==
  ASSUME ChainInv, NEW l \in 1..Len(chain), AdvanceLib(l)
  PROVE  ChainInv' /\ Grown
<1>1. lib' = l /\ lib < l /\ UNCHANGED <<chain, forks, irreversibleOnly, running, dsQueue, wire>>
  BY DEF AdvanceLib, memoryVars
<1>2. ChainInv'
  BY <1>1, ConfigAssumption DEF ChainInv
<1>3. QED
  BY <1>1, <1>2 DEF Grown, Known, OnChain, Fixed, ChainInv

-----------------------------------------------------------------------------
(* Steps of the chain, seen from the reader *)

LEMMA PipeFacts ==
  ASSUME ChainInv
  PROVE  /\ pipe \in Seq(Response) /\ Len(pipe) \in Nat /\ Len(pipe) = Len(dsQueue) + Len(wire)
         /\ \A j \in 1..Len(dsQueue) : pipe[j] = dsQueue[j]
         /\ \A j \in 1..Len(wire) : pipe[Len(dsQueue) + j] = wire[j]
         /\ \A j \in 1..Len(pipe) : pipe[j] \in Response /\ pipe[j].id \in Block /\ Num(pipe[j].id) \in Nat
<1>1. /\ pipe \in Seq(Response) /\ Len(pipe) = Len(dsQueue) + Len(wire)
      /\ \A j \in 1..Len(dsQueue) : pipe[j] = dsQueue[j]
      /\ \A j \in 1..Len(wire) : pipe[Len(dsQueue) + j] = wire[j]
  BY DEF ChainInv, pipe
<1>2. \A j \in 1..Len(pipe) : pipe[j] \in Response
  BY <1>1
<1>3. \A r \in Response : r.id \in Block /\ Num(r.id) \in Nat
  BY DEF Response, Block, Num
<1>4. QED
  BY <1>1, <1>2, <1>3

LEMMA SettledGrown ==
  ASSUME ChainInv, Grown, UNCHANGED <<dsQueue, wire>>,
         \A j \in 1..Len(pipe) : Sound(pipe[j]),
         NEW n \in Nat, NEW j \in Nat, j >= 1, Settled(n, j), n < cursor'
  PROVE  Settled(n, j)'
<1>1. pipe' = pipe /\ Sending' = Sending /\ Len(pipe) \in Nat
  BY PipeFacts DEF pipe, Sending
<1>2. Fixed(n) /\ Fixed(n)'
  BY DEF Settled, Grown
<1>3. ASSUME NEW k \in j..Sending
      PROVE  n < Number(k)'
  BY <1>1, <1>3 DEF Number, Settled
<1>4. ASSUME NEW k \in j..Len(pipe)
      PROVE  OnChain(Ancestor(pipe[k].id, n))'
  <2>1. Known(pipe[k].id) /\ n \in 0..Num(pipe[k].id)
    <3>1. k \in j..Sending /\ k # Sending /\ k \in 1..Len(pipe)
      BY <1>1, <1>4 DEF Sending
    <3>2. QED
      BY <3>1, <1>4, PipeFacts DEF Sound, Settled, Number
  <2>2. Known(Ancestor(pipe[k].id, n)) /\ Num(Ancestor(pipe[k].id, n)) = n
    BY <2>1, KnownAncestor
  <2>3. OnChain(Ancestor(pipe[k].id, n))
    BY <1>4 DEF Settled
  <2>4. QED
    BY <1>1, <1>2, <2>2, <2>3 DEF Grown
<1>5. QED
  BY <1>1, <1>2, <1>3, <1>4 DEF Settled

(* What a step of the chain means for the next block the node sends. *)
CursorKept ==
  /\ cursor' \in Nat
  /\ \A n \in Nat : Fixed(n) /\ n < cursor => n < cursor'
  /\ Continues(PrevNum(Sending), Prev(Sending), cursor, chain)'

PrevKnown == \A j \in 1..Sending : Known(Prev(j)) /\ (Prev(j) # <<>> => Num(Prev(j)) = PrevNum(j))

LEMMA PrevFacts ==
  ASSUME ChainInv, PipeInv, ViewInv
  PROVE  PrevKnown
<1>1. SUFFICES ASSUME NEW j \in 1..Sending
               PROVE  Known(Prev(j)) /\ (Prev(j) # <<>> => Num(Prev(j)) = PrevNum(j))
  BY DEF PrevKnown
<1>2. CASE j = 1
  BY <1>2 DEF Prev, PrevNum, ViewInv
<1>3. CASE j # 1
  <2>1. j - 1 \in 1..Len(pipe)
    BY <1>3, PipeFacts DEF Sending
  <2>2. QED
    BY <1>3, <2>1 DEF Prev, PrevNum, PipeInv, Sound
<1>4. QED
  BY <1>2, <1>3

LEMMA PipeGrown ==
  ASSUME ChainInv, ChainInv', PipeInv, ViewInv, Grown, CursorKept,
         UNCHANGED <<dsQueue, wire, view, currentBlock, irreversibleOnly>>
  PROVE  PipeInv'
<1>1. pipe' = pipe /\ Sending' = Sending /\ Len(pipe) \in Nat /\ Sending = Len(pipe) + 1
  BY PipeFacts DEF pipe, Sending
<1>2. \A j \in 1..Len(pipe) : Sound(pipe[j]) /\ Sound(pipe[j])'
  <2>1. ASSUME NEW j \in 1..Len(pipe)
        PROVE  Sound(pipe[j]) /\ Sound(pipe[j])'
    <3>1. Sound(pipe[j]) /\ pipe[j].lib \in Nat /\ pipe[j].head \in Nat
      BY PipeFacts DEF PipeInv, Response
    <3>2. /\ Known(pipe[j].id)' /\ lib <= lib' /\ Len(chain) <= Len(chain')
          /\ lib \in Nat /\ lib' \in Nat /\ Len(chain) \in Nat /\ Len(chain') \in Nat
      BY <1>1, <3>1 DEF Sound, Grown, ChainInv
    <3>3. pipe[j].lib <= lib' /\ pipe[j].head <= Len(chain')
      BY <3>1, <3>2 DEF Sound
    <3>4. QED
      BY <1>1, <3>1, <3>2, <3>3 DEF Sound
  <2>2. QED
    BY <2>1
<1>3. ASSUME NEW j \in 1..Sending
      PROVE  Continues(PrevNum(j), Prev(j), Number(j), Branch(j))'
  <2>1. CASE j = Sending
    BY <1>1, <2>1 DEF CursorKept, Number, Branch
  <2>2. CASE j # Sending
    <3>1. j \in 1..Len(pipe)
      BY <1>1, <2>2
    <3>2. /\ PrevNum(j)' = PrevNum(j) /\ Prev(j)' = Prev(j)
          /\ Number(j)' = Num(pipe[j].id) /\ Branch(j)' = pipe[j].id
          /\ Number(j) = Num(pipe[j].id) /\ Branch(j) = pipe[j].id
      BY <1>1, <2>2 DEF PrevNum, Prev, Number, Branch
    <3>3. Continues(PrevNum(j), Prev(j), Num(pipe[j].id), pipe[j].id)
      BY <3>2 DEF PipeInv
    <3>4. ASSUME Num(pipe[j].id) <= PrevNum(j)
          PROVE  ~ OnChain(Ancestor(Prev(j), Num(pipe[j].id)))'
      <4>1. Known(Prev(j)) /\ Num(Prev(j)) = PrevNum(j) /\ ~ OnChain(Ancestor(Prev(j), Num(pipe[j].id)))
        BY <3>3, <3>4, PrevFacts DEF PrevKnown, Continues
      <4>2. Num(pipe[j].id) \in 0..Num(Prev(j))
        BY <3>1, <3>4, <4>1, PipeFacts, KnownFacts
      <4>3. QED
        BY <1>1, <3>2, <4>1, <4>2, KnownAncestor DEF Grown
    <3>5. QED
      BY <1>1, <3>2, <3>3, <3>4 DEF Continues
  <2>3. QED
    BY <2>1, <2>2
<1>4. ASSUME NEW j \in 1..Len(pipe), NEW n \in 1..Num(pipe[j].id), FixedBy(pipe[j], n)
      PROVE  OnChain(Ancestor(pipe[j].id, n))' /\ Settled(n, j + 1)'
  <2>0. n \in Nat /\ n >= 1 /\ n <= Num(pipe[j].id)
    BY PipeFacts
  <2>1. OnChain(Ancestor(pipe[j].id, n)) /\ Settled(n, j + 1)
    BY <1>4, Zenon DEF PipeInv
  <2>2. n < cursor /\ Fixed(n) /\ Fixed(n)'
    BY <1>1, <2>0, <2>1 DEF Settled, Number, Grown
  <2>3. Settled(n, j + 1)'
    BY <1>1, <1>2, <2>0, <2>1, <2>2, SettledGrown DEF CursorKept
  <2>4. Known(Ancestor(pipe[j].id, n)) /\ Num(Ancestor(pipe[j].id, n)) = n
    BY <1>2, <1>4, PipeFacts, KnownAncestor DEF Sound
  <2>5. QED
    BY <1>1, <2>1, <2>2, <2>3, <2>4 DEF Grown
<1>5. QED
  BY <1>1, <1>2, <1>3, <1>4 DEF PipeInv, CursorKept, FixedBy

LEMMA CursorFacts ==
  ASSUME ChainInv, PipeInv, ViewInv
  PROVE  /\ Sending \in 1..Sending /\ PrevNum(Sending) \in Nat /\ PrevNum(Sending) <= Len(chain)
         /\ Known(Prev(Sending))
         /\ Prev(Sending) # <<>> => Num(Prev(Sending)) = PrevNum(Sending)
         /\ Prev(Sending) = <<>> => cursor <= StartBlock
         /\ Continues(PrevNum(Sending), Prev(Sending), cursor, chain)
         /\ cursor \in Nat /\ cursor > 1 /\ cursor <= PrevNum(Sending) + 1
<1>1. Sending = Len(pipe) + 1 /\ Len(pipe) \in Nat
  BY PipeFacts DEF Sending
<1>2. Continues(PrevNum(Sending), Prev(Sending), cursor, chain)
  BY <1>1 DEF PipeInv, Number, Branch
<1>3. Known(Prev(Sending)) /\ (Prev(Sending) # <<>> => Num(Prev(Sending)) = PrevNum(Sending))
  BY <1>1, PrevFacts DEF PrevKnown
<1>4. /\ PrevNum(Sending) \in Nat /\ PrevNum(Sending) <= Len(chain)
      /\ Prev(Sending) = <<>> => PrevNum(Sending) = StartBlock - 1
  <2>1. CASE Sending = 1
    BY <2>1 DEF PrevNum, Prev, ViewInv
  <2>2. CASE Sending # 1
    <3>1. Len(pipe) \in 1..Len(pipe) /\ Sending - 1 = Len(pipe)
      BY <1>1, <2>2
    <3>2. Sound(pipe[Len(pipe)]) /\ pipe[Len(pipe)].id \in Block
      BY <3>1, PipeFacts DEF PipeInv
    <3>3. pipe[Len(pipe)].id # <<>>
      BY <3>2, Bounds DEF Sound, Num, Block
    <3>4. QED
      BY <2>2, <3>1, <3>2, <3>3, KnownFacts DEF PrevNum, Prev, Sound
  <2>3. QED
    BY <2>1, <2>2
<1>5. QED
  BY <1>1, <1>2, <1>3, <1>4, Bounds DEF PipeInv, Continues

LEMMA CursorStays ==
  ASSUME ChainInv, PipeInv, ViewInv, ChainInv', Grown,
         UNCHANGED <<cursor, dsQueue, wire, view, currentBlock>>,
         Ancestor(chain', cursor - 1) = Ancestor(chain, cursor - 1)
  PROVE  CursorKept
<1>1. pipe' = pipe /\ Sending' = Sending
  BY DEF pipe, Sending
<1>2. Prev(Sending)' = Prev(Sending) /\ PrevNum(Sending)' = PrevNum(Sending)
  BY <1>1 DEF Prev, PrevNum
<1>3. ASSUME cursor <= PrevNum(Sending)
      PROVE  ~ OnChain(Ancestor(Prev(Sending), cursor))'
  <2>1. /\ ~ OnChain(Ancestor(Prev(Sending), cursor)) /\ Known(Prev(Sending))
        /\ Num(Prev(Sending)) = PrevNum(Sending) /\ cursor \in 0..Num(Prev(Sending))
    BY <1>3, CursorFacts DEF Continues
  <2>2. Known(Ancestor(Prev(Sending), cursor))
    BY <2>1, KnownAncestor
  <2>3. QED
    BY <1>2, <2>1, <2>2 DEF Grown
<1>4. Continues(PrevNum(Sending), Prev(Sending), cursor, chain)
  BY CursorFacts
<1>5. QED
  BY <1>1, <1>2, <1>3, <1>4, CursorFacts DEF CursorKept, Continues

LEMMA ProduceCursor ==
  ASSUME ChainInv, PipeInv, ViewInv, Produce
  PROVE  CursorKept
<1>1. chain' = Append(chain, forks) /\ UNCHANGED <<cursor, dsQueue, wire, view, currentBlock>>
  BY DEF Produce, memoryVars
<1>2. ChainInv' /\ Grown
  BY ProduceGrown
<1>3. cursor - 1 \in Nat /\ cursor - 1 <= Len(chain)
  BY CursorFacts DEF ChainInv
<1>4. /\ chain \in Seq(0..forks) /\ chain' \in Seq(0..forks')
      /\ Len(chain') = Len(chain) + 1 /\ \A i \in 1..Len(chain) : chain'[i] = chain[i]
  BY <1>1, <1>2 DEF ChainInv
<1>5. Ancestor(chain', cursor - 1) = Ancestor(chain, cursor - 1)
  <2>1. cursor - 1 <= Len(chain') /\ \A i \in 1..(cursor - 1) : chain'[i] = chain[i]
    BY <1>3, <1>4
  <2>2. QED
    BY <1>3, <1>4, <2>1, SameAncestor
<1>6. QED
  BY <1>1, <1>2, <1>5, CursorStays

LEMMA AdvanceLibCursor ==
  ASSUME ChainInv, PipeInv, ViewInv, NEW l \in 1..Len(chain), AdvanceLib(l)
  PROVE  CursorKept
BY AdvanceLibGrown, CursorStays DEF AdvanceLib, memoryVars

LEMMA ForkCursor ==
  ASSUME ChainInv, PipeInv, ViewInv, NEW k \in 1..Len(chain) - 1, Fork(k)
  PROVE  CursorKept
<1>1. /\ cursor' = IF cursor > k + 1 THEN k + 1 ELSE cursor
      /\ k >= lib /\ k >= Len(chain) - ForkDepth /\ forks' = forks + 1
      /\ chain' = [n \in 1..(Len(chain) + 1) |-> IF n <= k THEN chain[n] ELSE forks + 1]
      /\ UNCHANGED <<dsQueue, wire, view, currentBlock>>
  BY DEF Fork, memoryVars
<1>2. /\ ChainInv' /\ Grown /\ Ancestor(chain', k) = Ancestor(chain, k)
      /\ \A b : Known(b) /\ OnChain(b)' => Num(b) <= k
  BY ForkGrown
<1>3. /\ k \in Nat /\ k < Len(chain) /\ Len(chain) \in Nat
      /\ Len(chain') = Len(chain) + 1 /\ StartBlock - 1 <= k
  BY <1>1, <1>2, Bounds DEF ChainInv
<1>0. chain \in Seq(0..forks) /\ chain' \in Seq(0..forks')
  BY <1>2 DEF ChainInv
<1>4. \A n \in Nat : n <= k => Ancestor(chain', n) = Ancestor(chain, n)
  <2>1. ASSUME NEW n \in Nat, n <= k
        PROVE  Ancestor(chain', n) = Ancestor(chain, n)
    <3>1. /\ Ancestor(Ancestor(chain', k), n) = Ancestor(chain', n)
          /\ Ancestor(Ancestor(chain, k), n) = Ancestor(chain, n)
      <4>1. chain \in Seq(0..forks) /\ chain' \in Seq(0..forks') /\ k \in 0..Len(chain) /\ k \in 0..Len(chain') /\ n \in 0..k
        BY <1>0, <1>3, <2>1
      <4>2. QED
        BY <4>1, Nested
    <3>2. QED
      BY <1>2, <3>1
  <2>2. QED
    BY <2>1
<1>5. CASE cursor <= k + 1
  <2>1. cursor' = cursor /\ cursor - 1 \in Nat /\ cursor - 1 <= k
    BY <1>1, <1>3, <1>5, CursorFacts
  <2>2. QED
    BY <1>1, <1>2, <1>4, <2>1, CursorStays
<1>6. CASE cursor > k + 1
  <2> DEFINE p == Prev(Sending)
             num == PrevNum(Sending)
  <2>1. pipe' = pipe /\ Sending' = Sending
    BY <1>1 DEF pipe, Sending
  <2>2. Prev(Sending)' = p /\ PrevNum(Sending)' = num
    BY <1>1, <2>1 DEF Prev, PrevNum
  <2>3. /\ p # <<>> /\ Known(p) /\ Num(p) = num /\ num \in Nat /\ cursor' = k + 1
        /\ cursor <= num + 1 /\ cursor \in Nat /\ Ancestor(chain, cursor - 1) = Ancestor(p, cursor - 1)
    BY <1>1, <1>3, <1>6, CursorFacts, Bounds DEF Continues
  <2>4. Ancestor(chain, k) = Ancestor(p, k)
    <3>1. /\ Ancestor(Ancestor(chain, cursor - 1), k) = Ancestor(chain, k)
          /\ Ancestor(Ancestor(p, cursor - 1), k) = Ancestor(p, k)
      <4>1. /\ chain \in Seq(0..forks) /\ p \in Seq(Nat) /\ cursor - 1 \in 0..Len(chain)
            /\ cursor - 1 \in 0..Len(p) /\ k \in 0..(cursor - 1)
        <5>1. p \in Block /\ Len(chain) \in Nat /\ Num(p) <= Len(chain)
          BY <2>3, KnownFacts DEF ChainInv
        <5>2. QED
          BY <1>0, <1>3, <1>6, <2>3, <5>1 DEF Block, Num
      <4>2. QED
        BY <4>1, Nested
    <3>2. QED
      BY <2>3, <3>1
  <2>5. ~ OnChain(Ancestor(p, k + 1))'
    <3>1. Known(Ancestor(p, k + 1)) /\ Num(Ancestor(p, k + 1)) = k + 1
      BY <1>3, <1>6, <2>3, KnownAncestor
    <3>2. QED
      BY <1>2, <1>3, <2>2, <3>1
  <2>6. Continues(num, p, k + 1, chain)'
    <3>1. (k + 1) - 1 = k /\ k + 1 <= num
      BY <1>3, <1>6, <2>3
    <3>2. Ancestor(chain', k) = Ancestor(p, k)
      BY <1>2, <2>4
    <3>3. QED
      BY <1>3, <2>2, <2>3, <2>5, <3>1, <3>2, Bounds DEF Continues
  <2>7. \A n \in Nat : Fixed(n) => n < k + 1
    BY <1>1, <1>3, Bounds DEF Fixed, ChainInv
  <2>8. QED
    BY <1>3, <2>2, <2>3, <2>6, <2>7 DEF CursorKept
<1>7. QED
  BY <1>3, <1>5, <1>6, CursorFacts

(* What is settled on the branch that is processed remains settled. *)
SettledKept ==
  \A n \in 0..currentBlock :
    Settled(n, 1) /\ (view # <<>> => OnChain(Ancestor(view, n))) => Settled(n, 1)'

LEMMA HeldGrown ==
  ASSUME ChainInv, Grown, ChainInv', NEW b, Known(b), NEW have, Resumes(have, b)
  PROVE  Resumes(have, b)'
<1>1. ASSUME NEW n \in 1..Num(b), n <= lib, OnChain(Ancestor(b, n))
      PROVE  n <= lib' /\ OnChain(Ancestor(b, n))'
  <2>1. n \in 0..Num(b) /\ n \in Nat
    BY KnownFacts
  <2>2. Known(Ancestor(b, n)) /\ Num(Ancestor(b, n)) = n
    BY <2>1, KnownAncestor
  <2>3. Fixed(n) /\ n <= lib'
    BY <1>1, <2>1 DEF Fixed, Grown, ChainInv
  <2>4. QED
    BY <1>1, <2>2, <2>3 DEF Grown
<1>2. QED
  BY <1>1 DEF Resumes, Ancestors, Held

LEMMA ConsumedFacts ==
  ASSUME ChainInv, PipeInv, ViewInv
  PROVE  /\ Known(Consumed) /\ ConsumedNum \in Nat /\ ConsumedNum <= Len(chain)
         /\ Consumed # <<>> => ConsumedNum = Num(Consumed) /\ StartBlock <= ConsumedNum
         /\ Consumed = <<>> => ConsumedNum = StartBlock - 1
         /\ Consumed = Prev(Len(dsQueue) + 1) /\ ConsumedNum = PrevNum(Len(dsQueue) + 1)
         /\ Len(dsQueue) + 1 \in 1..Sending
<1>1. CASE dsQueue = <<>>
  BY <1>1, PipeFacts DEF Consumed, ConsumedNum, ViewInv, Prev, PrevNum, Sending
<1>2. CASE dsQueue # <<>>
  <2> DEFINE l == Len(dsQueue)
  <2>1. l \in 1..Len(pipe) /\ l \in Nat /\ pipe[l] = dsQueue[l]
    BY <1>2, PipeFacts DEF ChainInv
  <2>2. Sound(pipe[l]) /\ pipe[l].id \in Block
    BY <2>1, PipeFacts DEF PipeInv
  <2>3. pipe[l].id # <<>>
    BY <2>2, Bounds DEF Sound, Num, Block
  <2>4. Consumed = pipe[l].id /\ ConsumedNum = Num(pipe[l].id)
    BY <1>2, <2>1 DEF Consumed, ConsumedNum
  <2>5. Known(pipe[l].id) /\ StartBlock <= Num(pipe[l].id)
    BY <2>2 DEF Sound
  <2>6. Prev(l + 1) = pipe[l].id /\ PrevNum(l + 1) = Num(pipe[l].id) /\ l + 1 \in 1..Sending
    BY <2>1, PipeFacts DEF Prev, PrevNum, Sending
  <2>7. QED
    BY <2>3, <2>4, <2>5, <2>6, KnownFacts
<1>3. QED
  BY <1>1, <1>2

(* Produce, Fork and AdvanceLib leave everything else as it is. *)
OthersUnchanged == UNCHANGED <<irreversibleOnly, wire, running, memoryVars, store>>

LEMMA GrownPath ==
  ASSUME PathInv, Grown, ChainInv', running => CursorKept, OthersUnchanged
  PROVE  PathInv' /\ (running => SettledKept)
<1>1. /\ wire' = wire /\ running' = running /\ store' = store /\ args' = args
      /\ dsQueue' = dsQueue /\ pc' = pc /\ state' = state /\ currentBlock' = currentBlock
      /\ lastIrreversibleBlock' = lastIrreversibleBlock /\ collectedBlocks' = collectedBlocks
      /\ lastBlockUpdate' = lastBlockUpdate /\ liveQueue' = liveQueue /\ actionLogs' = actionLogs /\ db' = db
      /\ notifications' = notifications /\ view' = view
      /\ irreversibleOnly' = irreversibleOnly
  BY DEF OthersUnchanged, memoryVars
<1>2. StoreInv'
  <2>1. Known(store.tip) /\ Ancestor(store.tip, store.position) = Ancestor(store'.tip, store'.position)
    BY <1>1 DEF PathInv, StoreInv
  <2>2. Known(Ancestor(store.tip, store.position))
    <3>1. store.position \in 0..Num(store.tip) /\ ChainInv
      BY KnownFacts DEF PathInv, StoreInv, Store
    <3>2. QED
      BY <2>1, <3>1, KnownAncestor
  <2>3. Resumes(store.blocks, Ancestor(store.tip, store.position))'
    BY <1>1, <2>1, <2>2, HeldGrown DEF PathInv, StoreInv
  <2>4. Known(store.tip)'
    BY <1>1, <2>1 DEF Grown
  <2>5. QED
    BY <1>1, <2>3, <2>4 DEF PathInv, StoreInv
<1>3. CASE ~ running
  BY <1>1, <1>2, <1>3 DEF PathInv, Stopped
<1>4. CASE running
  <2>1. ChainInv /\ PipeInv /\ RequestInv /\ ViewInv /\ StateInv /\ StageInv /\ CursorKept
    BY <1>4 DEF PathInv
  <2>2. PipeInv'
    BY <1>1, <2>1, PipeGrown
  <2>3. /\ Consumed' = Consumed /\ ConsumedNum' = ConsumedNum /\ pipe' = pipe
    BY <1>1 DEF Consumed, ConsumedNum, pipe
  <2>4. RequestInv'
    BY <1>1, <2>1, <2>3, HeldGrown, ConsumedFacts DEF RequestInv
  <2>5. ASSUME NEW n \in 0..currentBlock, Settled(n, 1)
        PROVE  Settled(n, 1)'
    <3>1. n \in Nat /\ n < cursor /\ Fixed(n)
      BY <2>1, <2>5, PipeFacts DEF ViewInv, Settled, Number, Sending
    <3>2. \A j \in 1..Len(pipe) : Sound(pipe[j])
      BY <2>1 DEF PipeInv
    <3>3. QED
      BY <1>1, <2>1, <2>5, <3>1, <3>2, SettledGrown DEF CursorKept
  <2>6. ASSUME NEW n \in 1..currentBlock, view # <<>>, Settled(n, 1), OnChain(Ancestor(view, n))
        PROVE  OnChain(Ancestor(view, n))'
    <3>1. n \in 0..Num(view) /\ Known(view) /\ Fixed(n)
      BY <2>1, <2>6 DEF ViewInv, Settled
    <3>2. Known(Ancestor(view, n)) /\ Num(Ancestor(view, n)) = n
      BY <2>1, <3>1, KnownAncestor
    <3>3. QED
      BY <1>1, <2>6, <3>1, <3>2 DEF Grown
  <2>7. ViewInv'
    <3>1. Known(view)' /\ currentBlock <= Len(chain')
      BY <1>1, <2>1 DEF Grown, ViewInv, ChainInv
    <3>2. \A n \in 1..currentBlock : n <= lastIrreversibleBlock =>
            Settled(n, 1)' /\ (view # <<>> => OnChain(Ancestor(view, n))')
      BY <2>1, <2>5, <2>6 DEF ViewInv
    <3>3. QED
      BY <1>1, <2>1, <3>1, <3>2 DEF ViewInv
  <2>8. StateInv'
    <3>1. ASSUME Settled(currentBlock, 1), OnChain(view)
          PROVE  Settled(currentBlock, 1)' /\ OnChain(view)'
      <4>1. currentBlock \in 0..currentBlock /\ Known(view)
        BY <2>1 DEF ViewInv
      <4>2. Fixed(Num(view))
        <5>1. CASE view # <<>>
          BY <2>1, <3>1, <5>1 DEF ViewInv, Settled
        <5>2. CASE view = <<>>
          BY <2>1, <5>2 DEF Num, Fixed, ChainInv
        <5>3. QED
          BY <5>1, <5>2
      <4>3. QED
        BY <1>1, <2>5, <3>1, <4>1, <4>2 DEF Grown
    <3>2. QED
      BY <1>1, <2>1, <3>1 DEF StateInv
  <2>9. StageInv'
    <3>1. Known(view)
      BY <2>1 DEF ViewInv
    <3>2. /\ Resumes(store.blocks, view) => Resumes(store.blocks, view)'
          /\ Resumes(db.store.blocks, view) => Resumes(db.store.blocks, view)'
      BY <1>1, <2>1, <3>1, HeldGrown
    <3>3. TxInv => TxInv'
      BY <1>1, <3>2 DEF TxInv
    <3>4. CommitInv => CommitInv'
      BY <1>1 DEF CommitInv
    <3>5. Transaction(0)' = Transaction(0)
      BY <1>1 DEF Transaction
    <3>6. QED
      BY <1>1, <2>1, <3>2, <3>3, <3>4, <3>5 DEF StageInv
  <2>10. SettledKept
    BY <2>5 DEF SettledKept
  <2>11. QED
    BY <1>1, <1>2, <1>4, <2>2, <2>4, <2>7, <2>8, <2>9, <2>10 DEF PathInv
<1>5. QED
  BY <1>3, <1>4

LEMMA ChainSteps ==
  ASSUME PathInv,
         Produce \/ (\E k \in 1..Len(chain) - 1 : Fork(k)) \/ (\E l \in 1..Len(chain) : AdvanceLib(l))
  PROVE  PathInv' /\ Grown /\ OthersUnchanged /\ (running => SettledKept)
<1>1. ChainInv /\ (running => PipeInv /\ ViewInv)
  BY DEF PathInv
<1>2. CASE Produce
  <2>1. OthersUnchanged
    BY <1>2 DEF Produce, OthersUnchanged
  <2>2. QED
    BY <1>1, <1>2, <2>1, ProduceGrown, ProduceCursor, GrownPath
<1>3. CASE \E k \in 1..Len(chain) - 1 : Fork(k)
  <2>1. PICK k \in 1..Len(chain) - 1 : Fork(k)
    BY <1>3
  <2>2. OthersUnchanged
    BY <2>1 DEF Fork, OthersUnchanged
  <2>3. QED
    BY <1>1, <2>1, <2>2, ForkGrown, ForkCursor, GrownPath
<1>4. CASE \E l \in 1..Len(chain) : AdvanceLib(l)
  <2>1. PICK l \in 1..Len(chain) : AdvanceLib(l)
    BY <1>4
  <2>2. OthersUnchanged
    BY <2>1 DEF AdvanceLib, OthersUnchanged
  <2>3. QED
    BY <1>1, <2>1, <2>2, AdvanceLibGrown, AdvanceLibCursor, GrownPath
<1>5. QED
  BY <1>2, <1>3, <1>4

-----------------------------------------------------------------------------
(* Requests *)

LEMMA PrefixIsAncestor ==
  ASSUME ChainInv, NEW b \in Block
  PROVE  IsPrefix(b, chain) <=> OnChain(b)
<1>1. b \in Seq(Nat) /\ chain \in Seq(0..forks) /\ Len(b) \in Nat /\ Len(chain) \in Nat
  BY DEF Block, ChainInv
<1>2. Ancestor(b, Len(b)) = b
  BY <1>1, Whole
<1>3. QED
  BY <1>1, <1>2 DEF IsPrefix, OnChain, Ancestor, Num

(* The node resumes with a block that continues the branch b of the request: *)
(* it goes back to the first block of b that is not on its own branch.       *)
LEMMA FirstSentContinues ==
  ASSUME ChainInv, NEW b, Known(b), NEW num \in Nat, num >= StartBlock - 1,
         b # <<>> => num = Num(b), NEW request, request.start = num + 1,
         Resumes(request.have, b)
  PROVE  /\ FirstSent(request) \in Nat /\ FirstSent(request) <= num + 1
         /\ Continues(num, b, FirstSent(request), chain)
         /\ \A n \in 0..num : (b # <<>> => OnChain(Ancestor(b, n))) => n < FirstSent(request)
<1> DEFINE Off == {h \in request.have : ~ IsPrefix(h, chain)}
           S   == {request.start} \cup {Num(h) : h \in Off}
           f   == FirstSent(request)
<1>1. /\ b \in Block /\ Num(b) \in Nat
      /\ \A h \in request.have : Num(h) \in StartBlock..Num(b) /\ h = Ancestor(b, Num(h)) /\ h \in Block
  <2>1. b \in Block /\ Num(b) \in Nat
    BY KnownFacts
  <2>2. ASSUME NEW h \in request.have
        PROVE  Num(h) \in StartBlock..Num(b) /\ h = Ancestor(b, Num(h)) /\ h \in Block
    <3>1. Num(h) \in StartBlock..Num(b) /\ h = Ancestor(b, Num(h))
      BY DEF Resumes, Ancestors
    <3>2. Num(h) \in 0..Num(b)
      BY <2>1, <3>1, Bounds
    <3>3. Ancestor(b, Num(h)) \in Block
      BY <2>1, <3>2, AncestorFacts DEF Block, Num
    <3>4. QED
      BY <3>1, <3>3
  <2>3. QED
    BY <2>1, <2>2
<1>2. S \in SUBSET Nat /\ S # {}
  BY <1>1, Bounds
<1>3. f \in S /\ f \in Nat /\ \A m \in S : f <= m
  BY <1>2, MinFacts DEF FirstSent
<1>4. f <= num + 1 /\ StartBlock <= f
  BY <1>1, <1>3, Bounds
<1>5. ASSUME f <= num
      PROVE  b # <<>> /\ ~ OnChain(Ancestor(b, f))
  <2>1. PICK h \in Off : f = Num(h)
    BY <1>3, <1>5
  <2>2. h = Ancestor(b, f) /\ ~ OnChain(h) /\ f <= Num(b) /\ f > 0
    BY <1>1, <1>4, <2>1, PrefixIsAncestor, Bounds
  <2>3. b # <<>>
    BY <2>2, <1>3 DEF Num
  <2>4. QED
    BY <2>2, <2>3
<1>6. ASSUME b # <<>>
      PROVE  Ancestor(chain, f - 1) = Ancestor(b, f - 1)
  <2>1. num = Num(b) /\ f - 1 \in 0..Num(b) /\ Num(b) <= Len(chain)
    BY <1>1, <1>3, <1>4, <1>6, Bounds, KnownFacts
  <2>2. CASE f - 1 = 0
    BY <2>2 DEF Ancestor
  <2>3. CASE f - 1 > 0
    <3>1. OnChain(Ancestor(b, f - 1))
      <4>1. f - 1 \in 1..Num(b)
        BY <2>1, <2>3
      <4>2. CASE Ancestor(b, f - 1) \in request.have
        <5>1. Num(Ancestor(b, f - 1)) = f - 1
          BY <2>1, KnownAncestor
        <5>2. Ancestor(b, f - 1) \notin Off
          <6>1. SUFFICES ASSUME Ancestor(b, f - 1) \in Off
                         PROVE  FALSE
            OBVIOUS
          <6>2. f - 1 \in S
            BY <5>1, <6>1
          <6>3. f <= f - 1
            BY <1>3, <6>2, Zenon
          <6>4. QED
            BY <1>3, <6>3
        <5>3. QED
          BY <1>1, <4>2, <5>2, PrefixIsAncestor
      <4>3. QED
        BY <4>1, <4>2 DEF Resumes, Held
    <3>2. Num(Ancestor(b, f - 1)) = f - 1
      BY <2>1, KnownAncestor
    <3>3. QED
      BY <3>1, <3>2 DEF OnChain
  <2>4. QED
    BY <1>1, <1>3, <1>4, <2>2, <2>3, Bounds
<1>7. Continues(num, b, f, chain)
  BY <1>4, <1>5, <1>6 DEF Continues
<1>8. ASSUME NEW n \in 0..num, b # <<>> => OnChain(Ancestor(b, n))
      PROVE  n < f
  <2>1. SUFFICES ASSUME f <= n
                 PROVE  FALSE
    BY <1>3
  <2>2. b # <<>> /\ ~ OnChain(Ancestor(b, f)) /\ OnChain(Ancestor(b, n)) /\ num = Num(b)
    BY <1>3, <1>5, <1>8, <2>1
  <2>3. n \in 0..Len(b) /\ f \in 0..n /\ b \in Seq(Nat)
    BY <1>1, <1>3, <2>1, <2>2 DEF Num, Block
  <2>4. Ancestor(Ancestor(b, n), f) = Ancestor(b, f) /\ Ancestor(b, n) \in Block /\ Num(Ancestor(b, n)) = n
    BY <2>3, Nested, AncestorFacts DEF Block, Num
  <2>5. QED
    BY <2>2, <2>3, <2>4, OnChainAncestor
<1>9. QED
  BY <1>3, <1>4, <1>7, <1>8

-----------------------------------------------------------------------------
(* Steps of the node and of the connection *)

(* The part of the invariant about the branch being processed depends on  *)
(* the pipe only through Settled.                                         *)
LEMMA PipeStep ==
  ASSUME PathInv, running, PipeInv', RequestInv', ChainInv',
         UNCHANGED <<nodeVars, running, pc, state, currentBlock, lastIrreversibleBlock,
                     collectedBlocks, lastBlockUpdate, liveQueue, actionLogs, db, notifications, view, store>>,
         SettledKept
  PROVE  PathInv'
<1>1. /\ chain' = chain /\ lib' = lib /\ forks' = forks /\ running' = running /\ store' = store
      /\ irreversibleOnly' = irreversibleOnly
      /\ pc' = pc /\ state' = state /\ currentBlock' = currentBlock /\ db' = db
      /\ lastIrreversibleBlock' = lastIrreversibleBlock /\ collectedBlocks' = collectedBlocks
      /\ lastBlockUpdate' = lastBlockUpdate /\ liveQueue' = liveQueue /\ actionLogs' = actionLogs
      /\ notifications' = notifications /\ view' = view
  BY DEF nodeVars
<1>2. \A b : OnChain(b)' = OnChain(b) /\ Known(b)' = Known(b)
  BY <1>1 DEF OnChain, Known
<1>3. \A have, b : Resumes(have, b)' = Resumes(have, b)
  BY <1>1, <1>2 DEF Resumes, Ancestors, Held
<1>4. StoreInv'
  BY <1>1, <1>2, <1>3 DEF PathInv, StoreInv
<1>5. ViewInv' /\ StateInv'
  <2>1. ViewInv /\ StateInv
    BY DEF PathInv
  <2>2. \A n \in 1..currentBlock : n <= lastIrreversibleBlock =>
          Settled(n, 1)' /\ (view # <<>> => OnChain(Ancestor(view, n))')
    <3>1. \A n \in 1..currentBlock : n \in 0..currentBlock
      BY <2>1 DEF ViewInv
    <3>2. QED
      BY <1>2, <2>1, <3>1 DEF ViewInv, SettledKept
  <2>3. ViewInv'
    BY <1>1, <1>2, <2>1, <2>2 DEF ViewInv
  <2>4. ASSUME Settled(currentBlock, 1), OnChain(view)
        PROVE  Settled(currentBlock, 1)'
    <3>1. view # <<>> => Ancestor(view, currentBlock) = view
      BY <2>1, Whole, KnownFacts DEF ViewInv, Known, Num
    <3>2. QED
      BY <2>1, <2>4, <3>1 DEF ViewInv, SettledKept
  <2>5. StateInv'
    BY <1>1, <1>2, <2>1, <2>4 DEF StateInv
  <2>6. QED
    BY <2>3, <2>5
<1>6. StageInv'
  <2>1. TxInv => TxInv'
    BY <1>1, <1>3 DEF TxInv
  <2>2. CommitInv => CommitInv'
    BY <1>1 DEF CommitInv
  <2>3. Transaction(0)' = Transaction(0)
    BY <1>1 DEF Transaction
  <2>4. QED
    BY <1>1, <1>3, <2>1, <2>2, <2>3 DEF StageInv, PathInv
<1>7. QED
  BY <1>1, <1>4, <1>5, <1>6 DEF PathInv

LEMMA SendStep ==
  ASSUME PathInv, Send
  PROVE  PathInv' /\ SettledKept
<1>r. PICK r : r = [id |-> SubSeq(chain, 1, cursor), head |-> Len(chain), lib |-> lib]
  OBVIOUS
<1>n. PICK N : N = Len(pipe) + 1
  OBVIOUS
<1>1. /\ running /\ cursor <= LastSent /\ wire' = Append(wire, r) /\ cursor' = cursor + 1
      /\ UNCHANGED <<nodeVars, running, memoryVars, store>>
  BY <1>r DEF Send
<1>2. /\ chain' = chain /\ lib' = lib /\ forks' = forks /\ irreversibleOnly' = irreversibleOnly
      /\ running' = running /\ dsQueue' = dsQueue /\ args' = args
      /\ view' = view /\ currentBlock' = currentBlock
  BY <1>1 DEF nodeVars, memoryVars
<1>3. ChainInv /\ PipeInv /\ RequestInv /\ ViewInv
  BY <1>1 DEF PathInv
<1>4. /\ cursor \in Nat /\ cursor > 1 /\ StartBlock <= cursor /\ cursor <= Len(chain)
      /\ irreversibleOnly => cursor <= lib
      /\ cursor \in 0..Len(chain) /\ Len(chain) \in Nat /\ lib \in Nat
  BY <1>1, <1>3, CursorFacts DEF LastSent, ChainInv, Continues
<1>5. r.id = Ancestor(chain, cursor) /\ Known(r.id) /\ OnChain(r.id) /\ Num(r.id) = cursor /\ r.id \in Block
  BY <1>r, <1>3, <1>4, ChainAncestor, KnownFacts DEF Ancestor
<1>6. r \in Response /\ r.head = Len(chain) /\ r.lib = lib
  BY <1>r, <1>4, <1>5 DEF Response
<1>7. ChainInv'
  BY <1>1, <1>2, <1>3, <1>6 DEF ChainInv
<1>8. /\ pipe' = Append(pipe, r) /\ Len(pipe) \in Nat /\ Len(pipe') = N /\ Sending' = N + 1
      /\ N = Len(pipe) + 1 /\ N \in Nat /\ N = Sending /\ pipe'[N] = r /\ \A j \in 1..Len(pipe) : pipe'[j] = pipe[j]
  <2>1. pipe' = dsQueue \o Append(wire, r)
    BY <1>1, <1>2 DEF pipe
  <2>2. dsQueue \o Append(wire, r) = Append(pipe, r)
    BY <1>3, <1>6 DEF pipe, ChainInv
  <2>3. pipe \in Seq(Response) /\ Len(pipe) \in Nat
    BY <1>3, PipeFacts
  <2>4. Len(Append(pipe, r)) = N /\ N \in Nat
    BY <1>6, <1>n, <2>3
  <2>5. Append(pipe, r)[N] = r /\ \A j \in 1..Len(pipe) : Append(pipe, r)[j] = pipe[j]
    BY <1>6, <1>n, <2>3
  <2>6. QED
    BY <1>n, <2>1, <2>2, <2>3, <2>4, <2>5 DEF Sending
<1>9. \A b : OnChain(b)' = OnChain(b) /\ Known(b)' = Known(b)
  BY <1>2 DEF OnChain, Known
<1>10. \A n \in 0..cursor : OnChain(Ancestor(r.id, n))
  BY <1>3, <1>5, OnChainAncestor
<1>11. ASSUME NEW n \in Nat, NEW j \in 1..N, Settled(n, j)
       PROVE  Settled(n, j)'
  <2>1. Fixed(n)'
    BY <1>2, <1>11 DEF Settled, Fixed
  <2>2. n < cursor
    BY <1>8, <1>11 DEF Settled, Number
  <2>3. ASSUME NEW k \in j..(N + 1)
        PROVE  n < Number(k)'
    <3>1. CASE k = N + 1
      BY <1>1, <1>4, <1>8, <2>2, <3>1 DEF Number
    <3>2. CASE k = N
      BY <1>4, <1>5, <1>8, <2>2, <3>2 DEF Number
    <3>3. CASE k < N
      <4>1. k \in 1..Len(pipe) /\ k \in j..Sending /\ k # Sending /\ k # Sending'
        BY <1>8, <3>3
      <4>2. QED
        BY <1>8, <1>11, <4>1 DEF Settled, Number
    <3>4. QED
      BY <1>8, <3>1, <3>2, <3>3
  <2>4. ASSUME NEW k \in j..N
        PROVE  OnChain(Ancestor(pipe'[k].id, n))
    <3>1. CASE k = N
      BY <1>4, <1>8, <1>10, <2>2, <3>1
    <3>2. CASE k < N
      BY <1>8, <1>11, <3>2 DEF Settled
    <3>3. QED
      BY <1>8, <3>1, <3>2
  <2>5. QED
    BY <1>8, <1>9, <2>1, <2>3, <2>4 DEF Settled
<1>12. PipeInv'
  <2>1. ASSUME NEW j \in 1..N
        PROVE  Sound(pipe[j])'
    <3>1. CASE j = N
      <4>1. pipe'[j] = r /\ Known(r.id)'
        BY <1>5, <1>8, <1>9, <3>1
      <4>2. StartBlock - 1 <= lib
        BY <1>3 DEF ChainInv
      <4>3. QED
        BY <1>2, <1>4, <1>5, <1>6, <4>1, <4>2 DEF Sound
    <3>2. CASE j < N
      <4>1. pipe'[j] = pipe[j] /\ Sound(pipe[j])
        BY <1>3, <1>8, <3>2 DEF PipeInv
      <4>2. QED
        BY <1>2, <1>9, <4>1 DEF Sound
    <3>3. QED
      BY <1>8, <3>1, <3>2
  <2>2. ASSUME NEW j \in 1..(N + 1)
        PROVE  Continues(PrevNum(j), Prev(j), Number(j), Branch(j))'
    <3>1. CASE j <= N
      <4>1. PrevNum(j)' = PrevNum(j) /\ Prev(j)' = Prev(j) /\ j \in 1..Sending
        BY <1>2, <1>8, <3>1 DEF PrevNum, Prev
      <4>2. Number(j)' = Number(j)
        BY <1>5, <1>8, <3>1 DEF Number
      <4>3. Ancestor(Branch(j)', Number(j) - 1) = Ancestor(Branch(j), Number(j) - 1)
        <5>1. CASE j = N
          <6>1. Branch(j)' = r.id /\ Branch(j) = chain /\ Number(j) = cursor
            BY <1>8, <5>1 DEF Branch, Number
          <6>2. chain \in Seq(0..forks) /\ cursor - 1 \in 0..cursor
            BY <1>3, <1>4 DEF ChainInv
          <6>3. QED
            BY <1>4, <1>5, <6>1, <6>2, Nested
        <5>2. CASE j < N
          BY <1>8, <5>2 DEF Branch
        <5>3. QED
          BY <1>8, <3>1, <5>1, <5>2
      <4>4. Continues(PrevNum(j), Prev(j), Number(j), Branch(j))
        BY <1>3, <4>1 DEF PipeInv
      <4>5. QED
        BY <1>9, <4>1, <4>2, <4>3, <4>4 DEF Continues
    <3>2. CASE j = N + 1
      <4>1. /\ PrevNum(j)' = cursor /\ Prev(j)' = r.id /\ Number(j)' = cursor + 1 /\ Branch(j)' = chain
        BY <1>1, <1>2, <1>5, <1>8, <3>2 DEF PrevNum, Prev, Number, Branch
      <4>2. Ancestor(r.id, cursor) = r.id /\ (cursor + 1) - 1 = cursor
        BY <1>4, <1>5, Whole DEF Num, Block
      <4>3. QED
        BY <1>4, <1>5, <4>1, <4>2, Bounds DEF Continues
    <3>3. QED
      BY <1>8, <3>1, <3>2
  <2>3. ASSUME NEW j \in 1..N, NEW n \in 1..Num(pipe'[j].id), FixedBy(pipe'[j], n)
        PROVE  OnChain(Ancestor(pipe[j].id, n))' /\ Settled(n, j + 1)'
    <3>1. CASE j = N
      <4>1. pipe'[j] = r /\ n \in 1..cursor /\ Fixed(n)
        BY <1>5, <1>6, <1>8, <2>3, <3>1 DEF FixedBy, Fixed
      <4>2. Settled(n, N + 1)'
        <5>1. Fixed(n)'
          BY <1>2, <4>1 DEF Fixed
        <5>2. n < Number(N + 1)'
          BY <1>1, <1>4, <1>8, <4>1 DEF Number
        <5>3. \A k \in (N + 1)..Sending' : k = N + 1
          BY <1>8
        <5>4. (N + 1)..Len(pipe') = {}
          BY <1>8
        <5>5. QED
          BY <5>1, <5>2, <5>3, <5>4 DEF Settled
      <4>3. OnChain(Ancestor(pipe'[j].id, n))
        BY <1>4, <1>10, <4>1
      <4>4. QED
        BY <1>9, <3>1, <4>2, <4>3
    <3>2. CASE j < N
      <4>1. pipe'[j] = pipe[j] /\ j \in 1..Len(pipe) /\ n \in 1..Num(pipe[j].id) /\ n \in Nat /\ j + 1 \in 1..N
        BY <1>8, <2>3, <3>2
      <4>2. FixedBy(pipe[j], n)
        BY <2>3, <4>1
      <4>3. OnChain(Ancestor(pipe[j].id, n)) /\ Settled(n, j + 1)
        BY <1>3, <4>1, <4>2, Zenon DEF PipeInv
      <4>4. QED
        BY <1>9, <1>11, <4>1, <4>3
    <3>3. QED
      BY <1>8, <3>1, <3>2
  <2>4. ASSUME NEW i \in 1..N, NEW j \in 1..N, i < j
        PROVE  pipe'[i].head <= pipe'[j].head
    <3>1. i \in 1..Len(pipe) /\ pipe'[i] = pipe[i] /\ Sound(pipe[i])
      BY <1>3, <1>8, <2>4 DEF PipeInv
    <3>2. CASE j = N
      BY <1>6, <1>8, <3>1, <3>2 DEF Sound
    <3>3. CASE j < N
      BY <1>3, <1>8, <2>4, <3>1, <3>3 DEF PipeInv
    <3>4. QED
      BY <1>8, <3>2, <3>3
  <2>5. QED
    <3>1. cursor' \in Nat
      BY <1>1, <1>4
    <3>2. \A j \in 1..N : \A n \in 1..Num(pipe'[j].id) : FixedBy(pipe[j], n)' =>
            OnChain(Ancestor(pipe[j].id, n))' /\ Settled(n, j + 1)'
      BY <2>3 DEF FixedBy
    <3>3. QED
      BY <1>8, <2>1, <2>2, <2>4, <3>1, <3>2, Zenon DEF PipeInv
<1>13. RequestInv'
  <2>1. Consumed' = Consumed /\ ConsumedNum' = ConsumedNum
    BY <1>2 DEF Consumed, ConsumedNum
  <2>2. Resumes(args.have, Consumed)' = Resumes(args.have, Consumed)
    BY <1>2, <1>9, <2>1 DEF Resumes, Ancestors, Held
  <2>3. QED
    BY <1>2, <1>3, <2>1, <2>2 DEF RequestInv
<1>14. SettledKept
  <2>1. 1 \in 1..N /\ \A n \in 0..currentBlock : n \in Nat
    BY <1>3, <1>8 DEF ViewInv
  <2>2. QED
    BY <1>11, <2>1 DEF SettledKept
<1>15. QED
  BY <1>1, <1>7, <1>12, <1>13, <1>14, PipeStep DEF memoryVars

LEMMA ReconnectStep ==
  ASSUME PathInv, Reconnect
  PROVE  PathInv' /\ SettledKept
<1>n. PICK N : N = Len(dsQueue)
  OBVIOUS
<1>1. /\ running /\ wire' = <<>> /\ cursor' = FirstSent(args)
      /\ UNCHANGED <<nodeVars, running, memoryVars, store>>
  BY DEF Reconnect
<1>2. /\ chain' = chain /\ lib' = lib /\ forks' = forks /\ irreversibleOnly' = irreversibleOnly
      /\ running' = running /\ dsQueue' = dsQueue /\ args' = args
      /\ view' = view /\ currentBlock' = currentBlock
  BY <1>1 DEF nodeVars, memoryVars
<1>3. ChainInv /\ PipeInv /\ RequestInv /\ ViewInv
  BY <1>1 DEF PathInv
<1>4. ChainInv'
  BY <1>1, <1>2, <1>3 DEF ChainInv
<1>5. /\ Len(pipe) \in Nat /\ N \in Nat /\ N <= Len(pipe) /\ Len(pipe') = N /\ Sending' = N + 1
      /\ \A j \in 1..N : pipe'[j] = pipe[j]
  <2>1. pipe' = dsQueue
    BY <1>1, <1>2, <1>3 DEF pipe, ChainInv
  <2>2. QED
    BY <1>n, <1>3, <2>1, PipeFacts DEF Sending, ChainInv
<1>6. \A b : OnChain(b)' = OnChain(b) /\ Known(b)' = Known(b)
  BY <1>2 DEF OnChain, Known
<1>7. /\ Known(Consumed) /\ ConsumedNum \in Nat
      /\ Consumed # <<>> => ConsumedNum = Num(Consumed)
      /\ Consumed = Prev(N + 1) /\ ConsumedNum = PrevNum(N + 1)
  BY <1>n, <1>3, ConsumedFacts
<1>8. /\ cursor' \in Nat /\ Continues(ConsumedNum, Consumed, cursor', chain)
      /\ \A n \in 0..ConsumedNum : (Consumed # <<>> => OnChain(Ancestor(Consumed, n))) => n < cursor'
  <2>1. ConsumedNum >= StartBlock - 1
    BY <1>3, <1>7, ConsumedFacts, Bounds
  <2>2. QED
    BY <1>1, <1>3, <1>7, <2>1, FirstSentContinues DEF RequestInv
<1>9. ASSUME NEW n \in Nat, NEW j \in 1..(N + 1), Settled(n, j), n <= PrevNum(j),
             Prev(j) # <<>> => OnChain(Ancestor(Prev(j), n))
      PROVE  Settled(n, j)'
  <2>1. n < cursor'
    <3>1. CASE j = N + 1
      BY <1>7, <1>8, <1>9, <3>1
    <3>2. CASE j # N + 1
      <4>1. N \in j..Len(pipe) /\ N \in j..Sending /\ N # Sending /\ N + 1 # 1 /\ (N + 1) - 1 = N
        BY <1>5, <3>2 DEF Sending
      <4>2. OnChain(Ancestor(pipe[N].id, n)) /\ n < Num(pipe[N].id)
        BY <1>9, <4>1 DEF Settled, Number
      <4>3. Consumed = pipe[N].id /\ ConsumedNum = Num(pipe[N].id)
        BY <1>7, <4>1 DEF Prev, PrevNum
      <4>4. QED
        BY <1>7, <1>8, <4>2, <4>3
    <3>3. QED
      BY <3>1, <3>2
  <2>2. ASSUME NEW k \in j..(N + 1)
        PROVE  n < Number(k)'
    <3>1. CASE k = N + 1
      BY <1>5, <2>1, <3>1 DEF Number
    <3>2. CASE k # N + 1
      <4>1. k \in 1..N /\ k \in j..Sending /\ k # Sending
        BY <1>5, <3>2 DEF Sending
      <4>2. QED
        BY <1>5, <1>9, <3>2, <4>1 DEF Settled, Number
    <3>3. QED
      BY <3>1, <3>2
  <2>3. ASSUME NEW k \in j..N
        PROVE  OnChain(Ancestor(pipe[k].id, n))'
    <3>1. k \in 1..N /\ k \in j..Len(pipe)
      BY <1>5
    <3>2. QED
      BY <1>5, <1>6, <1>9, <3>1 DEF Settled
  <2>4. Fixed(n)'
    BY <1>2, <1>9 DEF Settled, Fixed
  <2>5. QED
    BY <1>5, <2>2, <2>3, <2>4 DEF Settled
<1>10. PipeInv'
  <2>1. ASSUME NEW j \in 1..N
        PROVE  Sound(pipe[j])'
    <3>1. pipe'[j] = pipe[j] /\ Sound(pipe[j])
      BY <1>3, <1>5 DEF PipeInv
    <3>2. QED
      BY <1>2, <1>6, <3>1 DEF Sound
  <2>2. ASSUME NEW j \in 1..(N + 1)
        PROVE  Continues(PrevNum(j), Prev(j), Number(j), Branch(j))'
    <3>1. PrevNum(j)' = PrevNum(j) /\ Prev(j)' = Prev(j)
      BY <1>2, <1>5 DEF PrevNum, Prev
    <3>2. CASE j = N + 1
      <4>1. Number(j)' = cursor' /\ Branch(j)' = chain
        BY <1>2, <1>5, <3>2 DEF Number, Branch
      <4>2. QED
        BY <1>6, <1>7, <1>8, <3>1, <3>2, <4>1 DEF Continues
    <3>3. CASE j # N + 1
      <4>1. j \in 1..Sending /\ j # Sending /\ j # Sending' /\ j \in 1..N
        BY <1>5, <3>3 DEF Sending
      <4>2. Number(j)' = Number(j) /\ Branch(j)' = Branch(j)
        BY <1>5, <4>1 DEF Number, Branch
      <4>3. Continues(PrevNum(j), Prev(j), Number(j), Branch(j))
        BY <1>3, <4>1 DEF PipeInv
      <4>4. QED
        BY <1>6, <3>1, <4>2, <4>3 DEF Continues
    <3>4. QED
      BY <3>2, <3>3
  <2>3. ASSUME NEW j \in 1..N, NEW n \in 1..Num(pipe'[j].id), FixedBy(pipe[j], n)'
        PROVE  OnChain(Ancestor(pipe[j].id, n))' /\ Settled(n, j + 1)'
    <3>1. /\ pipe'[j] = pipe[j] /\ j \in 1..Len(pipe) /\ n \in 1..Num(pipe[j].id) /\ n \in Nat
          /\ j + 1 \in 1..(N + 1) /\ (j + 1) - 1 = j /\ j + 1 # 1 /\ n <= Num(pipe[j].id)
      <4>1. j \in 1..Len(pipe) /\ pipe'[j] = pipe[j] /\ Num(pipe[j].id) \in Nat
        BY <1>3, <1>5, PipeFacts
      <4>2. QED
        BY <1>5, <4>1
    <3>2. FixedBy(pipe[j], n)
      BY <2>3, <3>1 DEF FixedBy
    <3>3. OnChain(Ancestor(pipe[j].id, n)) /\ Settled(n, j + 1)
      BY <1>3, <3>1, <3>2, Zenon DEF PipeInv
    <3>4. Prev(j + 1) = pipe[j].id /\ PrevNum(j + 1) = Num(pipe[j].id)
      BY <3>1 DEF Prev, PrevNum
    <3>5. QED
      BY <1>6, <1>9, <3>1, <3>3, <3>4
  <2>4. ASSUME NEW i \in 1..N, NEW j \in 1..N, i < j
        PROVE  pipe'[i].head <= pipe'[j].head
    BY <1>3, <1>5, <2>4 DEF PipeInv
  <2>5. QED
    BY <1>5, <1>8, <2>1, <2>2, <2>3, <2>4, Zenon DEF PipeInv
<1>11. RequestInv'
  <2>1. Consumed' = Consumed /\ ConsumedNum' = ConsumedNum
    BY <1>2 DEF Consumed, ConsumedNum
  <2>2. Resumes(args.have, Consumed)' = Resumes(args.have, Consumed)
    BY <1>2, <1>6, <2>1 DEF Resumes, Ancestors, Held
  <2>3. QED
    BY <1>2, <1>3, <2>1, <2>2 DEF RequestInv
<1>12. SettledKept
  <2>1. 1 \in 1..(N + 1) /\ Prev(1) = view /\ PrevNum(1) = currentBlock /\ currentBlock \in Nat
    BY <1>3, <1>5 DEF Prev, PrevNum, ViewInv
  <2>2. QED
    BY <1>9, <2>1 DEF SettledKept
<1>13. QED
  BY <1>1, <1>4, <1>10, <1>11, <1>12, PipeStep DEF memoryVars

LEMMA MoveHead ==
  ASSUME NEW S, NEW q \in Seq(S), NEW w \in Seq(S), w # <<>>
  PROVE  Append(q, Head(w)) \o Tail(w) = q \o w
<1>1. /\ Append(q, Head(w)) \in Seq(S) /\ Tail(w) \in Seq(S)
      /\ Len(Append(q, Head(w))) = Len(q) + 1 /\ Len(Tail(w)) = Len(w) - 1
  OBVIOUS
<1>2. /\ Append(q, Head(w)) \o Tail(w) \in Seq(S) /\ q \o w \in Seq(S)
      /\ Len(Append(q, Head(w)) \o Tail(w)) = Len(q \o w)
  BY <1>1
<1>3. \A i \in 1..Len(q \o w) : (Append(q, Head(w)) \o Tail(w))[i] = (q \o w)[i]
  BY <1>1
<1>4. QED
  BY <1>2, <1>3, SeqEqual

(* From the block r.id, which continues v, a request or a restart can name  *)
(* r.id and what was named before, below r.id and not yet irreversible.     *)
LEMMA ResumesNext ==
  ASSUME ChainInv, NEW v, Known(v), NEW num \in Nat, v # <<>> => num = Num(v),
         v = <<>> => num = StartBlock - 1, NEW r \in Response, Known(r.id), r.lib <= lib,
         StartBlock - 1 <= r.lib, Continues(num, v, Num(r.id), r.id),
         \A n \in 1..Num(r.id) : n <= r.lib => OnChain(Ancestor(r.id, n)),
         NEW have, Resumes(have, v), NEW more, more \subseteq have \cup {r.id},
         \A x \in more : x # r.id => Num(x) < Num(r.id),
         \A x \in have : r.lib < Num(x) /\ Num(x) < Num(r.id) => x \in more,
         r.lib < Num(r.id) => r.id \in more
  PROVE  Resumes(more, r.id)
<1>1. /\ r.id \in Block /\ Num(r.id) \in Nat /\ r.lib \in Nat /\ v \in Block /\ Num(v) \in Nat
      /\ StartBlock <= Num(r.id) /\ lib \in Nat
  BY KnownFacts DEF Response, Continues, ChainInv
<1>2. /\ v # <<>> => Ancestor(r.id, Num(r.id) - 1) = Ancestor(v, Num(r.id) - 1)
      /\ v # <<>> => Num(r.id) - 1 <= Num(v)
      /\ v = <<>> => Num(r.id) <= StartBlock
  BY <1>1, Bounds DEF Continues
<1>3. \A n \in 1..(Num(r.id) - 1) : v # <<>> =>
        n \in 1..Num(v) /\ Ancestor(r.id, n) = Ancestor(v, n)
  <2>1. ASSUME NEW n \in 1..(Num(r.id) - 1), v # <<>>
        PROVE  n \in 1..Num(v) /\ Ancestor(r.id, n) = Ancestor(v, n)
    <3>1. /\ r.id \in Seq(Nat) /\ v \in Seq(Nat) /\ Num(r.id) - 1 \in 0..Len(r.id)
          /\ Num(r.id) - 1 \in 0..Len(v) /\ n \in 0..(Num(r.id) - 1)
      <4>1. Num(r.id) - 1 \in 0..Num(r.id) /\ Num(r.id) - 1 \in 0..Num(v) /\ n \in 0..(Num(r.id) - 1)
        BY <1>1, <1>2, <2>1, Bounds
      <4>2. QED
        BY <1>1, <4>1 DEF Block, Num
    <3>2. /\ Ancestor(Ancestor(r.id, Num(r.id) - 1), n) = Ancestor(r.id, n)
          /\ Ancestor(Ancestor(v, Num(r.id) - 1), n) = Ancestor(v, n)
      BY <3>1, Nested
    <3>3. QED
      BY <1>2, <2>1, <3>1, <3>2 DEF Num
  <2>2. QED
    BY <2>1
<1>4. Ancestor(r.id, Num(r.id)) = r.id
  BY <1>1, Whole DEF Block, Num
<1>5. ASSUME NEW x \in more
      PROVE  Num(x) \in StartBlock..Num(r.id) /\ x = Ancestor(r.id, Num(x))
  <2>1. CASE x = r.id
    BY <1>1, <1>4, <2>1, Bounds
  <2>2. CASE x # r.id
    <3>1. x \in have /\ Num(x) < Num(r.id)
      BY <1>5, <2>2
    <3>2. Num(x) \in StartBlock..Num(v) /\ x = Ancestor(v, Num(x))
      BY <3>1 DEF Resumes, Ancestors
    <3>3. v # <<>>
      BY <3>2, Bounds DEF Num
    <3>4. Num(x) \in 1..(Num(r.id) - 1) /\ Num(x) \in StartBlock..Num(r.id)
      BY <1>1, <3>1, <3>2, Bounds
    <3>5. QED
      BY <1>3, <3>2, <3>3, <3>4
  <2>3. QED
    BY <2>1, <2>2
<1>6. ASSUME NEW n \in 1..Num(r.id)
      PROVE  Ancestor(r.id, n) \in more \/ (n <= lib /\ OnChain(Ancestor(r.id, n)))
  <2>1. CASE n <= r.lib
    BY <1>1, <2>1
  <2>2. CASE n > r.lib /\ n = Num(r.id)
    BY <1>4, <2>2
  <2>3. CASE n > r.lib /\ n # Num(r.id)
    <3>1. n \in 1..(Num(r.id) - 1) /\ n \in Nat
      BY <1>1, <2>3
    <3>2. v # <<>>
      BY <1>1, <1>2, <2>3, <3>1, Bounds
    <3>3. n \in 1..Num(v) /\ Ancestor(r.id, n) = Ancestor(v, n)
      BY <1>3, <3>1, <3>2
    <3>4. Ancestor(v, n) \in have \/ (n <= lib /\ OnChain(Ancestor(v, n)))
      BY <3>3 DEF Resumes, Held
    <3>5. Num(Ancestor(r.id, n)) = n /\ n < Num(r.id)
      BY <1>1, <3>1, KnownAncestor
    <3>6. QED
      BY <1>1, <2>3, <3>1, <3>3, <3>4, <3>5
  <2>4. QED
    BY <1>1, <2>1, <2>2, <2>3
<1>7. QED
  BY <1>5, <1>6 DEF Resumes, Ancestors, Held

LEMMA ConsumeStep ==
  ASSUME PathInv, Consume
  PROVE  PathInv' /\ SettledKept
<1>r. PICK r : r = Head(wire)
  OBVIOUS
<1>n. PICK N : N = Len(dsQueue) + 1
  OBVIOUS
<1>1. /\ running /\ wire # <<>> /\ wire' = Tail(wire) /\ dsQueue' = Append(dsQueue, r)
      /\ args' = [start |-> Num(r.id) + 1,
                  have  |-> {b \in args.have : Num(b) > r.lib /\ Num(b) < Num(r.id)}
                            \cup (IF Num(r.id) > r.lib THEN {r.id} ELSE {})]
      /\ UNCHANGED <<nodeVars, running, cursor, pc, state, currentBlock, lastIrreversibleBlock,
                     collectedBlocks, lastBlockUpdate, liveQueue, actionLogs, db, notifications, view, store>>
  BY <1>r DEF Consume
<1>2. /\ chain' = chain /\ lib' = lib /\ forks' = forks /\ irreversibleOnly' = irreversibleOnly
      /\ running' = running /\ cursor' = cursor /\ view' = view /\ currentBlock' = currentBlock
  BY <1>1 DEF nodeVars
<1>3. ChainInv /\ PipeInv /\ RequestInv /\ ViewInv
  BY <1>1 DEF PathInv
<1>4. /\ r \in Response /\ ChainInv' /\ dsQueue' # <<>> /\ Len(dsQueue') = N
      /\ dsQueue'[N] = r /\ N \in 1..Len(pipe) /\ pipe[N] = r /\ N \in Nat
  <2>1. wire \in Seq(Response) /\ dsQueue \in Seq(Response) /\ r = wire[1] /\ 1 \in 1..Len(wire)
    BY <1>1, <1>r, <1>3 DEF ChainInv
  <2>2. r \in Response /\ ChainInv'
    BY <1>1, <1>2, <1>3, <2>1 DEF ChainInv
  <2>3. QED
    BY <1>1, <1>3, <1>n, <2>1, <2>2, PipeFacts
<1>5. pipe' = pipe /\ Sending' = Sending
  <2>1. wire \in Seq(Response) /\ dsQueue \in Seq(Response)
    BY <1>3 DEF ChainInv
  <2>2. Append(dsQueue, r) \o Tail(wire) = dsQueue \o wire
    BY <1>1, <1>r, <2>1, MoveHead
  <2>3. QED
    BY <1>1, <2>2 DEF pipe, Sending
<1>6. \A b : OnChain(b)' = OnChain(b) /\ Known(b)' = Known(b)
  BY <1>2 DEF OnChain, Known
<1>7. \A n, j : Settled(n, j)' = Settled(n, j)
  BY <1>2, <1>5, <1>6 DEF Settled, Fixed, Number
<1>8. PipeInv'
  BY <1>2, <1>3, <1>5, <1>6, <1>7
     DEF PipeInv, Sound, Continues, PrevNum, Prev, Number, Branch, FixedBy
<1>9. /\ Known(r.id) /\ r.id \in Block /\ Num(r.id) \in Nat /\ r.lib \in Nat /\ r.lib <= lib
      /\ StartBlock - 1 <= r.lib /\ StartBlock <= Num(r.id)
      /\ \A n \in 1..Num(r.id) : n <= r.lib => OnChain(Ancestor(r.id, n))
  <2>1. Sound(r) /\ r.id \in Block /\ Num(r.id) \in Nat /\ r.lib \in Nat
    BY <1>3, <1>4, PipeFacts DEF PipeInv, Response
  <2>2. \A n \in 1..Num(r.id) : FixedBy(r, n) => OnChain(Ancestor(r.id, n))
    BY <1>3, <1>4, Zenon DEF PipeInv
  <2>3. QED
    BY <2>1, <2>2 DEF Sound, FixedBy
<1>10. /\ Consumed' = r.id /\ ConsumedNum' = Num(r.id)
  BY <1>4 DEF Consumed, ConsumedNum
<1>11. Resumes(args'.have, r.id)
  <2>1. /\ Continues(PrevNum(N), Prev(N), Number(N), Branch(N)) /\ Number(N) = Num(r.id)
        /\ Branch(N) = r.id
    <3>1. N \in 1..Sending /\ N # Sending
      BY <1>3, <1>4, PipeFacts DEF Sending
    <3>2. QED
      BY <1>3, <1>4, <3>1 DEF PipeInv, Number, Branch
  <2>2. /\ Known(Consumed) /\ ConsumedNum \in Nat
        /\ Consumed # <<>> => ConsumedNum = Num(Consumed)
        /\ Consumed = <<>> => ConsumedNum = StartBlock - 1
        /\ Consumed = Prev(N) /\ ConsumedNum = PrevNum(N)
    BY <1>n, <1>3, ConsumedFacts
  <2>3. /\ Continues(ConsumedNum, Consumed, Num(r.id), r.id) /\ Resumes(args.have, Consumed)
    BY <1>3, <2>1, <2>2 DEF RequestInv
  <2>4. /\ args'.have \subseteq args.have \cup {r.id}
        /\ \A x \in args'.have : x # r.id => Num(x) < Num(r.id)
        /\ \A x \in args.have : r.lib < Num(x) /\ Num(x) < Num(r.id) => x \in args'.have
        /\ r.lib < Num(r.id) => r.id \in args'.have
    <3>1. args'.have = {b \in args.have : Num(b) > r.lib /\ Num(b) < Num(r.id)}
                        \cup (IF Num(r.id) > r.lib THEN {r.id} ELSE {})
      BY <1>1
    <3>2. \A x \in args.have : Num(x) \in Int
      BY <2>2, <2>3 DEF Resumes, Ancestors
    <3>3. QED
      BY <1>9, <3>1, <3>2
  <2>5. QED
    BY <1>3, <1>4, <1>9, <2>2, <2>3, <2>4, ResumesNext
<1>12. RequestInv'
  BY <1>1, <1>2, <1>6, <1>10, <1>11 DEF RequestInv, Resumes, Ancestors, Held
<1>13. QED
  BY <1>1, <1>4, <1>7, <1>8, <1>12, PipeStep DEF SettledKept

-----------------------------------------------------------------------------
(* Steps of process *)

LEMMA RollbackFields ==
  ASSUME NEW s \in Store, NEW n \in Nat, n > 0
  PROVE  /\ Rollback(s, n) \in Store
         /\ Rollback(s, n).effects = s.effects \ {u[2] : u \in {u \in s.undo : u[1] >= n}}
         /\ Rollback(s, n).undo = s.undo \ {u \in s.undo : u[1] >= n}
         /\ Rollback(s, n).traces = s.traces \ {u[2] : u \in {u \in s.traceUndo : u[1] >= n}}
         /\ Rollback(s, n).repeated = s.repeated \ {u[2] : u \in {u \in s.traceUndo : u[1] >= n}}
         /\ Rollback(s, n).traceUndo = s.traceUndo \ {u \in s.traceUndo : u[1] >= n}
         /\ Rollback(s, n).blocks = {b \in s.blocks : Num(b) < n}
         /\ Rollback(s, n).position = n - 1
         /\ Rollback(s, n).live = s.live /\ Rollback(s, n).tip = s.tip
<1> DEFINE undone == {u \in s.undo : u[1] >= n}
           unlogged == {u \in s.traceUndo : u[1] >= n}
           E == s.effects \ {u[2] : u \in undone}
           U == s.undo \ undone
           T == s.traces \ {u[2] : u \in unlogged}
           P == s.repeated \ {u[2] : u \in unlogged}
           L == s.traceUndo \ unlogged
           B == {b \in s.blocks : Num(b) < n}
<1>1. /\ E \in SUBSET Block /\ U \in SUBSET (Nat \X Block) /\ T \in SUBSET Block /\ P \in SUBSET Block
      /\ L \in SUBSET (Nat \X Block) /\ B \in SUBSET Block /\ n - 1 \in Nat
  BY DEF Store
<1>2. /\ s.undo \cap QueriesFrom(s, n) = undone /\ s.undo \ QueriesFrom(s, n) = U
      /\ s.traceUndo \cap QueriesFrom(s, n) = unlogged /\ s.traceUndo \ QueriesFrom(s, n) = L
  BY DEF QueriesFrom
<1>3. Undo(s, QueriesFrom(s, n)) = [s EXCEPT !.effects = E, !.undo = U, !.traces = T,
                                             !.repeated = P, !.traceUndo = L]
  BY <1>2, Zenon DEF Undo
<1> HIDE DEF E, U, T, P, L
<1>4. Rollback(s, n) = [s EXCEPT !.effects = E, !.undo = U, !.traces = T, !.repeated = P,
                                 !.traceUndo = L, !.blocks = B, !.position = n - 1]
  BY <1>3 DEF Rollback, Store
<1> HIDE DEF B
<1>5. /\ Rollback(s, n) \in Store
      /\ Rollback(s, n).effects = E /\ Rollback(s, n).undo = U /\ Rollback(s, n).traces = T
      /\ Rollback(s, n).repeated = P /\ Rollback(s, n).traceUndo = L /\ Rollback(s, n).blocks = B
      /\ Rollback(s, n).position = n - 1
      /\ Rollback(s, n).live = s.live /\ Rollback(s, n).tip = s.tip
  BY <1>1, <1>4 DEF Store
<1>6. QED
  BY <1>5 DEF E, U, T, P, L, B

LEMMA RegisterFields ==
  ASSUME NEW s \in Store, NEW r \in Response
  PROVE  /\ Register(s, r) \in Store
         /\ Register(s, r).effects = s.effects
         /\ Register(s, r).traces = s.traces /\ Register(s, r).repeated = s.repeated
         /\ \/ /\ Register(s, r).blocks = s.blocks \cup {r.id} /\ Register(s, r).undo = s.undo
               /\ Register(s, r).traceUndo = s.traceUndo
            \/ /\ Register(s, r).blocks = {b \in s.blocks \cup {r.id} : Num(b) > r.lib}
               /\ Register(s, r).undo = {u \in s.undo : u[1] > r.lib}
               /\ Register(s, r).traceUndo = {u \in s.traceUndo : u[1] > r.lib}
         /\ Register(s, r).position = s.position
         /\ Register(s, r).live = s.live /\ Register(s, r).tip = s.tip
BY DEF Register, Clear, Store, Response

LEMMA ApplyFields ==
  ASSUME NEW s \in Store, NEW n \in Nat, NEW B \in SUBSET Block
  PROVE  /\ Apply(s, n, B) \in Store
         /\ Apply(s, n, B).effects = s.effects \cup B
         /\ Apply(s, n, B).undo = s.undo \cup (IF n = 0 THEN {} ELSE {<<n, b>> : b \in B})
         /\ Apply(s, n, B).traces = s.traces /\ Apply(s, n, B).repeated = s.repeated
         /\ Apply(s, n, B).traceUndo = s.traceUndo
         /\ Apply(s, n, B).blocks = s.blocks /\ Apply(s, n, B).position = s.position
         /\ Apply(s, n, B).live = s.live /\ Apply(s, n, B).tip = s.tip
<1> DEFINE E == s.effects \cup B
           U == s.undo \cup (IF n = 0 THEN {} ELSE {<<n, b>> : b \in B})
<1>1. E \in SUBSET Block /\ U \in SUBSET (Nat \X Block)
  BY DEF Store
<1>2. Apply(s, n, B) = [s EXCEPT !.effects = E, !.undo = U]
  BY DEF Apply, Queries
<1> HIDE DEF E, U
<1>3. /\ Apply(s, n, B) \in Store
      /\ Apply(s, n, B).effects = E /\ Apply(s, n, B).undo = U /\ Apply(s, n, B).blocks = s.blocks
      /\ Apply(s, n, B).traces = s.traces /\ Apply(s, n, B).repeated = s.repeated
      /\ Apply(s, n, B).traceUndo = s.traceUndo
      /\ Apply(s, n, B).position = s.position
      /\ Apply(s, n, B).live = s.live /\ Apply(s, n, B).tip = s.tip
  BY <1>1, <1>2 DEF Store
<1>4. QED
  BY <1>3 DEF E, U

LEMMA LogTracesFields ==
  ASSUME NEW s \in Store, NEW n \in Nat, NEW B \in SUBSET Block
  PROVE  /\ LogTraces(s, n, B) \in Store
         /\ LogTraces(s, n, B).effects = s.effects /\ LogTraces(s, n, B).undo = s.undo
         /\ LogTraces(s, n, B).traces = s.traces \cup B
         /\ LogTraces(s, n, B).repeated = s.repeated \cup (B \cap s.traces)
         /\ LogTraces(s, n, B).traceUndo = s.traceUndo \cup (IF n = 0 THEN {} ELSE {<<n, b>> : b \in B})
         /\ LogTraces(s, n, B).blocks = s.blocks /\ LogTraces(s, n, B).position = s.position
         /\ LogTraces(s, n, B).live = s.live /\ LogTraces(s, n, B).tip = s.tip
<1> DEFINE T == s.traces \cup B
           P == s.repeated \cup (B \cap s.traces)
           L == s.traceUndo \cup (IF n = 0 THEN {} ELSE {<<n, b>> : b \in B})
<1>1. T \in SUBSET Block /\ P \in SUBSET Block /\ L \in SUBSET (Nat \X Block)
  BY DEF Store
<1>2. LogTraces(s, n, B) = [s EXCEPT !.traces = T, !.repeated = P, !.traceUndo = L]
  BY DEF LogTraces, Queries
<1> HIDE DEF T, P, L
<1>3. /\ LogTraces(s, n, B) \in Store
      /\ LogTraces(s, n, B).effects = s.effects /\ LogTraces(s, n, B).undo = s.undo
      /\ LogTraces(s, n, B).traces = T /\ LogTraces(s, n, B).repeated = P
      /\ LogTraces(s, n, B).traceUndo = L
      /\ LogTraces(s, n, B).blocks = s.blocks /\ LogTraces(s, n, B).position = s.position
      /\ LogTraces(s, n, B).live = s.live /\ LogTraces(s, n, B).tip = s.tip
  BY <1>1, <1>2 DEF Store
<1>4. QED
  BY <1>3 DEF T, P, L

(* What a commit leaves in the database. *)
LEMMA CommittedFields ==
  ASSUME TxInv, actionLogs \subseteq Block, view \in Block, Commit
  PROVE  /\ store' \in Store /\ store'.tip = view
         /\ store'.effects = db.store.effects /\ store'.undo = db.store.undo
         /\ store'.traces = db.store.traces \cup actionLogs
         /\ store'.repeated = db.store.repeated \cup (actionLogs \cap db.store.traces)
         /\ store'.traceUndo = db.store.traceUndo \cup
              (IF db.block = 0 THEN {} ELSE {<<db.block, b>> : b \in actionLogs})
         /\ store'.blocks = db.store.blocks /\ store'.position = db.store.position
         /\ store'.live = db.store.live
<1> DEFINE s == LogTraces(db.store, db.block, actionLogs)
<1>1. db.store \in Store /\ db.block \in Nat
  BY DEF TxInv, Transactions
<1>2. /\ s \in Store /\ s.effects = db.store.effects /\ s.undo = db.store.undo
      /\ s.traces = db.store.traces \cup actionLogs
      /\ s.repeated = db.store.repeated \cup (actionLogs \cap db.store.traces)
      /\ s.traceUndo = db.store.traceUndo \cup
           (IF db.block = 0 THEN {} ELSE {<<db.block, b>> : b \in actionLogs})
      /\ s.blocks = db.store.blocks /\ s.position = db.store.position /\ s.live = db.store.live
  BY <1>1, LogTracesFields
<1>3. store' = [s EXCEPT !.tip = view]
  BY DEF Commit
<1> HIDE DEF s
<1>4. QED
  BY <1>2, <1>3 DEF Store

(* The database in which the block of r is processed, after a rollback and *)
(* with the block registered when it is reversible.                        *)
Prepared(s, r) ==
  LET rolledBack == IF Num(r.id) <= currentBlock THEN Rollback(s, Num(r.id)) ELSE s
  IN  IF Num(r.id) > r.lib THEN Register(rolledBack, r) ELSE rolledBack

NearHead(r) ==
  \/ Num(r.id) > r.lib
  \/ (IF irreversibleOnly THEN r.lib ELSE r.head) - Num(r.id) < Group * 2

LEMMA ProcessFacts ==
  ASSUME PathInv, ProcessBlock, NEW r, r = Head(dsQueue)
  PROVE  /\ running /\ pc = "idle" /\ dsQueue # <<>> /\ ~ Refused(r) /\ dsQueue' = Tail(dsQueue)
         /\ r \in Response /\ Num(r.id) \in Nat
         /\ state' = IF NearHead(r) THEN "HEAD" ELSE state
         /\ db' = [open |-> TRUE, begun |-> Num(r.id) <= currentBlock \/ Num(r.id) > r.lib,
                   block |-> IF Num(r.id) > r.lib THEN Num(r.id) ELSE 0,
                   store |-> Prepared(store, r)]
         /\ notifications' = IF Num(r.id) <= currentBlock
                             THEN Append(notifications, [fork |-> Num(r.id), blocks |-> {}])
                             ELSE notifications
         /\ liveQueue' = liveQueue \cup Jobs(r.id) /\ actionLogs' = actionLogs \cup Logs(r.id)
         /\ currentBlock' = Num(r.id) /\ lastIrreversibleBlock' = r.lib /\ view' = r.id
         /\ collectedBlocks' = collectedBlocks + 1
         /\ pc' = IF collectedBlocks + 1 >= CommitSize(NearHead(r), Num(r.id) <= currentBlock)
                  THEN "execute" ELSE "idle"
         /\ UNCHANGED <<nodeVars, cursor, wire, running, args, lastBlockUpdate, store,
                        announced, lost, stops>>
<1>1. running /\ pc = "idle" /\ dsQueue # <<>> /\ ChainInv /\ StageInv
  BY DEF ProcessBlock, PathInv
<1>2. r \in Response /\ Num(r.id) \in Nat
  <2>1. r \in Response
    BY <1>1 DEF ChainInv
  <2>2. QED
    BY <2>1 DEF Response, Block, Num
<1>3. db \in {NoTransaction, Transaction(0)}
  BY <1>1 DEF StageInv
<1>4. (IF db.open /\ ~ (Num(r.id) > r.lib) THEN db
       ELSE Transaction(IF Num(r.id) > r.lib THEN Num(r.id) ELSE 0))
      = Transaction(IF Num(r.id) > r.lib THEN Num(r.id) ELSE 0)
  <2>1. CASE db = NoTransaction
    BY <2>1 DEF NoTransaction
  <2>2. CASE db = Transaction(0)
    BY <2>2
  <2>3. QED
    BY <1>3, <2>1, <2>2
<1>5. db' = [Transaction(IF Num(r.id) > r.lib THEN Num(r.id) ELSE 0) EXCEPT
               !.begun = @ \/ Num(r.id) <= currentBlock \/ Num(r.id) > r.lib,
               !.store = Prepared(store, r)]
  <2>1. Transaction(IF Num(r.id) > r.lib THEN Num(r.id) ELSE 0).store = store
    BY DEF Transaction
  <2>2. QED
    BY <1>4, <2>1, Zenon DEF ProcessBlock, Prepared
<1>6. db' = [open |-> TRUE, begun |-> Num(r.id) <= currentBlock \/ Num(r.id) > r.lib,
             block |-> IF Num(r.id) > r.lib THEN Num(r.id) ELSE 0,
             store |-> Prepared(store, r)]
  BY <1>5 DEF Transaction
<1>7. QED
  BY <1>1, <1>2, <1>6 DEF ProcessBlock, NearHead, SendFork

LEMMA HeadFacts ==
  ASSUME PathInv, running, dsQueue # <<>>, NEW r, r = Head(dsQueue)
  PROVE  /\ 1 \in 1..Len(pipe) /\ pipe[1] = r /\ r \in Response /\ Sound(r) /\ Known(r.id)
         /\ r.id \in Block /\ Num(r.id) \in Nat /\ StartBlock <= Num(r.id) /\ r.id # <<>>
         /\ Continues(currentBlock, view, Num(r.id), r.id)
         /\ \A n \in 1..Num(r.id) : FixedBy(r, n) => OnChain(Ancestor(r.id, n)) /\ Settled(n, 2)
<1>1. ChainInv /\ PipeInv
  BY DEF PathInv
<1>2. 1 \in 1..Len(pipe) /\ pipe[1] = r
  <2>1. 1 \in 1..Len(dsQueue) /\ r = dsQueue[1]
    BY <1>1 DEF ChainInv
  <2>2. Len(wire) \in Nat /\ Len(dsQueue) \in Nat
    BY <1>1 DEF ChainInv
  <2>3. Len(pipe) = Len(dsQueue) + Len(wire) /\ \A j \in 1..Len(dsQueue) : pipe[j] = dsQueue[j]
    BY <1>1, PipeFacts
  <2>4. QED
    BY <2>1, <2>2, <2>3
<1>3. r \in Response /\ Sound(r) /\ r.id \in Block /\ Num(r.id) \in Nat
  BY <1>1, <1>2, PipeFacts DEF PipeInv
<1>4. r.id # <<>>
  BY <1>3, Bounds DEF Sound, Num, Block
<1>5. Continues(currentBlock, view, Num(r.id), r.id)
  <2>1. 1 \in 1..Sending /\ 1 # Sending
    BY <1>1, <1>2, PipeFacts DEF Sending
  <2>2. Continues(PrevNum(1), Prev(1), Number(1), Branch(1))
    BY <1>1, <2>1 DEF PipeInv
  <2>3. QED
    BY <1>2, <2>1, <2>2 DEF PrevNum, Prev, Number, Branch
<1>6. \A n \in 1..Num(r.id) : FixedBy(r, n) => OnChain(Ancestor(r.id, n)) /\ Settled(n, 1 + 1)
  BY <1>1, <1>2, Zenon DEF PipeInv
<1>7. QED
  BY <1>2, <1>3, <1>4, <1>5, <1>6 DEF Sound

LEMMA PreparedFacts ==
  ASSUME PathInv, running, pc = "idle", dsQueue # <<>>, NEW r, r = Head(dsQueue)
  PROVE  /\ Prepared(store, r) \in Store
         /\ Num(r.id) > currentBlock /\ Num(r.id) <= r.lib => Prepared(store, r) = store
         /\ Resumes(Prepared(store, r).blocks, r.id)
         /\ Prepared(store, r).live = store.live
<1> DEFINE n == Num(r.id)
           s == IF n <= currentBlock THEN Rollback(store, n) ELSE store
           p == Prepared(store, r)
<1>1. /\ ChainInv /\ store \in Store /\ Resumes(store.blocks, view)
      /\ Known(view) /\ currentBlock \in Nat
      /\ view # <<>> => currentBlock = Num(view)
      /\ view = <<>> => currentBlock = StartBlock - 1
  BY DEF PathInv, StoreInv, StageInv, ViewInv
<1>2. /\ r \in Response /\ Known(r.id) /\ n \in Nat /\ n > 0 /\ Continues(currentBlock, view, n, r.id)
      /\ r.lib \in Nat /\ r.lib <= lib /\ StartBlock - 1 <= r.lib
      /\ \A m \in 1..n : m <= r.lib => OnChain(Ancestor(r.id, m))
  BY HeadFacts, Bounds DEF Sound, Response, FixedBy
<1>3. s \in Store /\ s.live = store.live
  BY <1>1, <1>2, RollbackFields
<1>4. p = IF n > r.lib THEN Register(s, r) ELSE s
  BY DEF Prepared
<1>5. p \in Store /\ p.live = store.live
  BY <1>2, <1>3, <1>4, RegisterFields
<1>6. \A x \in store.blocks : Num(x) \in Nat /\ (n > currentBlock => Num(x) < n)
  <2>1. ASSUME NEW x \in store.blocks
        PROVE  Num(x) \in Nat /\ (n > currentBlock => Num(x) < n)
    <3>1. Num(x) \in StartBlock..Num(view) /\ Num(view) \in Nat
      BY <1>1, KnownFacts DEF Resumes, Ancestors
    <3>2. view # <<>>
      BY <3>1, Bounds DEF Num
    <3>3. QED
      BY <1>1, <1>2, <3>1, <3>2, Bounds
  <2>2. QED
    BY <2>1
<1>7. s.blocks = {x \in store.blocks : Num(x) < n}
  <2>1. CASE n <= currentBlock
    BY <1>1, <1>2, <2>1, RollbackFields
  <2>2. CASE n > currentBlock
    BY <1>1, <1>2, <1>6, <2>2
  <2>3. QED
    BY <1>1, <1>2, <2>1, <2>2
<1>8. p.blocks \in {s.blocks, s.blocks \cup {r.id}, {b \in s.blocks \cup {r.id} : Num(b) > r.lib}}
      /\ (r.lib < n => p.blocks # s.blocks \/ r.id \in s.blocks)
      /\ (r.lib < n => r.id \in p.blocks)
  BY <1>2, <1>3, <1>4, RegisterFields
<1>9. /\ p.blocks \subseteq store.blocks \cup {r.id}
      /\ \A x \in p.blocks : x # r.id => Num(x) < n
      /\ \A x \in store.blocks : r.lib < Num(x) /\ Num(x) < n => x \in p.blocks
      /\ r.lib < n => r.id \in p.blocks
  BY <1>7, <1>8
<1>10. Resumes(p.blocks, r.id)
  BY <1>1, <1>2, <1>9, ResumesNext
<1>11. QED
  BY <1>1, <1>2, <1>4, <1>5, <1>10

(* The pipe moves on by one block. *)
LEMMA PipeTail ==
  ASSUME PathInv, ProcessBlock
  PROVE  /\ ChainInv' /\ PipeInv' /\ RequestInv'
         /\ Len(pipe') = Len(pipe) - 1
         /\ \A j \in 1..Len(pipe') : pipe'[j] = pipe[j + 1]
         /\ \A n \in Nat : \A j \in Nat : j >= 1 /\ Settled(n, j + 1) => Settled(n, j)'
<1>r. PICK r : r = Head(dsQueue)
  OBVIOUS
<1>1. /\ dsQueue # <<>> /\ dsQueue' = Tail(dsQueue) /\ running /\ running' = running
      /\ chain' = chain /\ lib' = lib /\ forks' = forks /\ irreversibleOnly' = irreversibleOnly
      /\ cursor' = cursor /\ wire' = wire /\ args' = args
      /\ view' = r.id /\ currentBlock' = Num(r.id)
  BY <1>r, ProcessFacts DEF nodeVars
<1>2. /\ ChainInv /\ PipeInv /\ RequestInv
      /\ 1 \in 1..Len(pipe) /\ pipe[1] = r /\ Num(r.id) \in Nat
  BY <1>r, <1>1, HeadFacts DEF PathInv
<1>3. ChainInv'
  BY <1>1, <1>2 DEF ChainInv
<1>4. /\ Len(pipe) \in Nat /\ Len(pipe') = Len(pipe) - 1 /\ Sending = Len(pipe) + 1
      /\ Sending' = Len(pipe) /\ \A j \in 1..Len(pipe') : pipe'[j] = pipe[j + 1]
  <2>1. dsQueue \in Seq(Response) /\ wire \in Seq(Response)
    BY <1>2 DEF ChainInv
  <2>2. pipe' = Tail(dsQueue) \o wire /\ pipe = dsQueue \o wire
    BY <1>1 DEF pipe
  <2>3. Len(pipe') = Len(pipe) - 1 /\ Len(pipe) \in Nat
    BY <1>1, <2>1, <2>2
  <2>4. \A j \in 1..Len(pipe') : pipe'[j] = pipe[j + 1]
    BY <1>1, <2>1, <2>2
  <2>5. QED
    BY <2>3, <2>4 DEF Sending
<1>5. \A b : OnChain(b)' = OnChain(b) /\ Known(b)' = Known(b)
  BY <1>1 DEF OnChain, Known
<1>6. \A j \in 1..Sending' : Number(j)' = Number(j + 1) /\ Branch(j)' = Branch(j + 1)
  BY <1>1, <1>4 DEF Number, Branch
<1>7. \A j \in 1..Sending' : Prev(j)' = Prev(j + 1) /\ PrevNum(j)' = PrevNum(j + 1)
  <2>1. ASSUME NEW j \in 1..Sending'
        PROVE  Prev(j)' = Prev(j + 1) /\ PrevNum(j)' = PrevNum(j + 1)
    <3>0. j + 1 # 1 /\ (j + 1) - 1 = j /\ j \in Nat /\ j >= 1
      BY <1>4
    <3>1. CASE j = 1
      BY <1>1, <1>2, <3>0, <3>1 DEF Prev, PrevNum
    <3>2. CASE j # 1
      <4>1. j - 1 \in 1..Len(pipe') /\ (j - 1) + 1 = j
        BY <1>4, <3>0, <3>2
      <4>2. pipe'[j - 1] = pipe[j]
        BY <1>4, <4>1
      <4>3. QED
        BY <3>0, <3>2, <4>2 DEF Prev, PrevNum
    <3>3. QED
      BY <3>1, <3>2
  <2>2. QED
    BY <2>1
<1>8. ASSUME NEW n \in Nat, NEW j \in Nat, j >= 1, Settled(n, j + 1)
      PROVE  Settled(n, j)'
  <2>1. Fixed(n)'
    BY <1>1, <1>8 DEF Settled, Fixed
  <2>2. ASSUME NEW k \in j..Sending'
        PROVE  n < Number(k)'
    <3>1. k + 1 \in (j + 1)..Sending /\ k \in 1..Sending'
      BY <1>4, <1>8
    <3>2. QED
      BY <1>6, <1>8, <3>1 DEF Settled
  <2>3. ASSUME NEW k \in j..Len(pipe')
        PROVE  OnChain(Ancestor(pipe[k].id, n))'
    <3>1. k + 1 \in (j + 1)..Len(pipe) /\ k \in 1..Len(pipe')
      BY <1>4, <1>8
    <3>2. OnChain(Ancestor(pipe[k + 1].id, n)) /\ pipe'[k] = pipe[k + 1]
      BY <1>4, <1>8, <3>1 DEF Settled
    <3>3. QED
      BY <1>5, <3>2
  <2>4. QED
    BY <2>1, <2>2, <2>3 DEF Settled
<1>9. PipeInv'
  <2>1. ASSUME NEW j \in 1..Len(pipe')
        PROVE  Sound(pipe[j])'
    <3>1. j + 1 \in 1..Len(pipe) /\ pipe'[j] = pipe[j + 1]
      BY <1>4
    <3>2. Sound(pipe[j + 1])
      BY <1>2, <3>1 DEF PipeInv
    <3>3. QED
      BY <1>1, <1>5, <3>1, <3>2 DEF Sound
  <2>2. ASSUME NEW j \in 1..Sending'
        PROVE  Continues(PrevNum(j), Prev(j), Number(j), Branch(j))'
    <3>1. j + 1 \in 1..Sending
      BY <1>4
    <3>2. Continues(PrevNum(j + 1), Prev(j + 1), Number(j + 1), Branch(j + 1))
      BY <1>2, <3>1 DEF PipeInv
    <3>3. QED
      BY <1>5, <1>6, <1>7, <3>2 DEF Continues
  <2>3. ASSUME NEW j \in 1..Len(pipe'), NEW n \in 1..Num(pipe'[j].id), FixedBy(pipe[j], n)'
        PROVE  OnChain(Ancestor(pipe[j].id, n))' /\ Settled(n, j + 1)'
    <3>1. j + 1 \in 1..Len(pipe) /\ pipe'[j] = pipe[j + 1] /\ j + 1 \in Nat /\ j + 1 >= 1
      BY <1>4
    <3>2. n \in 1..Num(pipe[j + 1].id) /\ n \in Nat
      BY <1>2, <3>1, PipeFacts
    <3>3. FixedBy(pipe[j + 1], n)
      BY <2>3, <3>1 DEF FixedBy
    <3>4. OnChain(Ancestor(pipe[j + 1].id, n)) /\ Settled(n, (j + 1) + 1)
      BY <1>2, <3>1, <3>2, <3>3, Zenon DEF PipeInv
    <3>5. Settled(n, j + 1)'
      BY <1>8, <3>1, <3>2, <3>4
    <3>6. QED
      BY <1>5, <3>1, <3>4, <3>5
  <2>4. ASSUME NEW i \in 1..Len(pipe'), NEW j \in 1..Len(pipe'), i < j
        PROVE  pipe'[i].head <= pipe'[j].head
    <3>1. i + 1 \in 1..Len(pipe) /\ j + 1 \in 1..Len(pipe) /\ i + 1 < j + 1
      BY <1>4, <2>4
    <3>2. QED
      BY <1>2, <1>4, <3>1 DEF PipeInv
  <2>5. cursor' \in Nat
    BY <1>1, <1>2 DEF PipeInv
  <2>6. QED
    BY <2>1, <2>2, <2>3, <2>4, <2>5, Zenon DEF PipeInv
<1>10. RequestInv'
  <2>1. Consumed' = Consumed /\ ConsumedNum' = ConsumedNum
    <3>1. dsQueue \in Seq(Response) /\ dsQueue' \in Seq(Response) /\ dsQueue[1] = r
      BY <1>r, <1>1, <1>2, <1>3 DEF ChainInv
    <3>2. CASE dsQueue' = <<>>
      <4>1. Len(dsQueue) = 1
        <5>1. Len(Tail(dsQueue)) = Len(dsQueue) - 1 /\ Len(dsQueue) \in Nat
          BY <1>1, <3>1
        <5>2. Tail(dsQueue) = <<>>
          BY <1>1, <3>2
        <5>3. Len(Tail(dsQueue)) = Len(<<>>)
          BY <5>2, Zenon
        <5>4. Len(<<>>) = 0
          BY EmptySeq
        <5>5. QED
          BY <5>1, <5>3, <5>4
      <4>2. QED
        BY <1>1, <3>1, <3>2, <4>1 DEF Consumed, ConsumedNum
    <3>3. CASE dsQueue' # <<>>
      <4>1. dsQueue'[Len(dsQueue')] = dsQueue[Len(dsQueue)]
        BY <1>1, <3>1, <3>3
      <4>2. QED
        BY <1>1, <3>3, <4>1 DEF Consumed, ConsumedNum
    <3>4. QED
      BY <3>2, <3>3
  <2>2. Resumes(args.have, Consumed)' = Resumes(args.have, Consumed)
    BY <1>1, <1>5, <2>1 DEF Resumes, Ancestors, Held
  <2>3. QED
    BY <1>1, <1>2, <2>1, <2>2 DEF RequestInv
<1>11. QED
  BY <1>3, <1>4, <1>8, <1>9, <1>10

LEMMA ProcessStep ==
  ASSUME PathInv, ProcessBlock
  PROVE  PathInv'
<1>r. PICK r : r = Head(dsQueue)
  OBVIOUS
<1>n. PICK n : n = Num(r.id)
  OBVIOUS
<1>1. /\ running /\ pc = "idle" /\ dsQueue # <<>> /\ ~ Refused(r)
      /\ r \in Response /\ n \in Nat
      /\ state' = IF NearHead(r) THEN "HEAD" ELSE state
      /\ db' = [open |-> TRUE, begun |-> n <= currentBlock \/ n > r.lib,
                block |-> IF n > r.lib THEN n ELSE 0, store |-> Prepared(store, r)]
      /\ notifications' = IF n <= currentBlock
                          THEN Append(notifications, [fork |-> n, blocks |-> {}])
                          ELSE notifications
      /\ liveQueue' = liveQueue \cup Jobs(r.id) /\ actionLogs' = actionLogs \cup Logs(r.id)
      /\ currentBlock' = n /\ lastIrreversibleBlock' = r.lib /\ view' = r.id
      /\ collectedBlocks' = collectedBlocks + 1
      /\ pc' = IF collectedBlocks + 1 >= CommitSize(NearHead(r), n <= currentBlock)
               THEN "execute" ELSE "idle"
      /\ chain' = chain /\ lib' = lib /\ forks' = forks /\ irreversibleOnly' = irreversibleOnly
      /\ running' = running /\ lastBlockUpdate' = lastBlockUpdate /\ store' = store
  BY <1>r, <1>n, ProcessFacts DEF nodeVars
<1>2. ChainInv /\ StoreInv /\ PipeInv /\ ViewInv /\ StateInv /\ StageInv
  BY <1>1 DEF PathInv
<1>3. /\ r \in Response /\ Known(r.id) /\ r.id \in Block /\ StartBlock <= n /\ r.id # <<>>
      /\ r.lib \in Nat /\ n > 0 /\ n <= Len(chain) /\ r.lib <= lib
      /\ \A m \in 1..n : m <= r.lib => OnChain(Ancestor(r.id, m)) /\ Settled(m, 2)
  <2>1. /\ r \in Response /\ Known(r.id) /\ r.id \in Block /\ StartBlock <= n /\ r.id # <<>>
        /\ Sound(r) /\ n \in Nat
        /\ \A m \in 1..n : FixedBy(r, m) => OnChain(Ancestor(r.id, m)) /\ Settled(m, 2)
    BY <1>r, <1>n, <1>1, HeadFacts
  <2>2. QED
    BY <1>n, <2>1, Bounds DEF FixedBy, Sound, Response, Known
<1>4. /\ Prepared(store, r) \in Store
      /\ n > currentBlock /\ n <= r.lib => Prepared(store, r) = store
      /\ Resumes(Prepared(store, r).blocks, r.id)
      /\ Prepared(store, r).live = store.live
  BY <1>r, <1>n, <1>1, PreparedFacts
<1>5. \A b : OnChain(b)' = OnChain(b) /\ Known(b)' = Known(b)
  BY <1>1 DEF OnChain, Known
<1>6. \A have, b : Resumes(have, b)' = Resumes(have, b)
  BY <1>1, <1>5 DEF Resumes, Ancestors, Held
<1>7. StoreInv'
  BY <1>1, <1>2, <1>5, <1>6 DEF StoreInv
<1>8. \A m \in 1..n : m <= r.lib => OnChain(Ancestor(r.id, m))' /\ Settled(m, 1)'
  <2>1. ASSUME NEW m \in 1..n, m <= r.lib
        PROVE  OnChain(Ancestor(r.id, m))' /\ Settled(m, 1)'
    <3>1. m \in Nat /\ Settled(m, 1 + 1) /\ OnChain(Ancestor(r.id, m))
      BY <1>1, <1>3, <2>1
    <3>2. QED
      BY <1>5, <3>1, PipeTail
  <2>2. QED
    BY <2>1
<1>9. ViewInv'
  BY <1>n, <1>1, <1>3, <1>5, <1>8 DEF ViewInv
<1>10. ASSUME state' # "HEAD"
       PROVE  n <= r.lib /\ n > currentBlock /\ state # "HEAD" /\ state' = state /\ ~ NearHead(r)
  <2>1. ~ NearHead(r) /\ n <= r.lib /\ state' = state
    BY <1>n, <1>1, <1>3, <1>10 DEF NearHead
  <2>2. Settled(currentBlock, 1)
    BY <1>2, <1>10, <2>1 DEF StateInv
  <2>3. 1 \in 1..Len(pipe) /\ pipe[1] = r /\ Len(pipe) \in Nat
    BY <1>r, <1>1, <1>2, HeadFacts, PipeFacts
  <2>4. 1 \in 1..Sending /\ 1 # Sending
    BY <2>3 DEF Sending
  <2>5. currentBlock < Number(1) /\ Number(1) = n
    BY <1>n, <2>2, <2>3, <2>4 DEF Settled, Number
  <2>6. QED
    BY <1>10, <2>1, <2>5
<1>11. StateInv'
  <2>1. state' \in {"HEAD", "CATCHUP"} /\ (store.live => state' = "HEAD")
    BY <1>1, <1>2 DEF StateInv
  <2>2. ASSUME state' # "HEAD"
        PROVE  Settled(n, 1)' /\ OnChain(r.id)' /\ store.position <= n
    <3>1. n \in 1..n /\ n <= r.lib /\ Ancestor(r.id, n) = r.id
      BY <1>n, <1>3, <1>1, <1>10, <2>2, Whole DEF Num, Block
    <3>2. store.position <= currentBlock /\ store.position \in Nat /\ currentBlock \in Nat
      BY <1>2, <1>10, <2>2 DEF StateInv, StoreInv, Store, ViewInv
    <3>3. QED
      BY <1>1, <1>8, <1>10, <2>2, <3>1, <3>2
  <2>3. QED
    BY <1>1, <2>1, <2>2 DEF StateInv
<1>12. StageInv'
  <2>1. /\ liveQueue' \subseteq Block /\ actionLogs' \subseteq Block
        /\ notifications' \in Seq(Message)
        /\ collectedBlocks' \in Nat /\ lastBlockUpdate' \in Nat
    <3>1. Jobs(r.id) \subseteq Block /\ Logs(r.id) \subseteq Block
      BY <1>3 DEF Jobs, Logs
    <3>2. [fork |-> n, blocks |-> {}] \in Message
      BY <1>1 DEF Message
    <3>3. QED
      BY <1>1, <1>2, <3>1, <3>2 DEF StageInv
  <2>2. CASE pc' = "idle"
    <3>1. ~ NearHead(r) /\ n > currentBlock /\ n <= r.lib
      <4>1. ~ (NearHead(r) \/ n <= currentBlock)
        <5>1. collectedBlocks \in Nat /\ ~ (collectedBlocks + 1 >= 1 /\ pc' = "execute")
          BY <1>2, <2>2 DEF StageInv
        <5>2. NearHead(r) \/ n <= currentBlock => CommitSize(NearHead(r), n <= currentBlock) = 1
          BY DEF CommitSize
        <5>3. QED
          BY <1>1, <5>1, <5>2
      <4>2. QED
        BY <1>n, <1>1, <1>2, <1>3, <4>1 DEF NearHead, ViewInv
    <3>2. db' = Transaction(0)'
      <4>1. (n <= currentBlock \/ n > r.lib) = FALSE /\ ~ (n > r.lib)
        BY <1>1, <1>2, <1>3, <3>1 DEF ViewInv
      <4>2. Prepared(store, r) = store'
        BY <1>1, <1>4, <3>1
      <4>3. QED
        BY <1>1, <4>1, <4>2 DEF Transaction
    <3>3. Resumes(store.blocks, r.id)
      BY <1>4, <3>1
    <3>4. QED
      BY <1>1, <1>6, <2>1, <2>2, <3>2, <3>3 DEF StageInv
  <2>3. CASE pc' = "execute"
    <3>1. db' \in Transactions /\ db'.block \in {0, n} /\ db'.store = Prepared(store, r)
      BY <1>1, <1>4 DEF Transactions
    <3>2. db'.block # 0 => state' = "HEAD"
      BY <1>n, <1>1 DEF NearHead
    <3>3. TxInv'
      BY <1>1, <1>3, <1>4, <1>6, <3>1, <3>2 DEF TxInv
    <3>4. state' # "HEAD" => db'.store = store'
      BY <1>1, <1>4, <1>10, <3>1
    <3>5. QED
      BY <2>1, <2>3, <3>3, <3>4 DEF StageInv
  <2>4. QED
    BY <1>1, <2>2, <2>3
<1>13. QED
  BY <1>1, <1>7, <1>9, <1>11, <1>12, PipeTail DEF PathInv

(* Execute, Commit and Publish leave the branch and the pipe as they are. *)
LEMMA SamePath ==
  ASSUME PathInv, running, StoreInv', StateInv', StageInv',
         UNCHANGED <<nodeVars, cursor, wire, running, args, dsQueue, currentBlock,
                     lastIrreversibleBlock, view>>
  PROVE  PathInv'
<1>1. /\ chain' = chain /\ lib' = lib /\ forks' = forks /\ irreversibleOnly' = irreversibleOnly
      /\ cursor' = cursor /\ wire' = wire /\ running' = running /\ args' = args
      /\ dsQueue' = dsQueue /\ currentBlock' = currentBlock
      /\ lastIrreversibleBlock' = lastIrreversibleBlock /\ view' = view
  BY DEF nodeVars
<1>2. ChainInv /\ PipeInv /\ RequestInv /\ ViewInv
  BY DEF PathInv
<1>3. pipe' = pipe /\ Sending' = Sending
  BY <1>1 DEF pipe, Sending
<1>4. \A b : OnChain(b)' = OnChain(b) /\ Known(b)' = Known(b)
  BY <1>1 DEF OnChain, Known
<1>5. \A n, j : Settled(n, j)' = Settled(n, j)
  BY <1>1, <1>3, <1>4 DEF Settled, Fixed, Number
<1>6. ChainInv'
  BY <1>1, <1>2 DEF ChainInv
<1>7. PipeInv'
  BY <1>1, <1>2, <1>3, <1>4, <1>5
     DEF PipeInv, Sound, Continues, PrevNum, Prev, Number, Branch, FixedBy
<1>8. RequestInv'
  <2>1. Consumed' = Consumed /\ ConsumedNum' = ConsumedNum
    BY <1>1 DEF Consumed, ConsumedNum
  <2>2. Resumes(args.have, Consumed)' = Resumes(args.have, Consumed)
    BY <1>1, <1>4, <2>1 DEF Resumes, Ancestors, Held
  <2>3. QED
    BY <1>1, <1>2, <2>1, <2>2 DEF RequestInv
<1>9. ViewInv'
  BY <1>1, <1>2, <1>4, <1>5 DEF ViewInv
<1>10. QED
  BY <1>1, <1>6, <1>7, <1>8, <1>9 DEF PathInv

LEMMA SameChain ==
  ASSUME UNCHANGED <<nodeVars, cursor, wire, dsQueue>>
  PROVE  /\ \A b : OnChain(b)' = OnChain(b) /\ Known(b)' = Known(b)
         /\ \A have, b : Resumes(have, b)' = Resumes(have, b)
         /\ \A n, j : Settled(n, j)' = Settled(n, j)
<1>1. /\ chain' = chain /\ lib' = lib /\ forks' = forks
      /\ cursor' = cursor /\ wire' = wire /\ dsQueue' = dsQueue
  BY DEF nodeVars
<1>2. pipe' = pipe /\ Sending' = Sending
  BY <1>1 DEF pipe, Sending
<1>3. \A b : OnChain(b)' = OnChain(b) /\ Known(b)' = Known(b)
  BY <1>1 DEF OnChain, Known
<1>4. QED
  BY <1>1, <1>2, <1>3 DEF Resumes, Ancestors, Held, Settled, Fixed, Number

LEMMA ExecuteFacts ==
  ASSUME PathInv, Execute
  PROVE  /\ running /\ pc = "execute" /\ pc' = "commit" /\ liveQueue' = {}
         /\ notifications' = Append(notifications, [fork |-> 0, blocks |-> liveQueue])
         /\ db' \in Transactions /\ db'.block = db.block
         /\ db'.store.effects = db.store.effects \cup liveQueue
         /\ db'.store.undo = db.store.undo \cup
              (IF db.block = 0 THEN {} ELSE {<<db.block, b>> : b \in liveQueue})
         /\ db'.store.blocks = db.store.blocks
         /\ \/ /\ PositionUpdated(db.begun \/ liveQueue # {})
               /\ db'.store.position = currentBlock /\ db'.store.live = (state = "HEAD")
               /\ lastBlockUpdate' = currentBlock
            \/ /\ ~ PositionUpdated(db.begun \/ liveQueue # {})
               /\ db'.store.position = db.store.position /\ db'.store.live = db.store.live
               /\ lastBlockUpdate' = lastBlockUpdate
         /\ UNCHANGED <<nodeVars, cursor, wire, running, args, dsQueue, state, currentBlock,
                        lastIrreversibleBlock, collectedBlocks, actionLogs, view, store,
                        announced, lost, stops>>
<1> DEFINE begun   == db.begun \/ liveQueue # {}
           applied == Apply(db.store, db.block, liveQueue)
           update  == PositionUpdated(begun)
           written == IF update THEN [applied EXCEPT !.position = currentBlock, !.live = (state = "HEAD")]
                                ELSE applied
<1>1. /\ running /\ pc = "execute" /\ TxInv /\ liveQueue \in SUBSET Block
      /\ currentBlock \in Nat /\ state \in {"HEAD", "CATCHUP"}
  BY DEF Execute, PathInv, StageInv, ViewInv, StateInv
<1>2. /\ db \in Transactions /\ db.store \in Store /\ db.block \in Nat /\ db.begun \in BOOLEAN
  BY <1>1 DEF TxInv, Transactions
<1>3. /\ applied \in Store
      /\ applied.effects = db.store.effects \cup liveQueue
      /\ applied.undo = db.store.undo \cup (IF db.block = 0 THEN {} ELSE {<<db.block, b>> : b \in liveQueue})
      /\ applied.blocks = db.store.blocks /\ applied.position = db.store.position
      /\ applied.live = db.store.live
  BY <1>1, <1>2, ApplyFields
<1>4. /\ db' = [db EXCEPT !.begun = begun \/ update, !.store = written]
      /\ lastBlockUpdate' = IF update THEN currentBlock ELSE lastBlockUpdate
  BY DEF Execute
<1> HIDE DEF applied
<1>5. /\ written \in Store /\ written.effects = applied.effects /\ written.undo = applied.undo
      /\ written.blocks = applied.blocks
      /\ update => written.position = currentBlock /\ written.live = (state = "HEAD")
      /\ ~ update => written.position = applied.position /\ written.live = applied.live
  <2>1. CASE update
    BY <1>1, <1>3, <2>1 DEF Store
  <2>2. CASE ~ update
    BY <1>3, <2>2
  <2>3. QED
    BY <2>1, <2>2
<1> HIDE DEF written, update
<1>6. begun \in BOOLEAN /\ (begun \/ update) \in BOOLEAN
  BY <1>2
<1>7. db' \in Transactions /\ db'.block = db.block /\ db'.store = written
  BY <1>2, <1>4, <1>5, <1>6 DEF Transactions
<1>8. QED
  BY <1>1, <1>3, <1>4, <1>5, <1>7 DEF Execute, update

LEMMA ExecuteStep ==
  ASSUME PathInv, Execute
  PROVE  PathInv'
<1>1. /\ running /\ pc = "execute" /\ pc' = "commit" /\ liveQueue' = {}
      /\ notifications' = Append(notifications, [fork |-> 0, blocks |-> liveQueue])
      /\ db' \in Transactions /\ db'.block = db.block
      /\ db'.store.undo = db.store.undo \cup
           (IF db.block = 0 THEN {} ELSE {<<db.block, b>> : b \in liveQueue})
      /\ db'.store.blocks = db.store.blocks
      /\ \/ /\ PositionUpdated(db.begun \/ liveQueue # {})
            /\ db'.store.position = currentBlock /\ db'.store.live = (state = "HEAD")
            /\ lastBlockUpdate' = currentBlock
         \/ /\ ~ PositionUpdated(db.begun \/ liveQueue # {})
            /\ db'.store.position = db.store.position /\ db'.store.live = db.store.live
            /\ lastBlockUpdate' = lastBlockUpdate
      /\ UNCHANGED <<nodeVars, cursor, wire, running, args, dsQueue, state, currentBlock,
                     lastIrreversibleBlock, collectedBlocks, actionLogs, view, store>>
  BY ExecuteFacts
<1>2. StoreInv /\ ViewInv /\ StateInv /\ StageInv
  BY <1>1 DEF PathInv
<1>3. TxInv /\ (state # "HEAD" => db.store = store) /\ liveQueue \subseteq Block
  BY <1>1, <1>2 DEF StageInv
<1>4. /\ \A b : OnChain(b)' = OnChain(b) /\ Known(b)' = Known(b)
      /\ \A have, b : Resumes(have, b)' = Resumes(have, b)
      /\ \A n, j : Settled(n, j)' = Settled(n, j)
  BY <1>1, SameChain
<1>5. StoreInv' /\ StateInv'
  BY <1>1, <1>2, <1>4 DEF StoreInv, StateInv
<1>6. TxInv'
  BY <1>1, <1>3, <1>4 DEF TxInv
<1>7. state = "HEAD" => PositionUpdated(db.begun \/ liveQueue # {})
  BY DEF PositionUpdated
<1>8. state # "HEAD" => db.block = 0 /\ ~ store.live /\ NoUndo(store) /\ store.position <= currentBlock
                        /\ (store.position = 0 \/ StartBlock <= store.position)
  BY <1>2, <1>3 DEF TxInv, StateInv, StoreInv
<1>9. currentBlock \in Nat /\ StartBlock <= currentBlock
  BY <1>2, <1>3 DEF ViewInv, TxInv
<1>10. CommitInv'
  <2>1. CASE state = "HEAD"
    <3>1. db'.store.live /\ db'.store.position = currentBlock
      BY <1>1, <1>7, <2>1
    <3>2. QED
      BY <1>1, <1>9, <2>1, <3>1 DEF CommitInv
  <2>2. CASE state # "HEAD"
    <3>1. NoUndo(db'.store)
      BY <1>1, <1>3, <1>8, <2>2 DEF NoUndo
    <3>2. ~ db'.store.live
      BY <1>1, <1>3, <1>8, <2>2
    <3>3. /\ db'.store.position <= currentBlock
          /\ db'.store.position = 0 \/ StartBlock <= db'.store.position
      BY <1>1, <1>3, <1>8, <1>9, <2>2
    <3>4. QED
      BY <1>1, <2>2, <3>1, <3>2, <3>3 DEF CommitInv
  <2>3. QED
    BY <2>1, <2>2
<1>11. StageInv'
  <2>1. [fork |-> 0, blocks |-> liveQueue] \in Message /\ actionLogs' \subseteq Block
    BY <1>1, <1>2, <1>3 DEF Message, StageInv
  <2>2. notifications' \in Seq(Message) /\ lastBlockUpdate' \in Nat /\ collectedBlocks' \in Nat
    BY <1>1, <1>2, <1>9, <2>1 DEF StageInv
  <2>3. QED
    BY <1>1, <1>6, <1>10, <2>1, <2>2 DEF StageInv
<1>12. QED
  BY <1>1, <1>5, <1>11, SamePath

LEMMA CommitStep ==
  ASSUME PathInv, Commit
  PROVE  PathInv'
<1>1. /\ running /\ pc = "commit" /\ actionLogs' = {}
      /\ db' = NoTransaction /\ collectedBlocks' = 0 /\ pc' = "publish"
      /\ UNCHANGED <<nodeVars, cursor, wire, running, args, dsQueue, state, currentBlock,
                     lastIrreversibleBlock, lastBlockUpdate, liveQueue, notifications, view>>
  BY DEF Commit
<1>2. StoreInv /\ ViewInv /\ StateInv /\ StageInv /\ ChainInv
  BY <1>1 DEF PathInv
<1>3. TxInv /\ CommitInv
  BY <1>1, <1>2 DEF StageInv
<1>4. /\ \A b : OnChain(b)' = OnChain(b) /\ Known(b)' = Known(b)
      /\ \A have, b : Resumes(have, b)' = Resumes(have, b)
      /\ \A n, j : Settled(n, j)' = Settled(n, j)
  BY <1>1, SameChain
<1>5. /\ view \in Block /\ Num(view) \in Nat /\ Known(view) /\ currentBlock = Num(view)
      /\ db.store \in Store
  BY <1>2, <1>3, KnownFacts DEF ViewInv, TxInv, Transactions
<1>6. /\ store' \in Store /\ store'.tip = view
      /\ store'.blocks = db.store.blocks /\ store'.undo = db.store.undo
      /\ store'.position = db.store.position /\ store'.live = db.store.live
  BY <1>1, <1>2, <1>3, <1>5, CommittedFields DEF StageInv
<1>7. Resumes(db.store.blocks, Ancestor(view, db.store.position))
  <2>1. CASE state = "HEAD"
    <3>1. Ancestor(view, db.store.position) = view
      BY <1>3, <1>5, <2>1, Whole DEF CommitInv, Num, Block
    <3>2. QED
      BY <1>3, <3>1 DEF TxInv
  <2>2. CASE state # "HEAD"
    <3>1. /\ db.store.blocks = {} /\ db.store.position \in 0..Num(view)
          /\ db.store.position <= Num(view) /\ db.store.position \in Nat
      BY <1>3, <1>5, <2>2 DEF CommitInv, NoUndo, Store
    <3>2. Num(Ancestor(view, db.store.position)) = db.store.position
      BY <1>2, <1>5, <3>1, KnownAncestor
    <3>3. ASSUME NEW n \in 1..db.store.position
          PROVE  n <= lib /\ OnChain(Ancestor(Ancestor(view, db.store.position), n))
      <4>1. n \in 1..Num(view) /\ n \in 0..db.store.position
        BY <1>5, <3>1
      <4>2. n <= lib /\ OnChain(Ancestor(view, n))
        BY <1>3, <3>1, <4>1 DEF TxInv, Resumes, Held
      <4>3. Ancestor(Ancestor(view, db.store.position), n) = Ancestor(view, n)
        BY <1>5, <3>1, <4>1, Nested DEF Block, Num
      <4>4. QED
        BY <4>2, <4>3
    <3>4. QED
      BY <3>1, <3>2, <3>3 DEF Resumes, Ancestors, Held
  <2>3. QED
    BY <2>1, <2>2
<1>8. StoreInv'
  BY <1>3, <1>4, <1>5, <1>6, <1>7 DEF StoreInv, CommitInv, NoUndo
<1>9. StateInv'
  BY <1>1, <1>2, <1>3, <1>4, <1>6 DEF StateInv, CommitInv
<1>10. StageInv'
  <2>1. Resumes(store'.blocks, view)
    BY <1>3, <1>6 DEF TxInv
  <2>2. QED
    BY <1>1, <1>2, <1>3, <1>4, <2>1 DEF StageInv, CommitInv
<1>11. QED
  BY <1>1, <1>8, <1>9, <1>10, SamePath

LEMMA PublishStep ==
  ASSUME PathInv, Publish \/ PublishFails
  PROVE  PathInv'
<1>1. /\ running /\ pc = "publish" /\ notifications' = <<>> /\ pc' = "idle"
      /\ UNCHANGED <<nodeVars, cursor, wire, running, args, dsQueue, state, currentBlock,
                     lastIrreversibleBlock, collectedBlocks, lastBlockUpdate, liveQueue, actionLogs, db, view, store>>
  BY DEF Publish, PublishFails, Published
<1>2. StoreInv /\ StateInv /\ StageInv
  BY <1>1 DEF PathInv
<1>3. /\ \A b : OnChain(b)' = OnChain(b) /\ Known(b)' = Known(b)
      /\ \A have, b : Resumes(have, b)' = Resumes(have, b)
      /\ \A n, j : Settled(n, j)' = Settled(n, j)
  BY <1>1, SameChain
<1>4. StoreInv' /\ StateInv' /\ StageInv'
  BY <1>1, <1>2, <1>3 DEF StoreInv, StateInv, StageInv
<1>5. QED
  BY <1>1, <1>4, SamePath

-----------------------------------------------------------------------------
(* Stops and starts *)

LEMMA StopStep ==
  ASSUME PathInv, Stop
  PROVE  PathInv'
<1>1. /\ chain' = chain /\ lib' = lib /\ forks' = forks /\ irreversibleOnly' = irreversibleOnly
      /\ running' = FALSE /\ store' = store
      /\ pc' = "idle" /\ wire' = <<>> /\ dsQueue' = <<>> /\ liveQueue' = {} /\ actionLogs' = {}
      /\ notifications' = <<>> /\ db' = NoTransaction
      /\ collectedBlocks' = 0 /\ lastIrreversibleBlock' = 0
  BY DEF Stop, nodeVars
<1>2. \A b : OnChain(b)' = OnChain(b) /\ Known(b)' = Known(b)
  BY <1>1 DEF OnChain, Known
<1>3. ChainInv'
  BY <1>1, EmptySeq DEF PathInv, ChainInv
<1>4. StoreInv'
  BY <1>1, <1>2 DEF PathInv, StoreInv, Resumes, Ancestors, Held
<1>5. QED
  BY <1>1, <1>3, <1>4 DEF PathInv, Stopped

LEMMA StartStep ==
  ASSUME PathInv, Start
  PROVE  PathInv'
<1>p. PICK b : b = Ancestor(store.tip, store.position)
  OBVIOUS
<1>n. PICK num : num = (IF store.position = 0 THEN StartBlock - 1 ELSE store.position)
  OBVIOUS
<1>1. /\ ~ running /\ ChainInv /\ StoreInv /\ Stopped
      /\ store.position \in Nat /\ store.position \in 0..Num(store.tip) /\ Known(store.tip)
      /\ StartBlock \in Nat /\ StartBlock > 1
  BY KnownFacts, Bounds DEF Start, StartAt, PathInv, StoreInv, Store
<1>2. /\ b \in Block /\ Known(b) /\ Num(b) = store.position /\ num \in Nat /\ num >= StartBlock - 1
      /\ b # <<>> => num = Num(b) /\ StartBlock <= num
      /\ b = <<>> => num = StartBlock - 1
      /\ num <= Len(chain)
  <2>1. Known(b) /\ Num(b) = store.position
    BY <1>1, <1>p, KnownAncestor
  <2>2. b \in Block /\ Num(b) <= Len(chain) /\ (b # <<>> <=> Num(b) # 0)
    BY <1>1, <2>1, KnownFacts DEF Num, Block
  <2>3. StartBlock - 1 <= Len(chain)
    BY <1>1, Bounds DEF ChainInv
  <2>4. QED
    BY <1>1, <1>n, <2>1, <2>2, <2>3 DEF StoreInv
<1>3. Max({store.position + 1, StartBlock}) = num + 1
  <2>1. Max({store.position + 1, StartBlock}) \in {store.position + 1, StartBlock}
        /\ \A x \in {store.position + 1, StartBlock} : x <= Max({store.position + 1, StartBlock})
    <3>1. \E m \in {store.position + 1, StartBlock} : \A x \in {store.position + 1, StartBlock} : x <= m
      BY <1>1
    <3>2. QED
      BY <3>1 DEF Max
  <2>2. QED
    BY <1>1, <1>n, <2>1 DEF StoreInv
<1>4. /\ chain' = chain /\ lib' = lib /\ forks' = forks /\ irreversibleOnly' = irreversibleOnly
      /\ running' = TRUE /\ state' = (IF store.live THEN "HEAD" ELSE "CATCHUP")
      /\ currentBlock' = num /\ lastBlockUpdate' = num
      /\ args' = [start |-> num + 1, have |-> store.blocks] /\ cursor' = FirstSent(args')
      /\ view' = b /\ wire' = <<>> /\ dsQueue' = <<>> /\ pc' = "idle"
      /\ lastIrreversibleBlock' = 0 /\ collectedBlocks' = 0 /\ liveQueue' = {} /\ actionLogs' = {}
      /\ db' = NoTransaction /\ notifications' = <<>> /\ store' = store
  <2>1. (num + 1) - 1 = num
    BY <1>2
  <2>2. /\ nodeVars' = nodeVars /\ wire' = wire /\ dsQueue' = dsQueue /\ pc' = pc
        /\ lastIrreversibleBlock' = lastIrreversibleBlock /\ collectedBlocks' = collectedBlocks
        /\ liveQueue' = liveQueue /\ actionLogs' = actionLogs /\ db' = db /\ notifications' = notifications /\ store' = store
        /\ running' = TRUE /\ state' = StoredState
        /\ currentBlock' = (num + 1) - 1 /\ lastBlockUpdate' = (num + 1) - 1
        /\ args' = [start |-> num + 1, have |-> store.blocks] /\ cursor' = FirstSent(args')
        /\ view' = SubSeq(store.tip, 1, store.position)
    BY <1>3 DEF Start, StartAt
  <2>3. chain' = chain /\ lib' = lib /\ forks' = forks /\ irreversibleOnly' = irreversibleOnly
    BY <2>2 DEF nodeVars
  <2>4. QED
    BY <1>1, <1>p, <2>1, <2>2, <2>3 DEF Stopped, StoredState, Ancestor
<1>5. \A x : OnChain(x)' = OnChain(x) /\ Known(x)' = Known(x)
  BY <1>4 DEF OnChain, Known
<1>6. \A have, x : Resumes(have, x)' = Resumes(have, x)
  BY <1>4, <1>5 DEF Resumes, Ancestors, Held
<1>7. Resumes(store.blocks, b)
  BY <1>1, <1>p DEF StoreInv
<1>8. /\ cursor' \in Nat /\ Continues(num, b, cursor', chain)
      /\ \A n \in 0..num : (b # <<>> => OnChain(Ancestor(b, n))) => n < cursor'
  <2>1. args'.start = num + 1 /\ args'.have = store.blocks
    BY <1>4
  <2>2. QED
    BY <1>1, <1>2, <1>4, <1>7, <2>1, FirstSentContinues
<1>9. ChainInv'
  BY <1>1, <1>4 DEF ChainInv
<1>10. pipe' = <<>> /\ Len(pipe') = 0 /\ Sending' = 1
  BY <1>4, EmptySeq DEF pipe, Sending
<1>11. PipeInv'
  <2>1. Continues(PrevNum(1), Prev(1), Number(1), Branch(1))'
    BY <1>4, <1>5, <1>8, <1>10 DEF Continues, PrevNum, Prev, Number, Branch
  <2>2. \A j \in 1..Sending' : j = 1
    BY <1>10
  <2>3. 1..Len(pipe') = {}
    BY <1>10
  <2>4. QED
    BY <1>8, <2>1, <2>2, <2>3, Zenon DEF PipeInv
<1>12. RequestInv'
  BY <1>4, <1>6, <1>7 DEF RequestInv, Consumed, ConsumedNum
<1>13. StoreInv'
  BY <1>1, <1>4, <1>5, <1>6 DEF StoreInv
<1>14. ViewInv'
  BY <1>2, <1>4, <1>5 DEF ViewInv
<1>15. StateInv'
  <2>1. ASSUME ~ store.live
        PROVE  Settled(num, 1)' /\ OnChain(b) /\ store.position <= num
    <3>1. store.blocks = {}
      BY <1>1, <2>1 DEF StoreInv, NoUndo
    <3>2. b # <<>> => num <= lib /\ OnChain(Ancestor(b, num)) /\ Ancestor(b, num) = b
      <4>1. b # <<>> => num \in 1..Num(b) /\ Ancestor(b, num) = b
        BY <1>1, <1>2, Whole DEF Num, Block
      <4>2. QED
        BY <1>7, <3>1, <4>1 DEF Resumes, Held
    <3>3. b = <<>> => OnChain(b) /\ num <= lib
      BY <1>1, <1>2 DEF OnChain, Ancestor, Num, ChainInv
    <3>4. num < cursor'
      BY <1>2, <1>8, <3>2
    <3>5. Fixed(num)'
      BY <1>4, <3>2, <3>3 DEF Fixed
    <3>6. Settled(num, 1)'
      <4>1. \A k \in 1..Sending' : num < Number(k)'
        BY <1>10, <3>4 DEF Number
      <4>2. 1..Len(pipe') = {}
        BY <1>10
      <4>3. QED
        BY <3>5, <4>1, <4>2 DEF Settled
    <3>7. QED
      BY <1>1, <1>n, <1>2, <3>2, <3>3, <3>6
  <2>2. QED
    BY <1>4, <1>5, <2>1 DEF StateInv
<1>16. StageInv'
  BY <1>2, <1>4, <1>6, <1>7 DEF StageInv
<1>17. QED
  BY <1>4, <1>9, <1>11, <1>12, <1>13, <1>14, <1>15, <1>16 DEF PathInv

-----------------------------------------------------------------------------
(* Theorems *)

LEMMA InitPath == Init => PathInv
<1> SUFFICES ASSUME Init
             PROVE  PathInv
  OBVIOUS
<1>1. /\ chain = [n \in 1..InitHead |-> 0] /\ lib = InitLib /\ forks = 0 /\ irreversibleOnly \in Modes
      /\ wire = <<>> /\ running = FALSE /\ dsQueue = <<>> /\ pc = "idle"
      /\ lastIrreversibleBlock = 0 /\ collectedBlocks = 0 /\ liveQueue = {} /\ actionLogs = {} /\ db = NoTransaction
      /\ notifications = <<>>
      /\ store = [effects |-> {}, undo |-> {}, traces |-> {}, repeated |-> {}, traceUndo |-> {},
                  blocks |-> {}, position |-> 0, live |-> FALSE, tip |-> <<>>]
  BY DEF Init
<1>2. chain \in Seq(0..forks) /\ Len(chain) = InitHead
  BY <1>1, Bounds
<1>3. ChainInv
  BY <1>1, <1>2, Bounds, EmptySeq, ConfigAssumption DEF ChainInv
<1>4. <<>> \in Block /\ Known(<<>>) /\ Num(<<>>) = 0 /\ Ancestor(<<>>, 0) = <<>>
  BY <1>2, <1>3, EmptySeq, Bounds DEF Block, Known, Num, Ancestor
<1>5. Resumes({}, <<>>)
  BY <1>4 DEF Resumes, Ancestors, Held
<1>6. StoreInv
  BY <1>1, <1>4, <1>5 DEF StoreInv, Store, NoUndo
<1>7. QED
  BY <1>1, <1>3, <1>6 DEF PathInv, Stopped

LEMMA PathStep == PathInv /\ [Next]_vars => PathInv'
<1> SUFFICES ASSUME PathInv, [Next]_vars
             PROVE  PathInv'
  OBVIOUS
<1>1. CASE Produce \/ (\E k \in 1..Len(chain) - 1 : Fork(k)) \/ (\E l \in 1..Len(chain) : AdvanceLib(l))
  BY <1>1, ChainSteps
<1>2. CASE Send
  BY <1>2, SendStep
<1>3. CASE Reconnect
  BY <1>3, ReconnectStep
<1>4. CASE Consume
  BY <1>4, ConsumeStep
<1>5. CASE ProcessBlock
  BY <1>5, ProcessStep
<1>6. CASE Execute
  BY <1>6, ExecuteStep
<1>7. CASE Commit
  BY <1>7, CommitStep
<1>8. CASE Publish \/ PublishFails
  BY <1>8, PublishStep
<1>9. CASE Stop
  BY <1>9, StopStep
<1>10. CASE Start
  BY <1>10, StartStep
<1>11. CASE UNCHANGED vars
  <2>1. /\ chain' = chain /\ lib' = lib /\ forks' = forks /\ irreversibleOnly' = irreversibleOnly
        /\ cursor' = cursor /\ wire' = wire /\ running' = running /\ args' = args
        /\ dsQueue' = dsQueue /\ pc' = pc /\ state' = state /\ currentBlock' = currentBlock
        /\ lastIrreversibleBlock' = lastIrreversibleBlock /\ collectedBlocks' = collectedBlocks
        /\ lastBlockUpdate' = lastBlockUpdate /\ liveQueue' = liveQueue /\ actionLogs' = actionLogs /\ db' = db
        /\ notifications' = notifications /\ view' = view /\ store' = store
    BY <1>11 DEF vars, nodeVars, memoryVars
  <2>2. CASE running
    <3>1. StoreInv /\ StateInv /\ StageInv
      BY <2>2 DEF PathInv
    <3>2. UNCHANGED <<nodeVars, cursor, wire, dsQueue>>
      BY <2>1 DEF nodeVars
    <3>3. /\ \A b : OnChain(b)' = OnChain(b) /\ Known(b)' = Known(b)
          /\ \A have, b : Resumes(have, b)' = Resumes(have, b)
          /\ \A n, j : Settled(n, j)' = Settled(n, j)
      BY <3>2, SameChain
    <3>4. StoreInv' /\ StateInv'
      BY <2>1, <3>1, <3>3 DEF StoreInv, StateInv
    <3>5. (TxInv => TxInv') /\ (CommitInv => CommitInv') /\ Transaction(0)' = Transaction(0)
      BY <2>1, <3>3 DEF TxInv, CommitInv, Transaction
    <3>6. StageInv'
      BY <2>1, <3>1, <3>3, <3>5 DEF StageInv
    <3>7. QED
      BY <2>1, <2>2, <3>2, <3>4, <3>6, SamePath
  <2>3. CASE ~ running
    <3>1. \A b : OnChain(b)' = OnChain(b) /\ Known(b)' = Known(b)
      BY <2>1 DEF OnChain, Known
    <3>2. ChainInv' /\ StoreInv' /\ Stopped'
      BY <2>1, <2>3, <3>1 DEF PathInv, ChainInv, StoreInv, Resumes, Ancestors, Held, Stopped
    <3>3. QED
      BY <2>1, <2>3, <3>2 DEF PathInv
  <2>4. QED
    BY <2>2, <2>3
<1>12. QED
  BY <1>1, <1>2, <1>3, <1>4, <1>5, <1>6, <1>7, <1>8, <1>9, <1>10, <1>11 DEF Next, Reader

(* The blocks on their way to a reader follow its branch, and leave it only *)
(* where the chain did; a request names what the node needs to find that    *)
(* place; what the database says of the reader's position is enough for a   *)
(* new process to continue from it.                                         *)
THEOREM PathSafe == Spec => []PathInv
<1>1. QED
  BY InitPath, PathStep, PTL DEF Spec

(* The queue is never paused because of a missing block or of one below the *)
(* last irreversible block: whatever forks, lost connections and restarts   *)
(* there are, the blocks the node sends are those process accepts.          *)
THEOREM BlocksAreAccepted == Spec => []NeverRefused
<1>1. PathInv => NeverRefused
  <2> SUFFICES ASSUME PathInv, running, pc = "idle", dsQueue # <<>>, Refused(Head(dsQueue))
               PROVE  FALSE
    BY DEF NeverRefused
  <2>r. PICK r : r = Head(dsQueue)
    OBVIOUS
  <2>1. /\ 1 \in 1..Len(pipe) /\ pipe[1] = r /\ Num(r.id) \in Nat /\ StartBlock <= Num(r.id)
        /\ Num(r.id) <= currentBlock + 1
    BY <2>r, HeadFacts DEF Continues
  <2>2. /\ currentBlock \in Nat /\ lastIrreversibleBlock \in Nat /\ ViewInv /\ ChainInv
    BY DEF PathInv, ViewInv
  <2>3. Num(r.id) <= currentBlock /\ Num(r.id) < lastIrreversibleBlock
    BY <2>r, <2>1, <2>2 DEF Refused
  <2>4. Settled(Num(r.id), 1)
    <3>1. Num(r.id) \in 1..currentBlock /\ Num(r.id) <= lastIrreversibleBlock
      BY <2>1, <2>2, <2>3, Bounds
    <3>2. QED
      BY <2>2, <3>1 DEF ViewInv
  <2>5. 1 \in 1..Sending /\ 1 # Sending
    BY <2>1, <2>2, PipeFacts DEF Sending
  <2>6. Num(r.id) < Num(r.id)
    BY <2>1, <2>4, <2>5 DEF Settled, Number
  <2>7. QED
    BY <2>1, <2>6
<1>2. QED
  BY <1>1, PathSafe, PTL

(* A block that process takes extends the branch of the last processed one, *)
(* after the rollback it may cause.                                         *)
THEOREM BlocksExtendTheView == Spec => []ParentProcessed
<1>1. PathInv => ParentProcessed
  <2> SUFFICES ASSUME PathInv, running, pc = "idle", dsQueue # <<>>, view # <<>>
               PROVE  IsPrefix(Front(Head(dsQueue).id), view)
    BY DEF ParentProcessed
  <2>r. PICK r : r = Head(dsQueue)
    OBVIOUS
  <2>n. PICK n : n = Num(r.id) - 1
    OBVIOUS
  <2>1. /\ r.id \in Seq(Nat) /\ Len(r.id) \in Nat /\ Len(r.id) > 0 /\ n = Len(r.id) - 1 /\ n \in Nat
        /\ Ancestor(r.id, n) = Ancestor(view, n) /\ n <= currentBlock
    <3>1. /\ r.id \in Block /\ Num(r.id) \in Nat /\ StartBlock <= Num(r.id)
          /\ Continues(currentBlock, view, Num(r.id), r.id)
      BY <2>r, HeadFacts
    <3>2. currentBlock \in Nat
      BY DEF PathInv, ViewInv
    <3>3. Num(r.id) > 0 /\ n \in Nat /\ n <= currentBlock /\ Ancestor(r.id, n) = Ancestor(view, n)
      BY <2>n, <3>1, <3>2, Bounds DEF Continues
    <3>4. QED
      BY <2>n, <3>1, <3>3 DEF Block, Num
  <2>2. view \in Seq(Nat) /\ n <= Len(view)
    BY <2>1, KnownFacts DEF PathInv, ViewInv, Block, Num
  <2>3. Front(r.id) = Ancestor(view, n)
    BY <2>1 DEF Front, Ancestor
  <2>4. Len(Ancestor(view, n)) = n /\ Ancestor(Ancestor(view, n), n) = Ancestor(view, n)
    <3>1. n \in 0..Len(view) /\ n \in 0..n
      BY <2>1, <2>2
    <3>2. QED
      BY <2>2, <3>1, AncestorFacts, Nested
  <2>5. IsPrefix(Ancestor(view, n), view)
    BY <2>1, <2>2, <2>4 DEF IsPrefix, Ancestor
  <2>6. QED
    BY <2>r, <2>3, <2>5
<1>2. QED
  BY <1>1, PathSafe, PTL

-----------------------------------------------------------------------------
(***************************************************************************)
(* The tables: unless forks are deeper than the distance from the head at  *)
(* which blocks are grouped, every block is executed once, on the tables   *)
(* of its parent, and the committed database is the image of one branch.   *)
(***************************************************************************)

(* Groups are filled far from the head only: a fork does not reach the     *)
(* block that ends an unfinished group.                                    *)
ShallowForks == Group = 1 \/ ForkDepth < 2 * Group

(* What executing the blocks up to b leaves in the tables. *)
Image(b) == {Ancestor(b, n) : n \in {m \in StartBlock..Num(b) : m \in JobBlocks}}

-----------------------------------------------------------------------------
(* The inductive invariant.                                                *)

(* No rollback reaches the n-th block of the branch that is processed. *)
Lasting(n) == n <= Num(view) /\ OnChain(Ancestor(view, n)) /\ Settled(n, 1)

StoredLasting(n) ==
  /\ n <= store.position /\ Fixed(n) /\ OnChain(Ancestor(store.tip, n))
  /\ running => Lasting(n)

(* An effect in the database can be undone under the number of its block,  *)
(* or it is there for good; a rollback query under another number than its *)
(* block's is never executed.                                              *)
StoredInv ==
  /\ store.effects = Image(store.tip)
  /\ \A b \in store.effects :
       Num(b) <= store.position /\ (<<Num(b), b>> \in store.undo \/ StoredLasting(Num(b)))
  /\ \A u \in store.undo : u[1] = Num(u[2]) \/ StoredLasting(u[1])

Undoable(s) ==
  /\ \A b \in s.effects : <<Num(b), b>> \in s.undo \/ Lasting(Num(b))
  /\ \A u \in s.undo : u[1] = Num(u[2]) \/ Lasting(u[1])

(* The blocks collected so far are irreversible and far from the head. *)
GroupInv ==
  /\ collectedBlocks = 0 => liveQueue = {}
  /\ collectedBlocks > 0 =>
       /\ Group > 1 /\ view # <<>> /\ currentBlock <= lastIrreversibleBlock
       /\ ~ irreversibleOnly =>
            /\ Len(chain) - currentBlock >= 2 * Group
            /\ \A j \in 1..Len(pipe) : pipe[j].head - currentBlock >= 2 * Group

(* The tables and the jobs that wait make the image of the view. *)
IdleInv ==
  /\ GroupInv
  /\ store.effects \subseteq Image(view) /\ liveQueue = Image(view) \ store.effects

OpenInv ==
  /\ liveQueue \cap db.store.effects = {} /\ liveQueue \cup db.store.effects = Image(view)
  /\ Undoable(db.store)
  /\ state # "HEAD" => store.effects \subseteq db.store.effects

(* Jobs of a transaction with rollback queries belong to its block, or     *)
(* neither their blocks nor that block are ever rolled back.               *)
JobsInv ==
  /\ ~ db.begun => db.store = store
  /\ db.block = 0 => \A b \in liveQueue : Lasting(Num(b))
  /\ db.block # 0 => \A b \in liveQueue : b = view \/ (Lasting(Num(b)) /\ Lasting(currentBlock))

TableInv ==
  /\ \A b \in store.effects : OnChain(b) => b \in Image(view)
  /\ pc \in {"idle", "publish"} => IdleInv
  /\ pc = "publish" => collectedBlocks = 0
  /\ pc \in {"execute", "commit"} => OpenInv
  /\ pc = "execute" => JobsInv
  /\ pc = "commit" => \A b \in db.store.effects : Num(b) <= db.store.position

AnnouncedInv ==
  /\ ~ running => announced \subseteq store.effects
  /\ running /\ pc = "idle" => announced \subseteq store.effects /\ notifications = <<>>
  /\ running /\ pc \in {"execute", "commit"} =>
       /\ announced \subseteq store.effects
       /\ Told(announced, notifications) \subseteq db.store.effects
  /\ running /\ pc = "publish" =>
       /\ Told(announced, notifications) \subseteq store.effects
       /\ state # "HEAD" => announced \subseteq store.effects

TablesInv == StoredInv /\ (running => TableInv) /\ (lost \/ AnnouncedInv)

-----------------------------------------------------------------------------
(* Images *)

LEMMA ImageFacts ==
  ASSUME NEW b \in Block
  PROVE  /\ Num(b) \in Nat
         /\ \A x : x \in Image(b) <=>
              Num(x) \in StartBlock..Num(b) /\ Num(x) \in JobBlocks /\ x = Ancestor(b, Num(x))
         /\ \A x \in Image(b) : x \in Block /\ Num(x) \in Nat /\ Num(x) <= Num(b) /\ Num(x) >= StartBlock
<1>1. b \in Seq(Nat) /\ Num(b) = Len(b) /\ Num(b) \in Nat
  BY DEF Block, Num
<1>2. \A n \in StartBlock..Num(b) : n \in 0..Len(b)
  BY <1>1, Bounds
<1>3. \A n \in StartBlock..Num(b) : Ancestor(b, n) \in Block /\ Num(Ancestor(b, n)) = n
  BY <1>1, <1>2, AncestorFacts DEF Block, Num
<1>4. \A x : x \in Image(b) <=>
        Num(x) \in StartBlock..Num(b) /\ Num(x) \in JobBlocks /\ x = Ancestor(b, Num(x))
  BY <1>3, Zenon DEF Image
<1>5. \A x \in Image(b) : x \in Block /\ Num(x) \in StartBlock..Num(b)
  BY <1>3, <1>4
<1>6. QED
  BY <1>1, <1>4, <1>5, Bounds

LEMMA ImageOfAncestor ==
  ASSUME NEW b \in Block, NEW m \in 0..Num(b)
  PROVE  Image(Ancestor(b, m)) = {x \in Image(b) : Num(x) <= m}
<1>1. /\ b \in Seq(Nat) /\ m \in 0..Len(b) /\ m \in Nat /\ Num(b) \in Nat /\ m <= Num(b)
      /\ Ancestor(b, m) \in Block /\ Num(Ancestor(b, m)) = m
  BY AncestorFacts DEF Block, Num
<1>2. \A n \in 0..m : Ancestor(Ancestor(b, m), n) = Ancestor(b, n)
  BY <1>1, Nested
<1>3. \A x : x \in Image(Ancestor(b, m)) <=>
        Num(x) \in StartBlock..m /\ Num(x) \in JobBlocks /\ x = Ancestor(Ancestor(b, m), Num(x))
  BY <1>1, ImageFacts
<1>4. \A x : x \in Image(b) <=>
        Num(x) \in StartBlock..Num(b) /\ Num(x) \in JobBlocks /\ x = Ancestor(b, Num(x))
  BY ImageFacts
<1>5. \A x : Num(x) \in StartBlock..m <=> Num(x) \in StartBlock..Num(b) /\ Num(x) <= m
  BY <1>1, Bounds
<1>6. \A x : Num(x) \in StartBlock..m => Num(x) \in 0..m
  BY <1>1, Bounds
<1>7. QED
  BY <1>2, <1>3, <1>4, <1>5, <1>6

(* The block c continues v, and v and the blocks below it that it replaces. *)
LEMMA ImageNext ==
  ASSUME NEW v \in Block, NEW c \in Block, StartBlock <= Num(c),
         v # <<>> => Num(c) - 1 <= Num(v) /\ Ancestor(c, Num(c) - 1) = Ancestor(v, Num(c) - 1),
         v = <<>> => Num(c) <= StartBlock
  PROVE  Image(c) = {x \in Image(v) : Num(x) < Num(c)} \cup Jobs(c)
<1> DEFINE n == Num(c)
<1>1. n \in Nat /\ n > 0 /\ n - 1 \in 0..Num(c) /\ Ancestor(c, n) = c
  BY ImageFacts, Whole, Bounds DEF Num, Block
<1>2. {x \in Image(c) : Num(x) <= n - 1} = {x \in Image(v) : Num(x) < n}
  <2>1. CASE v # <<>>
    <3>1. n - 1 \in 0..Num(v)
      BY <1>1, <2>1, ImageFacts
    <3>2. {x \in Image(c) : Num(x) <= n - 1} = {x \in Image(v) : Num(x) <= n - 1}
      BY <1>1, <2>1, <3>1, ImageOfAncestor
    <3>3. \A x \in Image(v) : Num(x) <= n - 1 <=> Num(x) < n
      BY <1>1, ImageFacts
    <3>4. QED
      BY <3>2, <3>3
  <2>2. CASE v = <<>>
    <3>1. n = StartBlock /\ Num(v) = 0
      BY <1>1, <2>2, Bounds DEF Num
    <3>2. \A x \in Image(v) : FALSE
      BY <3>1, ImageFacts, Bounds
    <3>3. \A x \in Image(c) : ~ (Num(x) <= n - 1)
      BY <3>1, ImageFacts, Bounds
    <3>4. QED
      BY <3>2, <3>3
  <2>3. QED
    BY <2>1, <2>2
<1>3. {x \in Image(c) : ~ (Num(x) <= n - 1)} = Jobs(c)
  <2>1. ASSUME NEW x \in Image(c), ~ (Num(x) <= n - 1)
        PROVE  x \in Jobs(c)
    <3>1. Num(x) = n /\ Num(x) \in JobBlocks /\ x = Ancestor(c, Num(x))
      BY <1>1, <2>1, ImageFacts
    <3>2. QED
      BY <1>1, <3>1 DEF Jobs
  <2>2. ASSUME NEW x \in Jobs(c)
        PROVE  x \in Image(c) /\ ~ (Num(x) <= n - 1)
    <3>1. x = c /\ n \in JobBlocks
      BY <2>2 DEF Jobs
    <3>2. n \in StartBlock..Num(c)
      BY <1>1, Bounds
    <3>3. QED
      BY <1>1, <3>1, <3>2, ImageFacts
  <2>3. QED
    BY <2>1, <2>2
<1>4. QED
  BY <1>2, <1>3

LEMMA ImageOfView ==
  ASSUME PathInv, running
  PROVE  /\ view \in Block /\ Known(view) /\ currentBlock \in Nat /\ Num(view) \in Nat
         /\ Num(view) <= currentBlock /\ (view # <<>> => Num(view) = currentBlock)
         /\ \A x \in Image(view) : Known(x) /\ Num(x) \in 1..Num(view) /\ Num(x) \in 0..currentBlock
<1>1. ChainInv /\ ViewInv
  BY DEF PathInv
<1>2. view \in Block /\ Known(view) /\ currentBlock \in Nat /\ Num(view) \in Nat
  BY <1>1, KnownFacts DEF ViewInv
<1>3. view = <<>> => Num(view) = 0
  BY EmptySeq DEF Num
<1>4. Num(view) <= currentBlock /\ (view # <<>> => Num(view) = currentBlock)
  BY <1>1, <1>2, <1>3 DEF ViewInv
<1>5. ASSUME NEW x \in Image(view)
      PROVE  Known(x) /\ Num(x) \in 1..Num(view) /\ Num(x) \in 0..currentBlock
  <2>1. Num(x) \in StartBlock..Num(view) /\ x = Ancestor(view, Num(x))
    BY <1>2, ImageFacts
  <2>2. Num(x) \in 0..Num(view) /\ Num(x) \in 1..Num(view) /\ Num(x) \in 0..currentBlock
    BY <1>2, <1>4, <2>1, Bounds
  <2>3. Known(Ancestor(view, Num(x)))
    BY <1>1, <1>2, <2>2, KnownAncestor
  <2>4. QED
    BY <2>1, <2>2, <2>3
<1>6. QED
  BY <1>2, <1>4, <1>5

LEMMA StoredFacts ==
  ASSUME PathInv, StoredInv
  PROVE  /\ store \in Store /\ store.tip \in Block /\ Known(store.tip)
         /\ store.position \in 0..Num(store.tip) /\ store.position \in Nat
         /\ \A x \in store.effects : x \in Block /\ Known(x) /\ Num(x) \in Nat
<1>1. ChainInv /\ StoreInv
  BY DEF PathInv
<1>2. store \in Store /\ Known(store.tip) /\ store.tip \in Block /\ Num(store.tip) \in Nat
  BY <1>1, KnownFacts DEF StoreInv
<1>3. store.position \in 0..Num(store.tip) /\ store.position \in Nat
  BY <1>1, <1>2 DEF StoreInv, Store
<1>4. ASSUME NEW x \in store.effects
      PROVE  x \in Block /\ Known(x) /\ Num(x) \in Nat
  <2>1. Num(x) \in StartBlock..Num(store.tip) /\ x = Ancestor(store.tip, Num(x))
    BY <1>2, ImageFacts DEF StoredInv
  <2>2. Num(x) \in 0..Num(store.tip)
    BY <1>2, <2>1, Bounds
  <2>3. Known(x)
    BY <1>1, <1>2, <2>1, <2>2, KnownAncestor
  <2>4. QED
    BY <1>1, <2>3, KnownFacts
<1>5. QED
  BY <1>2, <1>3, <1>4

-----------------------------------------------------------------------------
(* Steps of the chain, the node and the connection *)

LEMMA LastingGrown ==
  ASSUME PathInv, running, Grown, SettledKept, view' = view,
         NEW n \in Nat, Lasting(n)
  PROVE  Lasting(n)'
<1>1. /\ ChainInv /\ Known(view) /\ n \in 0..Num(view) /\ n \in 0..currentBlock
      /\ OnChain(Ancestor(view, n)) /\ Settled(n, 1) /\ Fixed(n)
  BY ImageOfView DEF PathInv, Lasting, Settled
<1>2. Known(Ancestor(view, n)) /\ Num(Ancestor(view, n)) = n
  BY <1>1, KnownAncestor
<1>3. OnChain(Ancestor(view, n))'
  BY <1>1, <1>2 DEF Grown
<1>4. Settled(n, 1)'
  BY <1>1 DEF SettledKept
<1>5. QED
  BY <1>1, <1>3, <1>4 DEF Lasting

LEMMA StoredLastingKept ==
  ASSUME PathInv, StoredInv, Grown, store' = store, running' = running,
         running => \A n \in Nat : Lasting(n) => Lasting(n)',
         NEW n \in Nat, StoredLasting(n)
  PROVE  StoredLasting(n)'
<1>1. ChainInv /\ Known(store.tip) /\ n \in 0..Num(store.tip)
  <2>1. ChainInv /\ n <= store.position
    BY DEF PathInv, StoredLasting
  <2>2. Known(store.tip) /\ store.position \in 0..Num(store.tip) /\ Num(store.tip) \in Nat
    BY StoredFacts, ImageFacts
  <2>3. QED
    BY <2>1, <2>2
<1>2. Known(Ancestor(store.tip, n)) /\ Num(Ancestor(store.tip, n)) = n
  BY <1>1, KnownAncestor
<1>3. OnChain(Ancestor(store.tip, n))' /\ Fixed(n)'
  BY <1>1, <1>2 DEF Grown, StoredLasting
<1>4. QED
  BY <1>3 DEF StoredLasting

LEMMA UndoneNumbers ==
  ASSUME NEW s \in Store
  PROVE  \A u \in s.undo : u[1] \in Nat
BY DEF Store

LEMMA StoredInvKept ==
  ASSUME PathInv, StoredInv, Grown, store' = store, running' = running,
         running => \A n \in Nat : Lasting(n) => Lasting(n)'
  PROVE  StoredInv'
<1>1. \A n \in Nat : StoredLasting(n) => StoredLasting(n)'
  BY StoredLastingKept
<1>2. Image(store.tip)' = Image(store.tip)
  BY DEF Image
<1>3. \A b \in store.effects : Num(b) \in Nat
  BY StoredFacts
<1>4. \A u \in store.undo : u[1] \in Nat
  BY StoredFacts, UndoneNumbers
<1>5. QED
  BY <1>1, <1>2, <1>3, <1>4 DEF StoredInv

ReaderUnchanged ==
  UNCHANGED <<irreversibleOnly, running, store, pc, state, currentBlock, lastIrreversibleBlock,
              collectedBlocks, liveQueue, actionLogs, db, notifications, view, announced, lost>>

LEMMA TablesKept ==
  ASSUME PathInv, TablesInv, Grown, running => SettledKept, ReaderUnchanged,
         running /\ GroupInv => GroupInv'
  PROVE  TablesInv'
<1>1. /\ running' = running /\ store' = store /\ pc' = pc /\ state' = state /\ view' = view
      /\ currentBlock' = currentBlock /\ lastIrreversibleBlock' = lastIrreversibleBlock
      /\ collectedBlocks' = collectedBlocks /\ liveQueue' = liveQueue /\ actionLogs' = actionLogs /\ db' = db
      /\ notifications' = notifications /\ announced' = announced /\ lost' = lost
      /\ irreversibleOnly' = irreversibleOnly
  BY DEF ReaderUnchanged
<1>2. running => \A n \in Nat : Lasting(n) => Lasting(n)'
  BY <1>1, LastingGrown
<1>3. StoredInv /\ StoredInv'
  BY <1>1, <1>2, StoredInvKept DEF TablesInv
<1>4. AnnouncedInv' = AnnouncedInv
  BY <1>1 DEF AnnouncedInv, Told
<1>5. ASSUME running
      PROVE  TableInv'
  <2>1. TableInv /\ Image(view)' = Image(view) /\ StageInv
    BY <1>1, <1>5 DEF TablesInv, PathInv, Image
  <2>2. \A b \in store.effects : OnChain(b)' => OnChain(b)
    BY <1>3, StoredFacts DEF Grown
  <2>3. IdleInv => IdleInv'
    BY <1>1, <1>5, <2>1 DEF IdleInv
  <2>4. pc \in {"execute", "commit"} => db.store \in Store
    BY <2>1 DEF StageInv, TxInv, Transactions
  <2>5. pc \in {"execute", "commit"} => \A b \in liveQueue \cup db.store.effects : Num(b) \in Nat
    BY <1>5, <2>1, ImageOfView DEF TableInv, OpenInv
  <2>6. pc \in {"execute", "commit"} => Undoable(db.store)'
    <3>1. pc \in {"execute", "commit"} => \A u \in db.store.undo : u[1] \in Nat
      BY <2>4, UndoneNumbers
    <3>2. QED
      BY <1>1, <1>2, <1>5, <2>1, <2>5, <3>1 DEF TableInv, OpenInv, Undoable
  <2>7. pc \in {"execute", "commit"} => OpenInv'
    BY <1>1, <2>1, <2>6 DEF TableInv, OpenInv
  <2>8. pc = "execute" => JobsInv'
    <3>1. currentBlock \in Nat
      BY <1>5, ImageOfView
    <3>2. QED
      BY <1>1, <1>2, <1>5, <2>1, <2>5, <3>1 DEF TableInv, JobsInv
  <2>9. QED
    BY <1>1, <2>1, <2>2, <2>3, <2>7, <2>8 DEF TableInv
<1>6. QED
  BY <1>1, <1>3, <1>4, <1>5 DEF TablesInv

LEMMA ChainTables ==
  ASSUME PathInv, TablesInv,
         Produce \/ (\E k \in 1..Len(chain) - 1 : Fork(k)) \/ (\E l \in 1..Len(chain) : AdvanceLib(l))
  PROVE  TablesInv'
<1>1. Grown /\ OthersUnchanged /\ (running => SettledKept) /\ PathInv'
  BY ChainSteps
<1>2. UNCHANGED <<announced, lost>>
  BY DEF Produce, Fork, AdvanceLib
<1>3. ReaderUnchanged
  BY <1>1, <1>2 DEF ReaderUnchanged, OthersUnchanged, memoryVars
<1>4. running /\ GroupInv => GroupInv'
  <2>1. /\ pipe' = pipe /\ currentBlock' = currentBlock /\ collectedBlocks' = collectedBlocks
        /\ liveQueue' = liveQueue /\ view' = view /\ irreversibleOnly' = irreversibleOnly
        /\ lastIrreversibleBlock' = lastIrreversibleBlock
    BY <1>1, <1>3 DEF pipe, OthersUnchanged, memoryVars, ReaderUnchanged
  <2>2. running => Len(chain) \in Nat /\ Len(chain') \in Nat /\ Len(chain) <= Len(chain') /\ currentBlock \in Nat
    <3>1. ChainInv /\ ChainInv' /\ (running => ViewInv)
      BY <1>1 DEF PathInv
    <3>2. chain \in Seq(0..forks) /\ chain' \in Seq(0..forks')
      BY <3>1 DEF ChainInv
    <3>3. Len(chain) \in Nat /\ Len(chain') \in Nat
      BY <3>2, LenProperties
    <3>4. Len(chain) <= Len(chain')
      BY <1>1, Zenon DEF Grown
    <3>5. running => currentBlock \in Nat
      BY <3>1 DEF ViewInv
    <3>6. QED
      BY <3>3, <3>4, <3>5
  <2>3. QED
    BY <2>1, <2>2, Bounds DEF GroupInv
<1>5. QED
  BY <1>1, <1>3, <1>4, TablesKept

LEMMA SameChainGrown ==
  ASSUME PathInv, UNCHANGED nodeVars
  PROVE  Grown
<1>1. chain' = chain /\ lib' = lib /\ forks' = forks
  BY DEF nodeVars
<1>2. ChainInv
  BY DEF PathInv
<1>3. QED
  BY <1>1, <1>2 DEF Grown, ChainInv, Known, OnChain, Fixed

LEMMA PipeTables ==
  ASSUME PathInv, TablesInv, Send \/ Reconnect \/ Consume
  PROVE  TablesInv'
<1>1. SettledKept /\ ReaderUnchanged /\ running /\ UNCHANGED nodeVars
  BY SendStep, ReconnectStep, ConsumeStep DEF Send, Reconnect, Consume, ReaderUnchanged, memoryVars, nodeVars
<1>2. /\ currentBlock' = currentBlock /\ collectedBlocks' = collectedBlocks
      /\ liveQueue' = liveQueue /\ view' = view /\ irreversibleOnly' = irreversibleOnly
      /\ lastIrreversibleBlock' = lastIrreversibleBlock /\ chain' = chain
  BY <1>1 DEF ReaderUnchanged, nodeVars
<1>3. wire \in Seq(Response) /\ dsQueue \in Seq(Response)
  BY DEF PathInv, ChainInv
<1>4. \A j \in 1..Len(pipe') :
        pipe'[j].head = Len(chain) \/ \E i \in 1..Len(pipe) : pipe'[j] = pipe[i]
  <2>1. CASE Send
    <3>1. PICK r : r = [id |-> SubSeq(chain, 1, cursor), head |-> Len(chain), lib |-> lib]
      OBVIOUS
    <3>2. pipe' = dsQueue \o Append(wire, r) /\ r.head = Len(chain) /\ pipe = dsQueue \o wire
      BY <2>1, <3>1 DEF Send, memoryVars, pipe
    <3>3. \A q, w : q \in Seq(Response) /\ w \in Seq(Response) =>
            \A j \in 1..Len(q \o Append(w, r)) :
              (q \o Append(w, r))[j] = r \/ (j \in 1..Len(q \o w) /\ (q \o Append(w, r))[j] = (q \o w)[j])
      OBVIOUS
    <3>4. QED
      BY <1>3, <3>2, <3>3
  <2>2. CASE Reconnect
    <3>1. pipe' = dsQueue \o <<>> /\ pipe = dsQueue \o wire
      BY <2>2 DEF Reconnect, memoryVars, pipe
    <3>2. \A j \in 1..Len(dsQueue \o <<>>) :
            j \in 1..Len(dsQueue \o wire) /\ (dsQueue \o <<>>)[j] = (dsQueue \o wire)[j]
      BY <1>3
    <3>3. QED
      BY <3>1, <3>2
  <2>3. CASE Consume
    <3>1. pipe' = Append(dsQueue, Head(wire)) \o Tail(wire) /\ wire # <<>>
      BY <2>3 DEF Consume, pipe
    <3>2. pipe' = pipe
      BY <1>3, <3>1, MoveHead DEF pipe
    <3>3. QED
      BY <3>2
  <2>4. QED
    BY <2>1, <2>2, <2>3
<1>5. GroupInv => GroupInv'
  BY <1>2, <1>4 DEF GroupInv
<1>6. QED
  BY <1>1, <1>5, SameChainGrown, TablesKept

-----------------------------------------------------------------------------
(* Steps of process *)

(* What the reader finds when it takes the block of r. *)
LEMMA TakenFacts ==
  ASSUME PathInv, ProcessBlock, NEW r, r = Head(dsQueue)
  PROVE  /\ running /\ pc = "idle" /\ dsQueue # <<>> /\ ChainInv /\ ViewInv
         /\ r \in Response /\ r.id \in Block /\ Num(r.id) \in Nat /\ StartBlock <= Num(r.id)
         /\ Num(r.id) > 0 /\ Num(r.id) <= currentBlock + 1 /\ r.lib \in Nat /\ r.head \in Nat
         /\ view # <<>> => Num(r.id) - 1 <= Num(view)
                           /\ Ancestor(r.id, Num(r.id) - 1) = Ancestor(view, Num(r.id) - 1)
         /\ view = <<>> => Num(r.id) <= StartBlock
         /\ Num(r.id) <= currentBlock => view # <<>> /\ ~ OnChain(Ancestor(view, Num(r.id)))
         /\ \A m \in Nat : m <= Num(view) /\ m < Num(r.id) =>
              Ancestor(r.id, m) = Ancestor(view, m)
         /\ \A m \in Nat : Settled(m, 1) => m < Num(r.id)
<1>1. running /\ pc = "idle" /\ dsQueue # <<>> /\ ChainInv /\ ViewInv
  BY ProcessFacts DEF PathInv
<1>2. /\ r \in Response /\ r.id \in Block /\ Num(r.id) \in Nat /\ StartBlock <= Num(r.id)
      /\ Continues(currentBlock, view, Num(r.id), r.id) /\ 1 \in 1..Len(pipe) /\ pipe[1] = r
      /\ r.lib \in Nat /\ r.head \in Nat
  BY <1>1, HeadFacts DEF Response
<1>3. /\ view \in Block /\ currentBlock \in Nat /\ Num(view) \in Nat
      /\ view # <<>> => Num(view) = currentBlock
      /\ view = <<>> => currentBlock = StartBlock - 1 /\ Num(view) = 0
  BY <1>1, ImageOfView, EmptySeq DEF ViewInv, Num
<1>4. /\ Num(r.id) > 0 /\ Num(r.id) <= currentBlock + 1
      /\ view # <<>> => Num(r.id) - 1 <= Num(view)
                        /\ Ancestor(r.id, Num(r.id) - 1) = Ancestor(view, Num(r.id) - 1)
      /\ view = <<>> => Num(r.id) <= StartBlock
      /\ Num(r.id) <= currentBlock => view # <<>> /\ ~ OnChain(Ancestor(view, Num(r.id)))
  BY <1>2, <1>3, Bounds DEF Continues
<1>5. ASSUME NEW m \in Nat, m <= Num(view), m < Num(r.id)
      PROVE  Ancestor(r.id, m) = Ancestor(view, m)
  <2>1. CASE view = <<>>
    <3>1. m = 0
      BY <1>3, <1>5, <2>1
    <3>2. QED
      BY <3>1 DEF Ancestor
  <2>2. CASE view # <<>>
    <3>1. /\ r.id \in Seq(Nat) /\ view \in Seq(Nat) /\ Num(r.id) - 1 \in 0..Len(r.id)
          /\ Num(r.id) - 1 \in 0..Len(view) /\ m \in 0..(Num(r.id) - 1)
      <4>1. Num(r.id) - 1 \in 0..Num(r.id) /\ Num(r.id) - 1 \in 0..Num(view) /\ m \in 0..(Num(r.id) - 1)
        BY <1>2, <1>3, <1>4, <1>5, <2>2
      <4>2. QED
        BY <1>2, <1>3, <4>1 DEF Block, Num
    <3>2. /\ Ancestor(Ancestor(r.id, Num(r.id) - 1), m) = Ancestor(r.id, m)
          /\ Ancestor(Ancestor(view, Num(r.id) - 1), m) = Ancestor(view, m)
      BY <3>1, Nested
    <3>3. QED
      BY <1>4, <2>2, <3>2
  <2>3. QED
    BY <2>1, <2>2
<1>6. ASSUME NEW m \in Nat, Settled(m, 1)
      PROVE  m < Num(r.id)
  <2>1. 1 \in 1..Sending /\ 1 # Sending
    BY <1>1, <1>2, PipeFacts DEF Sending
  <2>2. QED
    BY <1>2, <1>6, <2>1 DEF Settled, Number
<1>7. QED
  BY <1>1, <1>2, <1>4, <1>5, <1>6

LEMMA LastingTaken ==
  ASSUME PathInv, ProcessBlock, NEW r, r = Head(dsQueue), NEW n \in Nat
  PROVE  /\ Lasting(n) => n < Num(r.id) /\ Lasting(n)'
         /\ 1 <= n /\ n <= Num(r.id) /\ FixedBy(r, n) => Lasting(n)'
<1>1. view' = r.id /\ chain' = chain
  BY ProcessFacts DEF nodeVars
<1>2. ASSUME Lasting(n)
      PROVE  n < Num(r.id) /\ Lasting(n)'
  <2>1. n < Num(r.id) /\ Ancestor(r.id, n) = Ancestor(view, n) /\ OnChain(Ancestor(view, n))
    BY <1>2, TakenFacts DEF Lasting
  <2>2. Settled(n, 1 + 1) /\ 1 \in Nat /\ 1 >= 1
    BY <1>2, TakenFacts, PipeFacts DEF Lasting, Settled
  <2>3. Settled(n, 1)'
    BY <2>2, PipeTail, Zenon
  <2>4. n <= Num(r.id)
    BY <2>1, TakenFacts
  <2>5. QED
    BY <1>1, <2>1, <2>3, <2>4 DEF Lasting, OnChain
<1>3. ASSUME 1 <= n, n <= Num(r.id), FixedBy(r, n)
      PROVE  Lasting(n)'
  <2>1. n \in 1..Num(r.id)
    BY <1>3, TakenFacts
  <2>2. OnChain(Ancestor(r.id, n)) /\ Settled(n, 1 + 1) /\ 1 \in Nat /\ 1 >= 1
    BY <1>3, <2>1, TakenFacts, HeadFacts
  <2>3. Settled(n, 1)'
    BY <2>2, PipeTail, Zenon
  <2>4. QED
    BY <1>1, <1>3, <2>2, <2>3 DEF Lasting, OnChain
<1>4. QED
  BY <1>2, <1>3

(* A fork is met between groups, and by a reader that has seen the head.   *)
LEMMA ForkFacts ==
  ASSUME PathInv, TablesInv, ProcessBlock, NEW r, r = Head(dsQueue)
  PROVE  /\ TableInv /\ IdleInv /\ StoredInv
         /\ collectedBlocks > 0 => currentBlock < Num(r.id) /\ currentBlock \in Nat /\ currentBlock > 0
         /\ state # "HEAD" => currentBlock < Num(r.id)
         /\ Num(r.id) <= currentBlock => liveQueue = {} /\ store.effects = Image(view)
         /\ \A m \in Nat : StoredLasting(m) => Lasting(m)
<1>1. running /\ pc = "idle" /\ ViewInv /\ StageInv /\ StateInv
  BY TakenFacts DEF PathInv
<1>2. TableInv /\ IdleInv /\ StoredInv /\ currentBlock \in Nat /\ collectedBlocks \in Nat
  BY <1>1, ImageOfView DEF TablesInv, TableInv, StageInv
<1>3. ASSUME collectedBlocks > 0
      PROVE  currentBlock < Num(r.id) /\ currentBlock > 0
  <2>1. view # <<>> /\ currentBlock <= lastIrreversibleBlock
    BY <1>2, <1>3 DEF IdleInv, GroupInv
  <2>2. currentBlock \in 1..currentBlock /\ currentBlock > 0
    BY <1>1, <1>2, <2>1, Bounds DEF ViewInv
  <2>3. Settled(currentBlock, 1)
    BY <1>1, <2>1, <2>2 DEF ViewInv
  <2>4. QED
    BY <1>2, <2>2, <2>3, TakenFacts
<1>4. state # "HEAD" => currentBlock < Num(r.id)
  <2>1. state # "HEAD" => Settled(currentBlock, 1)
    BY <1>1 DEF StateInv
  <2>2. QED
    BY <1>2, <2>1, TakenFacts
<1>5. ASSUME Num(r.id) <= currentBlock
      PROVE  liveQueue = {} /\ store.effects = Image(view)
  <2>1. collectedBlocks = 0
    BY <1>2, <1>3, <1>5, TakenFacts
  <2>2. liveQueue = {}
    BY <1>2, <2>1 DEF IdleInv, GroupInv
  <2>3. QED
    BY <1>2, <2>2 DEF IdleInv
<1>6. \A m \in Nat : StoredLasting(m) => Lasting(m)
  BY <1>1 DEF StoredLasting
<1>7. QED
  BY <1>2, <1>3, <1>4, <1>5, <1>6

(* A rollback takes the replaced blocks out of the tables, and no other. *)
LEMMA PreparedTables ==
  ASSUME PathInv, TablesInv, ProcessBlock, NEW r, r = Head(dsQueue)
  PROVE  /\ Prepared(store, r) \in Store
         /\ Prepared(store, r).effects = {b \in store.effects : Num(b) < Num(r.id)}
         /\ Prepared(store, r).undo \subseteq store.undo
         /\ \A b \in store.effects :
              <<Num(b), b>> \in store.undo /\ Num(b) < Num(r.id) =>
                <<Num(b), b>> \in Prepared(store, r).undo \/ Num(b) <= r.lib
         /\ liveQueue' = {b \in liveQueue : Num(b) < Num(r.id)} \cup Jobs(r.id)
         /\ Num(r.id) > currentBlock => Prepared(store, r).effects = store.effects
<1> DEFINE n == Num(r.id)
<1> DEFINE rolled == IF n <= currentBlock THEN Rollback(store, n) ELSE store
<1>1. /\ r \in Response /\ n \in Nat /\ n > 0 /\ r.lib \in Nat /\ store \in Store /\ currentBlock \in Nat
      /\ running /\ liveQueue' = liveQueue \cup Jobs(r.id)
      /\ \A b \in store.effects : Num(b) \in Nat
  BY TakenFacts, ForkFacts, StoredFacts, ImageOfView, ProcessFacts
<1>2. /\ \A b \in Image(view) : Num(b) \in Nat /\ Num(b) <= currentBlock
      /\ \A b \in store.effects \cup liveQueue : b \in Image(view)
  BY <1>1, ImageOfView, ForkFacts DEF IdleInv
<1>3. Prepared(store, r) = IF n > r.lib THEN Register(rolled, r) ELSE rolled
  BY DEF Prepared
<1>4. /\ rolled \in Store /\ rolled.effects = {b \in store.effects : Num(b) < n}
      /\ rolled.undo \subseteq store.undo
      /\ \A b \in store.effects :
           <<Num(b), b>> \in store.undo /\ Num(b) < n => <<Num(b), b>> \in rolled.undo
  <2>1. CASE n <= currentBlock
    <3>1. /\ rolled \in Store
          /\ rolled.effects = store.effects \ {u[2] : u \in {u \in store.undo : u[1] >= n}}
          /\ rolled.undo = store.undo \ {u \in store.undo : u[1] >= n}
      BY <1>1, <2>1, RollbackFields
    <3>2. ASSUME NEW b \in store.effects, ~ (Num(b) < n)
          PROVE  b \in {u[2] : u \in {u \in store.undo : u[1] >= n}}
      <4>1. ~ StoredLasting(Num(b))
        BY <1>1, <3>2, ForkFacts, LastingTaken
      <4>2. <<Num(b), b>> \in store.undo
        BY <4>1, ForkFacts DEF StoredInv
      <4>3. <<Num(b), b>>[1] >= n /\ <<Num(b), b>>[2] = b
        BY <1>1, <3>2
      <4>4. QED
        BY <4>2, <4>3
    <3>3. ASSUME NEW u \in store.undo, u[1] >= n
          PROVE  ~ (Num(u[2]) < n)
      <4>1. u[1] \in Nat
        BY <1>1, UndoneNumbers
      <4>2. ~ StoredLasting(u[1])
        BY <1>1, <3>3, <4>1, ForkFacts, LastingTaken
      <4>3. u[1] = Num(u[2])
        BY <4>2, ForkFacts DEF StoredInv
      <4>4. QED
        BY <1>1, <3>3, <4>1, <4>3
    <3>4. rolled.effects = {b \in store.effects : Num(b) < n}
      BY <3>1, <3>2, <3>3
    <3>5. ASSUME NEW b \in store.effects, <<Num(b), b>> \in store.undo, Num(b) < n
          PROVE  <<Num(b), b>> \in rolled.undo
      <4>1. ~ (<<Num(b), b>>[1] >= n)
        BY <1>1, <3>5
      <4>2. QED
        BY <3>1, <3>5, <4>1
    <3>6. QED
      BY <3>1, <3>4, <3>5
  <2>2. CASE ~ (n <= currentBlock)
    <3>1. rolled = store
      BY <2>2
    <3>2. \A b \in store.effects : Num(b) < n
      BY <1>1, <1>2, <2>2
    <3>3. QED
      BY <1>1, <3>1, <3>2
  <2>3. QED
    BY <2>1, <2>2
<1> HIDE DEF rolled
<1>5. /\ Prepared(store, r) \in Store /\ Prepared(store, r).effects = rolled.effects
      /\ Prepared(store, r).undo \subseteq rolled.undo
      /\ \A u \in rolled.undo : u \in Prepared(store, r).undo \/ ~ (u[1] > r.lib)
  <2>1. CASE n > r.lib
    <3>1. Prepared(store, r) = Register(rolled, r)
      BY <1>3, <2>1
    <3>2. QED
      BY <1>1, <1>4, <3>1, RegisterFields
  <2>2. CASE ~ (n > r.lib)
    BY <1>3, <1>4, <2>2
  <2>3. QED
    BY <2>1, <2>2
<1>6. ASSUME NEW b \in store.effects, <<Num(b), b>> \in store.undo, Num(b) < n
      PROVE  <<Num(b), b>> \in Prepared(store, r).undo \/ Num(b) <= r.lib
  <2>1. <<Num(b), b>> \in rolled.undo
    BY <1>4, <1>6
  <2>2. <<Num(b), b>> \in Prepared(store, r).undo \/ ~ (<<Num(b), b>>[1] > r.lib)
    BY <1>5, <2>1
  <2>3. QED
    BY <1>1, <2>2
<1>7. liveQueue = {b \in liveQueue : Num(b) < n}
  <2>1. CASE n <= currentBlock
    BY <2>1, ForkFacts
  <2>2. CASE ~ (n <= currentBlock)
    BY <1>1, <1>2, <2>2
  <2>3. QED
    BY <2>1, <2>2
<1>8. ASSUME n > currentBlock
      PROVE  Prepared(store, r).effects = store.effects
  <2>1. \A b \in store.effects : Num(b) < n
    BY <1>1, <1>2, <1>8
  <2>2. QED
    BY <1>4, <1>5, <2>1
<1>9. QED
  BY <1>1, <1>4, <1>5, <1>6, <1>7, <1>8

LEMMA TakenImage ==
  ASSUME PathInv, TablesInv, ProcessBlock, NEW r, r = Head(dsQueue)
  PROVE  /\ liveQueue' \cap Prepared(store, r).effects = {}
         /\ liveQueue' \cup Prepared(store, r).effects = Image(r.id)
         /\ \A b \in store.effects : OnChain(b) => b \in Image(r.id)
<1> DEFINE n == Num(r.id)
<1>1. /\ running /\ ChainInv /\ r.id \in Block /\ n \in Nat /\ n > 0 /\ currentBlock \in Nat
      /\ view \in Block /\ Num(view) \in Nat /\ Num(view) <= currentBlock
      /\ Image(r.id) = {x \in Image(view) : Num(x) < n} \cup Jobs(r.id)
      /\ \A x \in Image(view) : Num(x) \in 1..Num(view) /\ x = Ancestor(view, Num(x))
  BY TakenFacts, ImageNext, ImageOfView, ImageFacts
<1>2. /\ store.effects \subseteq Image(view) /\ liveQueue = Image(view) \ store.effects
      /\ \A b \in store.effects : OnChain(b) => b \in Image(view)
  BY ForkFacts DEF IdleInv, TableInv
<1>3. /\ Prepared(store, r).effects = {b \in store.effects : Num(b) < n}
      /\ liveQueue' = {b \in liveQueue : Num(b) < n} \cup Jobs(r.id)
  BY PreparedTables
<1>4. \A b \in Jobs(r.id) : ~ (Num(b) < n)
  BY <1>1 DEF Jobs
<1>5. ASSUME NEW b \in store.effects, OnChain(b), b \notin Image(r.id)
      PROVE  FALSE
  <2>1. b \in Image(view) /\ ~ (Num(b) < n) /\ Num(b) \in 1..Num(view) /\ b = Ancestor(view, Num(b))
    BY <1>1, <1>2, <1>5
  <2>2. n <= currentBlock /\ n \in 0..Num(b) /\ Num(b) \in 0..Len(view) /\ b \in Block /\ view \in Seq(Nat)
    BY <1>1, <2>1, ImageFacts DEF Num, Block
  <2>3. ~ OnChain(Ancestor(view, n))
    BY <1>1, <2>2, TakenFacts
  <2>4. OnChain(Ancestor(b, n))
    BY <1>1, <1>5, <2>2, OnChainAncestor
  <2>5. Ancestor(b, n) = Ancestor(view, n)
    BY <2>1, <2>2, Nested
  <2>6. QED
    BY <2>3, <2>4, <2>5
<1>6. QED
  BY <1>1, <1>2, <1>3, <1>4, <1>5

LEMMA TakenUndoable ==
  ASSUME PathInv, TablesInv, ProcessBlock, NEW r, r = Head(dsQueue)
  PROVE  Undoable(db.store)'
<1>0. db' = [open |-> TRUE, begun |-> Num(r.id) <= currentBlock \/ Num(r.id) > r.lib,
             block |-> IF Num(r.id) > r.lib THEN Num(r.id) ELSE 0,
             store |-> Prepared(store, r)]
  BY ProcessFacts
<1>1. /\ db'.store = Prepared(store, r) /\ Prepared(store, r) \in Store
      /\ Prepared(store, r).effects = {b \in store.effects : Num(b) < Num(r.id)}
      /\ Prepared(store, r).undo \subseteq store.undo
      /\ \A b \in store.effects :
           <<Num(b), b>> \in store.undo /\ Num(b) < Num(r.id) =>
             <<Num(b), b>> \in Prepared(store, r).undo \/ Num(b) <= r.lib
  BY <1>0, PreparedTables
<1>2. StoredInv /\ (\A m \in Nat : StoredLasting(m) => Lasting(m))
  BY ForkFacts
<1>3. \A m \in Nat : Lasting(m) => Lasting(m)'
  BY LastingTaken
<1>4. ASSUME NEW b \in store.effects, Num(b) < Num(r.id)
      PROVE  <<Num(b), b>> \in Prepared(store, r).undo \/ Lasting(Num(b))'
  <2>1. Num(b) \in Nat /\ 1 <= Num(b) /\ Num(b) <= Num(r.id)
    BY <1>2, <1>4, ForkFacts, StoredFacts, ImageOfView, TakenFacts DEF IdleInv
  <2>2. CASE <<Num(b), b>> \in store.undo
    <3>1. Num(b) <= r.lib => FixedBy(r, Num(b))
      BY DEF FixedBy
    <3>2. Num(b) <= r.lib => Lasting(Num(b))'
      BY <2>1, <3>1, LastingTaken
    <3>3. QED
      BY <1>1, <1>4, <2>2, <3>2
  <2>3. CASE <<Num(b), b>> \notin store.undo
    BY <1>2, <1>3, <2>1, <2>3 DEF StoredInv
  <2>4. QED
    BY <2>2, <2>3
<1>5. ASSUME NEW u \in store.undo
      PROVE  u[1] = Num(u[2]) \/ Lasting(u[1])'
  <2>1. u[1] \in Nat
    BY <1>2, StoredFacts, UndoneNumbers
  <2>2. QED
    BY <1>2, <1>3, <2>1 DEF StoredInv
<1>6. QED
  BY <1>1, <1>4, <1>5 DEF Undoable

(* Jobs of earlier blocks are executed in the transaction of a reversible  *)
(* block only if no fork of the depth that can occur reaches that block.   *)
LEMMA TakenJobs ==
  ASSUME ShallowForks, PathInv, TablesInv, ProcessBlock
  PROVE  JobsInv'
<1>1. PICK r : r = Head(dsQueue)
  OBVIOUS
<1>2. /\ running /\ r \in Response /\ Num(r.id) \in Nat /\ Num(r.id) > 0 /\ r.lib \in Nat /\ r.head \in Nat
      /\ view' = r.id /\ currentBlock' = Num(r.id) /\ currentBlock \in Nat /\ r.id \in Block
      /\ db' = [open |-> TRUE, begun |-> Num(r.id) <= currentBlock \/ Num(r.id) > r.lib,
                block |-> IF Num(r.id) > r.lib THEN Num(r.id) ELSE 0,
                store |-> Prepared(store, r)]
      /\ store' = store
      /\ liveQueue' = liveQueue \cup Jobs(r.id)
  BY <1>1, TakenFacts, ProcessFacts, ImageOfView
<1>3. \A b \in liveQueue' : Num(b) \in Nat /\ 1 <= Num(b) /\ Num(b) <= Num(r.id)
  <2>1. \A b \in liveQueue' : b \in Image(r.id)
    BY <1>1, TakenImage
  <2>2. QED
    BY <1>2, <2>1, ImageFacts, Bounds
<1>4. \A m \in Nat : 1 <= m /\ m <= Num(r.id) /\ FixedBy(r, m) => Lasting(m)'
  BY <1>1, LastingTaken
<1>5. ~ db'.begun => db'.store = store'
  <2>0. ~ db'.begun => ~ (Num(r.id) <= currentBlock \/ Num(r.id) > r.lib)
    BY <1>2, Zenon
  <2>1. ~ db'.begun => Num(r.id) > currentBlock /\ Num(r.id) <= r.lib
    BY <1>2, <2>0
  <2>2. running /\ pc = "idle" /\ dsQueue # <<>>
    BY <1>1, TakenFacts
  <2>3. ~ db'.begun => Prepared(store, r) = store
    BY <1>1, <2>1, <2>2, PreparedFacts
  <2>4. QED
    BY <1>2, <2>3
<1>6. ASSUME db'.block = 0, NEW b \in liveQueue'
      PROVE  Lasting(Num(b))'
  <2>1. ~ (Num(r.id) > r.lib)
    BY <1>2, <1>6
  <2>2. FixedBy(r, Num(b))
    BY <1>2, <1>3, <2>1 DEF FixedBy
  <2>3. QED
    BY <1>3, <1>4, <2>2
<1>7. ASSUME db'.block # 0, NEW b \in liveQueue', b # view'
      PROVE  Lasting(Num(b))' /\ Lasting(Num(r.id))'
  <2>1. Num(r.id) > r.lib /\ b \in liveQueue
    BY <1>2, <1>7 DEF Jobs
  <2>2. GroupInv /\ collectedBlocks \in Nat
    BY <1>1, <1>2, ForkFacts DEF IdleInv, PathInv, StageInv
  <2>3. /\ collectedBlocks > 0 /\ Group > 1 /\ view # <<>>
        /\ ~ irreversibleOnly => \A j \in 1..Len(pipe) : pipe[j].head - currentBlock >= 2 * Group
    BY <2>1, <2>2 DEF GroupInv
  <2>4. Num(r.id) = currentBlock + 1
    BY <1>1, <1>2, <2>3, ForkFacts, TakenFacts
  <2>5. Sound(r) /\ 1 \in 1..Len(pipe) /\ pipe[1] = r
    BY <1>1, TakenFacts, HeadFacts
  <2>6. ~ irreversibleOnly
    BY <1>2, <2>1, <2>5 DEF Sound
  <2>7. r.head - currentBlock >= 2 * Group
    BY <2>3, <2>5, <2>6
  <2>8. Num(r.id) <= r.head - ForkDepth
    BY <1>2, <2>3, <2>4, <2>7, Bounds DEF ShallowForks
  <2>9. FixedBy(r, Num(b)) /\ FixedBy(r, Num(r.id))
    BY <1>2, <1>3, <1>7, <2>8, Bounds DEF FixedBy
  <2>10. QED
    BY <1>2, <1>3, <1>4, <1>7, <2>9
<1>8. QED
  BY <1>2, <1>5, <1>6, <1>7 DEF JobsInv

LEMMA TakenGroup ==
  ASSUME PathInv, TablesInv, ProcessBlock, pc' = "idle"
  PROVE  IdleInv' /\ notifications' = notifications
<1>1. PICK r : r = Head(dsQueue)
  OBVIOUS
<1>2. /\ running /\ r \in Response /\ Num(r.id) \in Nat /\ Num(r.id) > 0 /\ r.lib \in Nat /\ r.head \in Nat
      /\ view' = r.id /\ currentBlock' = Num(r.id) /\ currentBlock \in Nat /\ r.id \in Block
      /\ store' = store /\ lastIrreversibleBlock' = r.lib /\ collectedBlocks' = collectedBlocks + 1
      /\ collectedBlocks \in Nat
      /\ chain' = chain /\ irreversibleOnly' = irreversibleOnly
      /\ ~ (collectedBlocks + 1 >= CommitSize(NearHead(r), Num(r.id) <= currentBlock))
  <2>1. running /\ StageInv
    BY TakenFacts DEF PathInv
  <2>2. collectedBlocks \in Nat
    BY <2>1 DEF StageInv
  <2>3. r \in Response /\ Num(r.id) \in Nat /\ Num(r.id) > 0 /\ r.lib \in Nat /\ r.head \in Nat /\ r.id \in Block
    BY <1>1, TakenFacts
  <2>4. currentBlock \in Nat
    BY <2>1, ImageOfView
  <2>5. /\ view' = r.id /\ currentBlock' = Num(r.id) /\ store' = store /\ lastIrreversibleBlock' = r.lib
        /\ collectedBlocks' = collectedBlocks + 1 /\ chain' = chain /\ irreversibleOnly' = irreversibleOnly
    BY <1>1, ProcessFacts DEF nodeVars
  <2>6. pc' = IF collectedBlocks + 1 >= CommitSize(NearHead(r), Num(r.id) <= currentBlock)
              THEN "execute" ELSE "idle"
    BY <1>1, ProcessFacts
  <2>7. ~ (collectedBlocks + 1 >= CommitSize(NearHead(r), Num(r.id) <= currentBlock))
    BY <2>6
  <2>8. QED
    BY <2>1, <2>2, <2>3, <2>4, <2>5, <2>7
<1>3. ~ NearHead(r) /\ Num(r.id) > currentBlock /\ Group > 1
  <2>1. Group \in Nat
    BY Bounds
  <2>0. NearHead(r) \/ Num(r.id) <= currentBlock => CommitSize(NearHead(r), Num(r.id) <= currentBlock) = 1
    BY Zenon DEF CommitSize
  <2>2. ~ NearHead(r) /\ ~ (Num(r.id) <= currentBlock)
    BY <1>2, <2>0
  <2>3. CommitSize(NearHead(r), Num(r.id) <= currentBlock) = Group
    BY <2>2 DEF CommitSize
  <2>4. QED
    BY <1>2, <2>1, <2>2, <2>3
<1>4. notifications' = notifications
  <2>1. notifications' = IF Num(r.id) <= currentBlock
                         THEN Append(notifications, [fork |-> Num(r.id), blocks |-> {}])
                         ELSE notifications
    BY <1>1, ProcessFacts
  <2>2. ~ (Num(r.id) <= currentBlock)
    BY <1>2, <1>3
  <2>3. QED
    BY <2>1, <2>2
<1>5. store.effects \subseteq Image(r.id) /\ liveQueue' = Image(r.id) \ store.effects
  <2>1. Prepared(store, r).effects = store.effects
    BY <1>1, <1>3, PreparedTables
  <2>2. QED
    BY <1>1, <2>1, TakenImage
<1>6. GroupInv'
  <2>1. /\ Num(r.id) <= r.lib
        /\ ~ irreversibleOnly => r.head - Num(r.id) >= 2 * Group
    BY <1>2, <1>3, Bounds DEF NearHead
  <2>2. /\ r.id # <<>> /\ Sound(r) /\ 1 \in 1..Len(pipe) /\ pipe[1] = r
    BY <1>1, TakenFacts, HeadFacts
  <2>3. r.head <= Len(chain) /\ Len(chain) \in Nat
    BY <2>2 DEF Sound, PathInv, ChainInv
  <2>4. ASSUME NEW j \in 1..Len(pipe')
        PROVE  pipe'[j].head >= r.head
    <3>1. Len(pipe') = Len(pipe) - 1 /\ pipe'[j] = pipe[j + 1] /\ Len(pipe) \in Nat /\ j \in Nat /\ j >= 1
      BY PipeTail, PipeFacts, TakenFacts
    <3>2. j + 1 \in 1..Len(pipe) /\ 1 < j + 1
      BY <2>4, <3>1
    <3>3. pipe[1].head <= pipe[j + 1].head
      BY <1>2, <2>2, <3>2 DEF PathInv, PipeInv
    <3>4. QED
      BY <2>2, <3>1, <3>3
  <2>5. ASSUME ~ irreversibleOnly, NEW j \in 1..Len(pipe')
        PROVE  pipe'[j].head - Num(r.id) >= 2 * Group
    <3>1. pipe'[j].head \in Nat
      <4>1. Len(pipe') = Len(pipe) - 1 /\ pipe'[j] = pipe[j + 1] /\ Len(pipe) \in Nat /\ j \in Nat /\ j >= 1
        BY PipeTail, PipeFacts, TakenFacts
      <4>2. j + 1 \in 1..Len(pipe)
        BY <2>5, <4>1
      <4>3. pipe[j + 1] \in Response
        BY <4>2, PipeFacts, TakenFacts
      <4>4. QED
        BY <4>1, <4>3 DEF Response
    <3>2. QED
      BY <1>2, <2>1, <2>4, <2>5, <3>1, Bounds, SMTT(60)
  <2>6. ~ irreversibleOnly => Len(chain) - Num(r.id) >= 2 * Group
    BY <1>2, <2>1, <2>3, Bounds
  <2>7. QED
    BY <1>2, <1>3, <2>1, <2>2, <2>5, <2>6 DEF GroupInv
<1>7. Image(view)' = Image(r.id)
  BY <1>2 DEF Image
<1>8. QED
  BY <1>2, <1>4, <1>5, <1>6, <1>7 DEF IdleInv

(* What subscribers know after no message, after a fork, and after a block. *)
LEMMA ToldMembers ==
  ASSUME NEW known, NEW ms, NEW b
  PROVE  b \in Told(known, ms) <=>
           \/ b \in known /\ \A i \in DOMAIN ms : ms[i].fork # 0 => Num(b) < ms[i].fork
           \/ \E j \in DOMAIN ms : b \in ms[j].blocks /\ \A i \in (j + 1)..Len(ms) : ms[i].fork # 0 => Num(b) < ms[i].fork
BY DEF Told

LEMMA ToldNothing ==
  ASSUME NEW known
  PROVE  Told(known, <<>>) = known
<1>1. DOMAIN <<>> = {}
  OBVIOUS
<1>2. QED
  BY <1>1, Zenon DEF Told

LEMMA ToldFork ==
  ASSUME NEW known, NEW n \in Nat, n > 0
  PROVE  Told(known, Append(<<>>, [fork |-> n, blocks |-> {}])) = {b \in known : Num(b) < n}
<1>1. PICK ms : ms = Append(<<>>, [fork |-> n, blocks |-> {}])
  OBVIOUS
<1>2. DOMAIN ms = {1} /\ ms[1].fork = n /\ ms[1].blocks = {}
  BY <1>1
<1>3. \A b : (\A i \in DOMAIN ms : ms[i].fork # 0 => Num(b) < ms[i].fork) <=> Num(b) < n
  BY <1>2
<1>4. Told(known, ms) = {b \in known : \A i \in DOMAIN ms : ms[i].fork # 0 => Num(b) < ms[i].fork}
  BY <1>2, Zenon DEF Told
<1>5. QED
  BY <1>1, <1>3, <1>4

LEMMA ToldBlocks ==
  ASSUME NEW known, NEW ms \in Seq(Message), NEW B
  PROVE  Told(known, Append(ms, [fork |-> 0, blocks |-> B])) = Told(known, ms) \cup B
<1>1. PICK m : m = [fork |-> 0, blocks |-> B]
  OBVIOUS
<1>2. PICK ns : ns = Append(ms, m)
  OBVIOUS
<1>3. /\ Len(ms) \in Nat /\ Len(ns) = Len(ms) + 1 /\ DOMAIN ns = 1..Len(ns) /\ DOMAIN ms = 1..Len(ms)
      /\ \A i \in 1..Len(ms) : ns[i] = ms[i]
      /\ ns[Len(ms) + 1] = m
  BY <1>2
<1>4. m.fork = 0 /\ m.blocks = B
  BY <1>1
<1>5. ASSUME NEW b, NEW j \in Nat, j >= 1
      PROVE  (\A i \in j..Len(ns) : ns[i].fork # 0 => Num(b) < ns[i].fork)
             <=> (\A i \in j..Len(ms) : ms[i].fork # 0 => Num(b) < ms[i].fork)
  <2>1. \A i \in j..Len(ns) : i = Len(ms) + 1 \/ i \in j..Len(ms)
    BY <1>3, <1>5
  <2>2. \A i \in j..Len(ms) : i \in j..Len(ns) /\ i \in 1..Len(ms)
    BY <1>3, <1>5
  <2>3. QED
    BY <1>3, <1>4, <2>1, <2>2
<1>6. QED
  <2>1. \A b : b \in Told(known, ns) <=>
          \/ b \in known /\ \A i \in 1..Len(ns) : ns[i].fork # 0 => Num(b) < ns[i].fork
          \/ \E j \in 1..Len(ns) : b \in ns[j].blocks /\ \A i \in (j + 1)..Len(ns) : ns[i].fork # 0 => Num(b) < ns[i].fork
    BY <1>3, ToldMembers
  <2>2. \A b : b \in Told(known, ms) <=>
          \/ b \in known /\ \A i \in 1..Len(ms) : ms[i].fork # 0 => Num(b) < ms[i].fork
          \/ \E j \in 1..Len(ms) : b \in ms[j].blocks /\ \A i \in (j + 1)..Len(ms) : ms[i].fork # 0 => Num(b) < ms[i].fork
    BY <1>3, ToldMembers
  <2>3. \A j \in 1..Len(ms) : j + 1 \in Nat /\ j + 1 >= 1 /\ j \in 1..Len(ns)
    BY <1>3
  <2>4. \A j \in 1..Len(ns) : j = Len(ms) + 1 \/ j \in 1..Len(ms)
    BY <1>3
  <2>5. (Len(ms) + 1) + 1 \in Nat /\ Len(ms) + 1 \in 1..Len(ns) /\ \A i \in ((Len(ms) + 1) + 1)..Len(ns) : FALSE
    BY <1>3
  <2>6. ASSUME NEW b
        PROVE  b \in Told(known, ns) <=> b \in Told(known, ms) \/ b \in B
    <3>1. 1 \in Nat /\ 1 >= 1
      OBVIOUS
    <3>2. (\A i \in 1..Len(ns) : ns[i].fork # 0 => Num(b) < ns[i].fork)
             <=> (\A i \in 1..Len(ms) : ms[i].fork # 0 => Num(b) < ms[i].fork)
      BY <1>5, <3>1
    <3>3. \A j \in 1..Len(ms) :
            (\A i \in (j + 1)..Len(ns) : ns[i].fork # 0 => Num(b) < ns[i].fork)
             <=> (\A i \in (j + 1)..Len(ms) : ms[i].fork # 0 => Num(b) < ms[i].fork)
      BY <1>5, <2>3
    <3>4. (\E j \in 1..Len(ns) : b \in ns[j].blocks /\ \A i \in (j + 1)..Len(ns) : ns[i].fork # 0 => Num(b) < ns[i].fork)
          <=> \/ b \in B
              \/ \E j \in 1..Len(ms) : b \in ms[j].blocks /\ \A i \in (j + 1)..Len(ms) : ms[i].fork # 0 => Num(b) < ms[i].fork
      BY <1>3, <1>4, <2>3, <2>4, <2>5, <3>3
    <3>5. QED
      BY <2>1, <2>2, <3>2, <3>4
  <2>7. QED
    BY <1>1, <1>2, <2>6

LEMMA ProcessTables ==
  ASSUME ShallowForks, PathInv, TablesInv, ProcessBlock
  PROVE  TablesInv'
<1>1. PICK r : r = Head(dsQueue)
  OBVIOUS
<1>2. /\ running /\ running' = running /\ view' = r.id /\ store' = store /\ UNCHANGED nodeVars
      /\ announced' = announced /\ lost' = lost /\ pc = "idle"
      /\ pc' \in {"execute", "idle"} /\ db'.store = Prepared(store, r)
      /\ Num(r.id) \in Nat /\ currentBlock \in Nat /\ Num(r.id) > 0
  <2>1. db' = [open |-> TRUE, begun |-> Num(r.id) <= currentBlock \/ Num(r.id) > r.lib,
               block |-> IF Num(r.id) > r.lib THEN Num(r.id) ELSE 0,
               store |-> Prepared(store, r)]
    BY <1>1, ProcessFacts
  <2>2. db'.store = Prepared(store, r)
    BY <2>1
  <2>3. pc' \in {"execute", "idle"}
    <3>1. pc' = IF collectedBlocks + 1 >= CommitSize(NearHead(r), Num(r.id) <= currentBlock)
                THEN "execute" ELSE "idle"
      BY <1>1, ProcessFacts
    <3>2. QED
      BY <3>1
  <2>4. running /\ pc = "idle" /\ Num(r.id) \in Nat /\ Num(r.id) > 0
    BY <1>1, TakenFacts
  <2>5. running' = running /\ view' = r.id /\ store' = store /\ UNCHANGED nodeVars /\ announced' = announced /\ lost' = lost
    BY <1>1, ProcessFacts
  <2>6. currentBlock \in Nat
    BY <2>4, ImageOfView
  <2>7. QED
    BY <2>2, <2>3, <2>4, <2>5, <2>6
<1>3. StoredInv'
  <2>1. \A m \in Nat : Lasting(m) => Lasting(m)'
    BY <1>1, LastingTaken
  <2>2. QED
    BY <1>1, <1>2, <2>1, SameChainGrown, StoredInvKept, ForkFacts
<1>4. \A b : OnChain(b)' = OnChain(b)
  BY <1>2 DEF OnChain, nodeVars
<1>5. Image(view)' = Image(r.id)
  BY <1>2 DEF Image
<1>6. pc' = "execute" => OpenInv'
  <2>1. ASSUME state' # "HEAD"
        PROVE  store.effects \subseteq Prepared(store, r).effects
    <3>1. state # "HEAD"
      <4>1. state' = IF NearHead(r) THEN "HEAD" ELSE state
        BY <1>1, ProcessFacts
      <4>2. QED
        BY <2>1, <4>1
    <3>2. currentBlock < Num(r.id)
      BY <1>1, <3>1, ForkFacts
    <3>3. QED
      BY <1>1, <1>2, <3>2, PreparedTables
  <2>2. Undoable(db.store)'
    BY <1>1, TakenUndoable
  <2>3. liveQueue' \cap db'.store.effects = {} /\ liveQueue' \cup db'.store.effects = Image(view)'
    BY <1>1, <1>2, <1>5, TakenImage
  <2>4. QED
    BY <1>2, <2>1, <2>2, <2>3 DEF OpenInv
<1>7. TableInv'
  <2>1. \A b \in store'.effects : OnChain(b)' => b \in Image(view)'
    BY <1>1, <1>2, <1>4, <1>5, TakenImage
  <2>2. pc' = "idle" => IdleInv'
    BY TakenGroup
  <2>3. pc' = "execute" => JobsInv'
    BY TakenJobs
  <2>4. QED
    BY <1>2, <1>6, <2>1, <2>2, <2>3 DEF TableInv
<1>8. ~ lost => AnnouncedInv'
  <2> SUFFICES ASSUME ~ lost
               PROVE  AnnouncedInv'
    OBVIOUS
  <2>1. announced \subseteq store.effects /\ notifications = <<>>
    BY <1>2 DEF TablesInv, AnnouncedInv
  <2>2. pc' = "idle" => notifications' = <<>>
    BY <2>1, TakenGroup
  <2>3. Told(announced, notifications') \subseteq Prepared(store, r).effects
    <3>1. Prepared(store, r).effects = {b \in store.effects : Num(b) < Num(r.id)}
      BY <1>1, PreparedTables
    <3>2. notifications' = IF Num(r.id) <= currentBlock
                           THEN Append(notifications, [fork |-> Num(r.id), blocks |-> {}])
                           ELSE notifications
      BY <1>1, ProcessFacts
    <3>3. CASE Num(r.id) <= currentBlock
      <4>1. notifications' = Append(<<>>, [fork |-> Num(r.id), blocks |-> {}])
        BY <2>1, <3>2, <3>3
      <4>2. Told(announced, notifications') = {b \in announced : Num(b) < Num(r.id)}
        BY <1>2, <4>1, ToldFork
      <4>3. QED
        BY <2>1, <3>1, <4>2
    <3>4. CASE ~ (Num(r.id) <= currentBlock)
      <4>1. notifications' = <<>>
        BY <2>1, <3>2, <3>4
      <4>2. Told(announced, notifications') = announced
        BY <4>1, ToldNothing
      <4>3. Prepared(store, r).effects = store.effects
        BY <1>1, <1>2, <3>4, PreparedTables
      <4>4. QED
        BY <2>1, <4>2, <4>3
    <3>5. QED
      BY <3>3, <3>4
  <2>4. Told(announced, notifications)' = Told(announced, notifications')
    BY <1>2 DEF Told
  <2>5. QED
    BY <1>2, <2>1, <2>2, <2>3, <2>4 DEF AnnouncedInv
<1>9. QED
  BY <1>2, <1>3, <1>7, <1>8 DEF TablesInv

(* The chain and the view stay the same. *)
LEMMA SameView ==
  ASSUME UNCHANGED <<nodeVars, cursor, wire, dsQueue, view>>
  PROVE  /\ \A n : Lasting(n)' = Lasting(n) /\ Fixed(n)' = Fixed(n)
         /\ \A b : OnChain(b)' = OnChain(b)
         /\ Image(view)' = Image(view)
<1>1. \A b : OnChain(b)' = OnChain(b)
  BY SameChain
<1>2. \A n : Settled(n, 1)' = Settled(n, 1)
  BY SameChain
<1>3. \A n : Lasting(n)' = Lasting(n)
  BY <1>1, <1>2 DEF Lasting
<1>4. \A n : Fixed(n)' = Fixed(n)
  BY DEF Fixed, nodeVars
<1>5. Image(view)' = Image(view)
  BY DEF Image
<1>6. QED
  BY <1>1, <1>3, <1>4, <1>5

LEMMA ExecuteTables ==
  ASSUME PathInv, TablesInv, Execute
  PROVE  TablesInv'
<1>1. /\ running /\ pc = "execute" /\ pc' = "commit" /\ liveQueue' = {}
      /\ running' = running /\ store' = store /\ announced' = announced /\ lost' = lost /\ state' = state
      /\ UNCHANGED <<nodeVars, cursor, wire, dsQueue, view>> /\ UNCHANGED nodeVars
      /\ currentBlock' = currentBlock
  BY ExecuteFacts
<1>2. /\ TableInv /\ OpenInv /\ JobsInv /\ StoredInv /\ TxInv /\ StageInv
      /\ view \in Block /\ currentBlock \in Nat /\ Num(view) = currentBlock
      /\ store \in Store /\ db.store \in Store /\ db.block \in {0, currentBlock}
  <2>1. TableInv /\ OpenInv /\ JobsInv /\ StoredInv
    BY <1>1 DEF TablesInv, TableInv
  <2>2. TxInv /\ StageInv
    BY <1>1 DEF PathInv, StageInv
  <2>3. view \in Block /\ currentBlock \in Nat /\ Num(view) = currentBlock
    BY <1>1, <2>2, ImageOfView DEF TxInv
  <2>4. QED
    BY <2>1, <2>2, <2>3, StoredFacts DEF TxInv, Transactions
<1>3. /\ db'.store.effects = db.store.effects \cup liveQueue
      /\ db'.store.undo = db.store.undo \cup
           (IF db.block = 0 THEN {} ELSE {<<db.block, b>> : b \in liveQueue})
      /\ notifications' = Append(notifications, [fork |-> 0, blocks |-> liveQueue])
      /\ \/ db'.store.position = currentBlock
         \/ /\ ~ PositionUpdated(db.begun \/ liveQueue # {})
            /\ db'.store.position = db.store.position
  BY ExecuteFacts
<1>4. /\ \A n : Lasting(n)' = Lasting(n)
      /\ \A b : OnChain(b)' = OnChain(b)
      /\ Image(view)' = Image(view)
  BY <1>1, SameView
<1>5. StoredInv'
  BY <1>1, <1>2, <1>4, SameChainGrown, StoredInvKept
<1>6. Undoable(db.store)'
  <2>1. ASSUME NEW b \in db'.store.effects
        PROVE  <<Num(b), b>> \in db'.store.undo \/ Lasting(Num(b))
    <3>1. CASE b \in db.store.effects
      BY <1>2, <1>3, <3>1 DEF OpenInv, Undoable
    <3>2. CASE b \in liveQueue
      <4>1. CASE db.block = 0
        BY <1>2, <3>2, <4>1 DEF JobsInv
      <4>2. CASE db.block # 0 /\ b # view
        BY <1>2, <3>2, <4>2 DEF JobsInv
      <4>3. CASE db.block # 0 /\ b = view
        <5>1. <<db.block, b>> \in db'.store.undo /\ db.block = Num(b)
          BY <1>2, <1>3, <3>2, <4>3
        <5>2. QED
          BY <5>1
      <4>4. QED
        BY <4>1, <4>2, <4>3
    <3>3. QED
      BY <1>3, <3>1, <3>2
  <2>2. ASSUME NEW u \in db'.store.undo
        PROVE  u[1] = Num(u[2]) \/ Lasting(u[1])
    <3>1. CASE u \in db.store.undo
      BY <1>2, <3>1 DEF OpenInv, Undoable
    <3>2. CASE u \notin db.store.undo
      <4>1. db.block # 0 /\ u \in {<<db.block, b>> : b \in liveQueue}
        BY <1>3, <3>2
      <4>2. PICK b \in liveQueue : u = <<db.block, b>>
        BY <4>1
      <4>3. b = view \/ Lasting(currentBlock)
        BY <1>2, <4>1 DEF JobsInv
      <4>4. u[1] = currentBlock /\ u[2] = b
        BY <1>2, <4>1, <4>2
      <4>5. QED
        BY <1>2, <4>3, <4>4
    <3>3. QED
      BY <3>1, <3>2
  <2>3. QED
    BY <1>4, <2>1, <2>2 DEF Undoable
<1>7. OpenInv'
  BY <1>1, <1>2, <1>3, <1>4, <1>6 DEF OpenInv
<1>8. \A b \in db'.store.effects : Num(b) <= db'.store.position
  <2>1. CASE db'.store.position = currentBlock
    <3>1. \A b \in Image(view) : Num(b) <= currentBlock
      BY <1>1, <1>2, ImageOfView
    <3>2. QED
      BY <1>2, <1>3, <2>1, <3>1 DEF OpenInv
  <2>2. CASE ~ PositionUpdated(db.begun \/ liveQueue # {}) /\ db'.store.position = db.store.position
    <3>1. ~ db.begun /\ liveQueue = {}
      BY <2>2, Zenon DEF PositionUpdated
    <3>2. db.store = store /\ db'.store.effects = store.effects /\ db'.store.position = store.position
      BY <1>2, <1>3, <2>2, <3>1 DEF JobsInv
    <3>3. QED
      BY <1>2, <3>2 DEF StoredInv
  <2>3. QED
    BY <1>3, <2>1, <2>2
<1>9. TableInv'
  BY <1>1, <1>2, <1>4, <1>7, <1>8 DEF TableInv
<1>10. ~ lost => AnnouncedInv'
  <2> SUFFICES ASSUME ~ lost
               PROVE  AnnouncedInv'
    OBVIOUS
  <2>1. announced \subseteq store.effects /\ Told(announced, notifications) \subseteq db.store.effects
    BY <1>1 DEF TablesInv, AnnouncedInv
  <2>2. Told(announced, notifications') = Told(announced, notifications) \cup liveQueue
    BY <1>2, <1>3, ToldBlocks DEF StageInv
  <2>3. Told(announced, notifications)' = Told(announced, notifications')
    BY <1>1 DEF Told
  <2>4. QED
    BY <1>1, <1>3, <2>1, <2>2, <2>3 DEF AnnouncedInv
<1>11. QED
  BY <1>1, <1>5, <1>9, <1>10 DEF TablesInv

LEMMA CommitTables ==
  ASSUME PathInv, TablesInv, Commit
  PROVE  TablesInv'
<1>1. /\ running /\ pc = "commit"
      /\ collectedBlocks' = 0 /\ pc' = "publish" /\ running' = running
      /\ announced' = announced /\ lost' = lost /\ state' = state /\ liveQueue' = liveQueue
      /\ notifications' = notifications /\ currentBlock' = currentBlock
      /\ UNCHANGED <<nodeVars, cursor, wire, dsQueue, view>>
  BY DEF Commit
<1>2. /\ TableInv /\ OpenInv /\ TxInv /\ CommitInv
      /\ view \in Block /\ currentBlock \in Nat /\ Num(view) = currentBlock
      /\ db.store \in Store
      /\ actionLogs \subseteq Block
      /\ \A b \in db.store.effects : Num(b) <= db.store.position
  <2>1. TableInv /\ OpenInv /\ \A b \in db.store.effects : Num(b) <= db.store.position
    BY <1>1 DEF TablesInv, TableInv
  <2>2. TxInv /\ CommitInv /\ actionLogs \subseteq Block
    BY <1>1 DEF PathInv, StageInv
  <2>3. view \in Block /\ currentBlock \in Nat /\ Num(view) = currentBlock
    BY <1>1, <2>2, ImageOfView DEF TxInv
  <2>4. QED
    BY <2>1, <2>2, <2>3 DEF TxInv, Transactions
<1>3. /\ store'.tip = view /\ store'.effects = db.store.effects
      /\ store'.undo = db.store.undo /\ store'.position = db.store.position
  BY <1>2, CommittedFields
<1>4. /\ \A n : Lasting(n)' = Lasting(n) /\ Fixed(n)' = Fixed(n)
      /\ \A b : OnChain(b)' = OnChain(b)
      /\ Image(view)' = Image(view)
  BY <1>1, SameView
<1>5. liveQueue = {} /\ store'.effects = Image(view)
  BY <1>2, <1>3 DEF CommitInv, OpenInv
<1>6. ASSUME NEW n, Lasting(n), n <= db.store.position
      PROVE  StoredLasting(n)'
  <2>1. Fixed(n) /\ OnChain(Ancestor(view, n))
    BY <1>6 DEF Lasting, Settled
  <2>2. OnChain(Ancestor(store.tip, n))'
    BY <1>3, <1>4, <2>1
  <2>3. QED
    BY <1>3, <1>4, <1>6, <2>1, <2>2 DEF StoredLasting
<1>7. StoredInv'
  <2>1. Image(store.tip)' = Image(view)
    BY <1>3 DEF Image
  <2>2. ASSUME NEW b \in store'.effects
        PROVE  Num(b) <= store'.position /\ (<<Num(b), b>> \in store'.undo \/ StoredLasting(Num(b))')
    BY <1>2, <1>3, <1>6, <2>2 DEF OpenInv, Undoable
  <2>3. ASSUME NEW u \in store'.undo
        PROVE  u[1] = Num(u[2]) \/ StoredLasting(u[1])'
    <3>1. u[1] = Num(u[2]) \/ Lasting(u[1])
      BY <1>2, <1>3, <2>3 DEF OpenInv, Undoable
    <3>2. db.store.position = currentBlock
      BY <1>2, <1>3, <2>3 DEF CommitInv, NoUndo
    <3>3. Lasting(u[1]) => u[1] <= db.store.position
      BY <1>2, <3>2 DEF Lasting
    <3>4. QED
      BY <1>6, <3>1, <3>3
  <2>4. QED
    BY <1>5, <2>1, <2>2, <2>3 DEF StoredInv
<1>8. TableInv'
  <2>1. IdleInv'
    BY <1>1, <1>4, <1>5 DEF IdleInv, GroupInv
  <2>2. QED
    BY <1>1, <1>4, <1>5, <2>1 DEF TableInv
<1>9. ~ lost => AnnouncedInv'
  <2> SUFFICES ASSUME ~ lost
               PROVE  AnnouncedInv'
    OBVIOUS
  <2>1. announced \subseteq store.effects /\ Told(announced, notifications) \subseteq db.store.effects
    BY <1>1 DEF TablesInv, AnnouncedInv
  <2>2. Told(announced, notifications)' = Told(announced, notifications)
    BY <1>1 DEF Told
  <2>3. state # "HEAD" => announced \subseteq store'.effects
    BY <1>2, <1>3, <2>1 DEF OpenInv
  <2>4. QED
    BY <1>1, <1>3, <2>1, <2>2, <2>3 DEF AnnouncedInv
<1>10. QED
  BY <1>1, <1>7, <1>8, <1>9 DEF TablesInv

LEMMA PublishTables ==
  ASSUME PathInv, TablesInv, Publish \/ PublishFails
  PROVE  TablesInv'
<1>1. /\ running /\ pc = "publish" /\ notifications' = <<>> /\ pc' = "idle"
      /\ running' = running /\ store' = store /\ collectedBlocks' = collectedBlocks
      /\ liveQueue' = liveQueue /\ currentBlock' = currentBlock
      /\ UNCHANGED <<nodeVars, cursor, wire, dsQueue, view>> /\ UNCHANGED nodeVars
  BY DEF Publish, PublishFails, Published
<1>2. TableInv /\ StoredInv /\ IdleInv /\ collectedBlocks = 0
  BY <1>1 DEF TablesInv, TableInv
<1>3. /\ \A n : Lasting(n)' = Lasting(n)
      /\ \A b : OnChain(b)' = OnChain(b)
      /\ Image(view)' = Image(view)
  BY <1>1, SameView
<1>4. StoredInv'
  BY <1>1, <1>2, <1>3, SameChainGrown, StoredInvKept
<1>5. TableInv'
  <2>1. IdleInv'
    BY <1>1, <1>2, <1>3 DEF IdleInv, GroupInv
  <2>2. QED
    BY <1>1, <1>2, <1>3, <2>1 DEF TableInv
<1>6. ~ lost' => AnnouncedInv'
  <2> SUFFICES ASSUME ~ lost'
               PROVE  AnnouncedInv'
    OBVIOUS
  <2>1. Publish /\ ~ lost
    <3>1. PublishFails => lost'
      BY Zenon DEF PublishFails
    <3>2. Publish => lost' = lost
      BY DEF Publish
    <3>3. QED
      BY <3>1, <3>2
  <2>2. announced' = IF state = "HEAD" THEN Told(announced, notifications) ELSE announced
    BY <2>1 DEF Publish, Published
  <2>3. /\ Told(announced, notifications) \subseteq store.effects
        /\ state # "HEAD" => announced \subseteq store.effects
    BY <1>1, <2>1 DEF TablesInv, AnnouncedInv
  <2>4. announced' \subseteq store.effects
    BY <2>2, <2>3
  <2>5. QED
    BY <1>1, <2>4 DEF AnnouncedInv
<1>7. QED
  BY <1>1, <1>4, <1>5, <1>6 DEF TablesInv

-----------------------------------------------------------------------------
(* Stops and starts *)

LEMMA StopTables ==
  ASSUME PathInv, TablesInv, Stop
  PROVE  TablesInv'
<1>1. /\ running /\ running' = FALSE /\ store' = store /\ UNCHANGED nodeVars
      /\ announced' = announced /\ lost' = (lost \/ pc = "publish")
  BY DEF Stop
<1>2. StoredInv /\ Grown /\ (\A u \in store.undo : u[1] \in Nat) /\ (\A b \in store.effects : Num(b) \in Nat)
  BY <1>1, SameChainGrown, StoredFacts, UndoneNumbers DEF TablesInv
<1>3. ASSUME NEW n, StoredLasting(n)
      PROVE  StoredLasting(n)'
  BY <1>1, <1>3 DEF StoredLasting, Fixed, OnChain, nodeVars
<1>4. StoredInv'
  <2>1. Image(store.tip)' = Image(store.tip)
    BY <1>1 DEF Image
  <2>2. QED
    BY <1>1, <1>2, <1>3, <2>1 DEF StoredInv
<1>5. ~ lost' => announced \subseteq store.effects
  <2>1. pc \in {"idle", "execute", "commit", "publish"}
    BY <1>1 DEF PathInv, StageInv
  <2>2. QED
    BY <1>1, <2>1 DEF TablesInv, AnnouncedInv
<1>6. ~ lost' => AnnouncedInv'
  BY <1>1, <1>5 DEF AnnouncedInv
<1>7. QED
  BY <1>1, <1>4, <1>6 DEF TablesInv

LEMMA StartTables ==
  ASSUME PathInv, TablesInv, Start
  PROVE  TablesInv'
<1>1. /\ ~ running /\ running' = TRUE /\ chain' = chain /\ lib' = lib /\ store' = store
      /\ view' = Ancestor(store.tip, store.position)
      /\ wire' = <<>> /\ dsQueue' = <<>> /\ pc' = "idle" /\ collectedBlocks' = 0 /\ liveQueue' = {} /\ actionLogs' = {}
      /\ notifications' = <<>> /\ announced' = announced /\ lost' = lost
  BY DEF Start, StartAt, PathInv, Stopped, nodeVars, Ancestor
<1>2. /\ ChainInv /\ StoredInv /\ store.tip \in Block /\ Known(store.tip)
      /\ store.position \in 0..Num(store.tip) /\ store.position \in Nat
      /\ view' \in Block /\ Num(view') = store.position
  <2>1. /\ ChainInv /\ StoredInv /\ store.tip \in Block /\ Known(store.tip)
        /\ store.position \in 0..Num(store.tip) /\ store.position \in Nat
    BY StoredFacts DEF PathInv, TablesInv
  <2>2. Known(Ancestor(store.tip, store.position)) /\ Num(Ancestor(store.tip, store.position)) = store.position
    BY <2>1, KnownAncestor
  <2>3. QED
    BY <1>1, <2>1, <2>2, KnownFacts
<1>3. /\ cursor' \in Nat /\ StartBlock <= cursor' /\ currentBlock' \in Nat
      /\ view' # <<>> => currentBlock' = store.position
      /\ cursor' <= currentBlock' => ~ OnChain(Ancestor(view', cursor'))
      /\ Sending' = 1 /\ Len(pipe') = 0
  <2>1. PipeInv' /\ ViewInv'
    BY <1>1, StartStep DEF PathInv
  <2>2. pipe' = <<>> /\ Len(pipe') = 0 /\ Sending' = 1
    BY <1>1, EmptySeq DEF pipe, Sending
  <2>3. \A j \in 1..Sending' : Continues(PrevNum(j), Prev(j), Number(j), Branch(j))'
    BY <2>1 DEF PipeInv
  <2>4. Continues(PrevNum(1), Prev(1), Number(1), Branch(1))'
    BY <2>2, <2>3
  <2>5. \A b : OnChain(b)' = OnChain(b)
    BY <1>1 DEF OnChain
  <2>6. /\ StartBlock <= cursor' /\ (cursor' <= currentBlock' => ~ OnChain(Ancestor(view', cursor')))
    BY <2>2, <2>4, <2>5 DEF Continues, PrevNum, Prev, Number
  <2>7. cursor' \in Nat /\ currentBlock' \in Nat /\ (view' # <<>> => currentBlock' = store.position)
    BY <1>2, <2>1 DEF PipeInv, ViewInv
  <2>8. QED
    BY <2>2, <2>6, <2>7
<1>4. ASSUME NEW n \in Nat, StoredLasting(n)
      PROVE  StoredLasting(n)'
  <2>1. n <= store.position /\ Fixed(n) /\ OnChain(Ancestor(store.tip, n))
    BY <1>4 DEF StoredLasting
  <2>2. Ancestor(view', n) = Ancestor(store.tip, n)
    <3>1. store.tip \in Seq(Nat) /\ store.position \in 0..Len(store.tip) /\ n \in 0..store.position
      BY <1>2, <2>1 DEF Num, Block
    <3>2. QED
      BY <1>1, <3>1, Nested
  <2>3. n < cursor'
    <3>1. SUFFICES ASSUME cursor' <= n
                   PROVE  FALSE
      BY <1>3
    <3>2. n > 0 /\ store.position > 0 /\ view' # <<>>
      BY <1>2, <1>3, <2>1, <3>1, EmptySeq, Bounds DEF Num
    <3>3. cursor' <= currentBlock' /\ cursor' \in 0..n /\ n \in 0..Num(view')
      BY <1>2, <1>3, <2>1, <3>1, <3>2
    <3>4. Ancestor(view', n) \in Block /\ Num(Ancestor(view', n)) = n
      BY <1>2, <3>3, AncestorFacts DEF Block, Num
    <3>5. OnChain(Ancestor(Ancestor(view', n), cursor'))
      BY <1>2, <2>1, <2>2, <3>3, <3>4, OnChainAncestor
    <3>6. Ancestor(Ancestor(view', n), cursor') = Ancestor(view', cursor')
      BY <1>2, <3>3, Nested DEF Block, Num
    <3>7. QED
      BY <1>3, <3>3, <3>5, <3>6
  <2>4. Fixed(n)' /\ OnChain(Ancestor(view, n))' /\ OnChain(Ancestor(store.tip, n))'
    BY <1>1, <2>1, <2>2 DEF Fixed, OnChain
  <2>5. Settled(n, 1)'
    <3>1. \A k \in 1..Sending' : n < Number(k)'
      BY <1>3, <2>3 DEF Number
    <3>2. 1..Len(pipe') = {}
      BY <1>3
    <3>3. QED
      BY <2>4, <3>1, <3>2 DEF Settled
  <2>6. QED
    BY <1>1, <1>2, <2>1, <2>4, <2>5 DEF StoredLasting, Lasting
<1>5. StoredInv'
  <2>1. Image(store.tip)' = Image(store.tip)
    BY <1>1 DEF Image
  <2>2. (\A u \in store.undo : u[1] \in Nat) /\ (\A b \in store.effects : Num(b) \in Nat)
    BY <1>2, StoredFacts, UndoneNumbers
  <2>3. QED
    BY <1>1, <1>2, <1>4, <2>1, <2>2 DEF StoredInv
<1>6. Image(view)' = store.effects
  <2>1. Image(Ancestor(store.tip, store.position)) = {x \in Image(store.tip) : Num(x) <= store.position}
    BY <1>2, ImageOfAncestor
  <2>2. Image(view)' = Image(Ancestor(store.tip, store.position))
    BY <1>1 DEF Image
  <2>3. store.effects = Image(store.tip) /\ \A x \in store.effects : Num(x) <= store.position
    BY <1>2 DEF StoredInv
  <2>4. QED
    BY <2>1, <2>2, <2>3
<1>7. TableInv'
  <2>1. IdleInv'
    BY <1>1, <1>6 DEF IdleInv, GroupInv
  <2>2. QED
    BY <1>1, <1>6, <2>1 DEF TableInv
<1>8. ~ lost' => AnnouncedInv'
  <2>1. ~ lost => announced \subseteq store.effects
    BY <1>1 DEF TablesInv, AnnouncedInv
  <2>2. QED
    BY <1>1, <2>1 DEF AnnouncedInv
<1>9. QED
  BY <1>1, <1>5, <1>7, <1>8 DEF TablesInv

-----------------------------------------------------------------------------
(* Theorems *)

LEMMA InitTables == Init => TablesInv
<1> SUFFICES ASSUME Init
             PROVE  TablesInv
  OBVIOUS
<1>1. /\ running = FALSE /\ announced = {}
      /\ store = [effects |-> {}, undo |-> {}, traces |-> {}, repeated |-> {}, traceUndo |-> {},
                  blocks |-> {}, position |-> 0, live |-> FALSE, tip |-> <<>>]
  BY DEF Init
<1>2. <<>> \in Block /\ Num(<<>>) = 0
  BY EmptySeq DEF Block, Num
<1>3. \A x : x \notin Image(<<>>)
  BY <1>2, ImageFacts, Bounds
<1>4. StoredInv
  BY <1>1, <1>3 DEF StoredInv
<1>5. QED
  BY <1>1, <1>4 DEF TablesInv, AnnouncedInv

LEMMA TablesStep == ShallowForks /\ PathInv /\ TablesInv /\ [Next]_vars => TablesInv'
<1> SUFFICES ASSUME ShallowForks, PathInv, TablesInv, [Next]_vars
             PROVE  TablesInv'
  OBVIOUS
<1>1. CASE Produce \/ (\E k \in 1..Len(chain) - 1 : Fork(k)) \/ (\E l \in 1..Len(chain) : AdvanceLib(l))
  BY <1>1, ChainTables
<1>2. CASE Send \/ Reconnect \/ Consume
  BY <1>2, PipeTables
<1>3. CASE ProcessBlock
  BY <1>3, ProcessTables
<1>4. CASE Execute
  BY <1>4, ExecuteTables
<1>5. CASE Commit
  BY <1>5, CommitTables
<1>6. CASE Publish \/ PublishFails
  BY <1>6, PublishTables
<1>7. CASE Stop
  BY <1>7, StopTables
<1>8. CASE Start
  BY <1>8, StartTables
<1>9. CASE UNCHANGED vars
  <2>1. /\ UNCHANGED nodeVars /\ ReaderUnchanged /\ UNCHANGED <<nodeVars, cursor, wire, dsQueue, view>>
        /\ dsQueue' = dsQueue /\ wire' = wire
    BY <1>9 DEF vars, memoryVars, nodeVars, ReaderUnchanged
  <2>2. Grown
    BY <2>1, SameChainGrown
  <2>3. SettledKept
    BY <2>1, SameChain, Zenon DEF SettledKept
  <2>4. GroupInv' = GroupInv
    BY <2>1 DEF GroupInv, ReaderUnchanged, nodeVars, pipe
  <2>5. QED
    BY <2>1, <2>2, <2>3, <2>4, TablesKept
<1>10. QED
  BY <1>1, <1>2, <1>3, <1>4, <1>5, <1>6, <1>7, <1>8, <1>9 DEF Next, Reader

(* What the rollback queries in the database undo, what the jobs that wait *)
(* add, and what the tables contain always make the image of one branch:   *)
(* an effect is undone under its own block's number, or never.             *)
THEOREM TablesSafe ==
  ASSUME ShallowForks
  PROVE  Spec => [](PathInv /\ TablesInv)
<1>1. Init => PathInv /\ TablesInv
  BY InitPath, InitTables
<1>2. (PathInv /\ TablesInv) /\ [Next]_vars => (PathInv /\ TablesInv)'
  BY PathStep, TablesStep
<1>3. QED
  BY <1>1, <1>2, PTL DEF Spec

LEMMA IndexImage ==
  ASSUME NEW b
  PROVE  Index!Effects(b) = Image(b)
BY DEF Index!Effects, Image, Ancestor, Num

(* "Per block transactions guarantee that the database is consistent at    *)
(* any time": at every commit the tables hold the effects of one branch up *)
(* to one block, after any fork, lost connection, crash or restart, if no  *)
(* fork is as deep as the distance from the head that ends the grouping.   *)
THEOREM DatabaseIsConsistent ==
  ASSUME ShallowForks
  PROVE  Spec => []DatabaseConsistent
<1>1. TablesInv => DatabaseConsistent
  BY IndexImage DEF TablesInv, StoredInv, DatabaseConsistent
<1>2. QED
  BY <1>1, TablesSafe, PTL

(* The jobs of a block change tables that have the effects of all of its   *)
(* ancestors and of no other block, and not its own, whatever is logged.   *)
THEOREM EffectsAreAppliedOnce ==
  ASSUME ShallowForks
  PROVE  Spec => [](pc = "execute" =>
                      /\ liveQueue \cap db.store.effects = {}
                      /\ liveQueue \cup db.store.effects = Index!Effects(view))
<1>1. PathInv /\ TablesInv /\ pc = "execute" =>
        /\ liveQueue \cap db.store.effects = {}
        /\ liveQueue \cup db.store.effects = Index!Effects(view)
  <2> SUFFICES ASSUME PathInv, TablesInv, pc = "execute"
               PROVE  /\ liveQueue \cap db.store.effects = {}
                      /\ liveQueue \cup db.store.effects = Index!Effects(view)
    OBVIOUS
  <2>1. running
    BY DEF PathInv, Stopped
  <2>2. OpenInv
    BY <2>1 DEF TablesInv, TableInv
  <2>3. QED
    BY <2>2, IndexImage DEF OpenInv
<1>2. QED
  BY <1>1, TablesSafe, PTL

(* A new process repeats no block with an effect in the tables, whatever   *)
(* is logged: the position is at or above each of them.                    *)
THEOREM PositionIsAboveEffects ==
  ASSUME ShallowForks
  PROVE  Spec => [](\A b \in store.effects : Num(b) <= store.position)
<1>1. TablesInv => \A b \in store.effects : Num(b) <= store.position
  BY StoredFacts DEF TablesInv, StoredInv
<1>2. QED
  BY <1>1, TablesSafe, PTL

-----------------------------------------------------------------------------
(***************************************************************************)
(* The traces: if every block that logs traces writes a table, too, then   *)
(* contract_traces follows the tables.                                     *)
(***************************************************************************)

TracesWithRows == LogBlocks \subseteq JobBlocks

Logged(B) == {b \in B : Num(b) \in LogBlocks}
LoggedQueries(Q) == {u \in Q : Num(u[2]) \in LogBlocks}

(* The traces in s are those of the blocks with effects, each once, and    *)
(* are taken back with them.                                               *)
Follows(s) ==
  s.traces = Logged(s.effects) /\ s.traceUndo = LoggedQueries(s.undo) /\ s.repeated = {}

TraceInv ==
  /\ Follows(store)
  /\ pc # "commit" => actionLogs = Logged(liveQueue)
  /\ pc = "execute" => Follows(db.store)
  /\ pc = "commit" =>
       /\ actionLogs \cap db.store.traces = {} /\ db.store.repeated = {}
       /\ db.store.traces \cup actionLogs = Logged(db.store.effects)
       /\ db.store.traceUndo \cup (IF db.block = 0 THEN {} ELSE {<<db.block, b>> : b \in actionLogs})
            = LoggedQueries(db.store.undo)

LEMMA PreparedFollows ==
  ASSUME NEW s \in Store, NEW r \in Response, Num(r.id) \in Nat, Num(r.id) > 0, Follows(s)
  PROVE  Follows(Prepared(s, r))
<1> DEFINE n == Num(r.id)
           t == IF n <= currentBlock THEN Rollback(s, n) ELSE s
<1>1. t \in Store /\ Follows(t)
  <2>1. CASE n <= currentBlock
    <3>1. /\ t \in Store
          /\ t.effects = s.effects \ {u[2] : u \in {u \in s.undo : u[1] >= n}}
          /\ t.undo = s.undo \ {u \in s.undo : u[1] >= n}
          /\ t.traces = s.traces \ {u[2] : u \in {u \in s.traceUndo : u[1] >= n}}
          /\ t.repeated = s.repeated \ {u[2] : u \in {u \in s.traceUndo : u[1] >= n}}
          /\ t.traceUndo = s.traceUndo \ {u \in s.traceUndo : u[1] >= n}
      BY <2>1, RollbackFields
    <3> HIDE DEF t
    <3>2. t.traceUndo = LoggedQueries(t.undo) /\ t.repeated = {}
      BY <3>1 DEF Follows, LoggedQueries
    <3>3. ASSUME NEW b
          PROVE  b \in t.traces <=> b \in Logged(t.effects)
      <4>1. b \in {u[2] : u \in {u \in s.traceUndo : u[1] >= n}}
            <=> Num(b) \in LogBlocks /\ b \in {u[2] : u \in {u \in s.undo : u[1] >= n}}
        BY DEF Follows, LoggedQueries
      <4>2. QED
        BY <3>1, <4>1 DEF Follows, Logged
    <3>4. t.traces = Logged(t.effects)
      BY <3>3
    <3>5. QED
      BY <3>1, <3>2, <3>4 DEF Follows
  <2>2. QED
    BY <2>1
<1>2. Prepared(s, r) = IF n > r.lib THEN Register(t, r) ELSE t
  BY DEF Prepared
<1> HIDE DEF t
<1>3. CASE n > r.lib
  BY <1>1, <1>2, <1>3, RegisterFields DEF Follows, LoggedQueries
<1>4. QED
  BY <1>1, <1>2, <1>3

LEMMA ExecuteTraces ==
  ASSUME PathInv, TablesInv, TraceInv, Execute
  PROVE  TraceInv'
<1>1. /\ running /\ pc = "execute" /\ pc' = "commit" /\ store' = store /\ actionLogs' = actionLogs
      /\ db'.block = db.block
      /\ db'.store.effects = db.store.effects \cup liveQueue
      /\ db'.store.undo = db.store.undo \cup
           (IF db.block = 0 THEN {} ELSE {<<db.block, b>> : b \in liveQueue})
  BY ExecuteFacts
<1>2. db'.store.traces = db.store.traces /\ db'.store.repeated = db.store.repeated
      /\ db'.store.traceUndo = db.store.traceUndo
  <2>1. db.store \in Store /\ db \in Transactions /\ db.block \in Nat /\ liveQueue \in SUBSET Block
    BY <1>1 DEF PathInv, StageInv, TxInv, Transactions
  <2> DEFINE applied == Apply(db.store, db.block, liveQueue)
  <2>2. /\ applied \in Store /\ applied.traces = db.store.traces
        /\ applied.repeated = db.store.repeated /\ applied.traceUndo = db.store.traceUndo
    BY <2>1, ApplyFields
  <2> HIDE DEF applied
  <2>3. \/ db'.store = applied
        \/ db'.store = [applied EXCEPT !.position = currentBlock, !.live = (state = "HEAD")]
    BY <2>1 DEF Execute, applied, Transactions
  <2>4. QED
    BY <2>2, <2>3 DEF Store
<1>3. liveQueue \cap db.store.effects = {}
  BY <1>1 DEF TablesInv, TableInv, OpenInv
<1>4. actionLogs = Logged(liveQueue) /\ Follows(db.store) /\ Follows(store)
  BY <1>1 DEF TraceInv
<1>5. actionLogs \cap db'.store.traces = {} /\ db'.store.repeated = {}
      /\ db'.store.traces \cup actionLogs = Logged(db'.store.effects)
  BY <1>1, <1>2, <1>3, <1>4 DEF Follows, Logged
<1>6. db'.store.traceUndo \cup (IF db.block = 0 THEN {} ELSE {<<db.block, b>> : b \in actionLogs})
        = LoggedQueries(db'.store.undo)
  BY <1>1, <1>2, <1>4 DEF Follows, Logged, LoggedQueries
<1>7. Follows(store')
  BY <1>1, <1>4
<1>8. QED
  BY <1>1, <1>5, <1>6, <1>7 DEF TraceInv

LEMMA TraceStep ==
  ASSUME TracesWithRows, PathInv, TablesInv, TraceInv, [Next]_vars
  PROVE  TraceInv'
<1>1. CASE ProcessBlock
  <2>1. PICK r : r = Head(dsQueue)
    OBVIOUS
  <2>2. /\ running /\ pc = "idle" /\ store \in Store /\ dsQueue # <<>>
        /\ r \in Response /\ Num(r.id) \in Nat /\ Num(r.id) > 0
    <3>1. running /\ pc = "idle" /\ dsQueue # <<>> /\ store \in Store
      BY <1>1 DEF ProcessBlock, PathInv, StoreInv
    <3>2. r \in Response /\ Num(r.id) \in Nat /\ StartBlock <= Num(r.id)
      BY <2>1, <3>1, HeadFacts, Zenon
    <3>3. QED
      BY <3>1, <3>2, Bounds
  <2>3. /\ db'.store = Prepared(store, r) /\ store' = store /\ pc' \in {"idle", "execute"}
        /\ liveQueue' = liveQueue \cup Jobs(r.id) /\ actionLogs' = actionLogs \cup Logs(r.id)
    <3>1. db' = [open |-> TRUE, begun |-> Num(r.id) <= currentBlock \/ Num(r.id) > r.lib,
                 block |-> IF Num(r.id) > r.lib THEN Num(r.id) ELSE 0,
                 store |-> Prepared(store, r)]
      BY <1>1, <2>1, ProcessFacts, Zenon
    <3>2. pc' \in {"idle", "execute"} /\ store' = store
          /\ liveQueue' = liveQueue \cup Jobs(r.id) /\ actionLogs' = actionLogs \cup Logs(r.id)
      BY <1>1, <2>1 DEF ProcessBlock
    <3>3. QED
      BY <3>1, <3>2
  <2>4. Follows(db'.store) /\ Follows(store')
    BY <2>2, <2>3, PreparedFollows DEF TraceInv
  <2>5. actionLogs' = Logged(liveQueue')
    BY <2>2, <2>3 DEF TraceInv, Logged, Jobs, Logs, TracesWithRows
  <2>6. QED
    BY <2>3, <2>4, <2>5 DEF TraceInv
<1>2. CASE Execute
  BY <1>2, ExecuteTraces
<1>3. CASE Commit
  <2>1. /\ pc = "commit" /\ running /\ pc' = "publish" /\ actionLogs' = {} /\ liveQueue' = liveQueue
    BY <1>3 DEF Commit
  <2>2. TxInv /\ actionLogs \subseteq Block /\ liveQueue = {} /\ view \in Block
    BY <2>1, ImageOfView DEF PathInv, StageInv, CommitInv, TxInv
  <2>3. /\ store'.effects = db.store.effects /\ store'.undo = db.store.undo
        /\ store'.traces = db.store.traces \cup actionLogs
        /\ store'.repeated = db.store.repeated \cup (actionLogs \cap db.store.traces)
        /\ store'.traceUndo = db.store.traceUndo \cup
             (IF db.block = 0 THEN {} ELSE {<<db.block, b>> : b \in actionLogs})
    BY <1>3, <2>2, CommittedFields
  <2>4. Follows(store')
    BY <2>1, <2>3 DEF TraceInv, Follows
  <2>5. QED
    BY <2>1, <2>2, <2>4 DEF TraceInv, Logged
<1>4. CASE Publish \/ PublishFails
  <2>1. /\ pc = "publish" /\ pc' = "idle" /\ store' = store
        /\ actionLogs' = actionLogs /\ liveQueue' = liveQueue
    BY <1>4 DEF Publish, PublishFails, Published
  <2>2. QED
    BY <2>1 DEF TraceInv
<1>5. CASE Stop
  <2>1. pc' = "idle" /\ store' = store /\ actionLogs' = {} /\ liveQueue' = {}
    BY <1>5 DEF Stop
  <2>2. QED
    BY <2>1 DEF TraceInv, Logged
<1>6. CASE ~ (ProcessBlock \/ Execute \/ Commit \/ Publish \/ PublishFails \/ Stop)
  <2>1. /\ pc' = pc /\ store' = store /\ db' = db
        /\ actionLogs' = actionLogs /\ liveQueue' = liveQueue
    <3>1. CASE \E k \in 1..Len(chain) - 1 : Fork(k)
      BY <3>1 DEF Fork, memoryVars
    <3>2. CASE \E l \in 1..Len(chain) : AdvanceLib(l)
      BY <3>2 DEF AdvanceLib, memoryVars
    <3>3. CASE Produce \/ Send \/ Reconnect
      BY <3>3 DEF Produce, Send, Reconnect, memoryVars
    <3>4. CASE Consume \/ Start
      BY <3>4 DEF Consume, Start, StartAt
    <3>5. CASE UNCHANGED vars
      BY <3>5 DEF vars, memoryVars
    <3>6. QED
      BY <1>6, <3>1, <3>2, <3>3, <3>4, <3>5 DEF Next, Reader
  <2>2. QED
    BY <2>1 DEF TraceInv
<1>7. QED
  BY <1>1, <1>2, <1>3, <1>4, <1>5, <1>6

(* Every block's traces come and go with its effects: none is logged       *)
(* twice, left behind by a rollback, or ahead of the position from which a *)
(* new process continues.                                                  *)
THEOREM TracesSafe ==
  ASSUME ShallowForks, TracesWithRows
  PROVE  Spec => [](PathInv /\ TablesInv /\ TraceInv)
<1>1. Init => PathInv /\ TablesInv /\ TraceInv
  <2>1. Init => TraceInv
    BY DEF Init, TraceInv, Follows, Logged, LoggedQueries
  <2>2. QED
    BY <2>1, InitPath, InitTables
<1>2. (PathInv /\ TablesInv /\ TraceInv) /\ [Next]_vars => (PathInv /\ TablesInv /\ TraceInv)'
  BY PathStep, TablesStep, TraceStep
<1>3. QED
  BY <1>1, <1>2, PTL DEF Spec

(* No trace is in contract_traces twice.                                   *)
THEOREM TracesAreLoggedOnce ==
  ASSUME ShallowForks, TracesWithRows
  PROVE  Spec => []TracesLoggedOnce
<1>1. TraceInv => TracesLoggedOnce
  BY DEF TraceInv, Follows, TracesLoggedOnce
<1>2. QED
  BY <1>1, TracesSafe, PTL

(* The jobs of a block are executed on tables with the effects of all of   *)
(* its ancestors and of no other block, and without its own; none of the   *)
(* traces they log is in the database.                                     *)
THEOREM BlocksAreExecutedOnce ==
  ASSUME ShallowForks, TracesWithRows
  PROVE  Spec => [](ExecutedOnce /\ (pc = "execute" => actionLogs \cap db.store.traces = {}))
<1>1. PathInv /\ TablesInv /\ TraceInv
        => ExecutedOnce /\ (pc = "execute" => actionLogs \cap db.store.traces = {})
  <2> SUFFICES ASSUME PathInv, TablesInv, TraceInv, pc = "execute"
               PROVE  /\ liveQueue \cap db.store.effects = {}
                      /\ liveQueue \cup db.store.effects = Index!Effects(view)
                      /\ actionLogs \cap db.store.traces = {}
    BY DEF ExecutedOnce
  <2>1. running
    BY DEF PathInv, Stopped
  <2>2. OpenInv
    BY <2>1 DEF TablesInv, TableInv
  <2>3. actionLogs \cap db.store.traces = {}
    BY <2>2 DEF OpenInv, TraceInv, Follows, Logged
  <2>4. QED
    BY <2>2, <2>3, IndexImage DEF OpenInv
<1>2. QED
  BY <1>1, TracesSafe, PTL

(* The position that a new process continues from is at or above every     *)
(* block whose effects or traces were committed.                           *)
THEOREM PositionIsAbove ==
  ASSUME ShallowForks, TracesWithRows
  PROVE  Spec => [](PositionCoversEffects /\ ~ TracesAhead)
<1>1. PathInv /\ TablesInv /\ TraceInv => PositionCoversEffects /\ ~ TracesAhead
  <2> SUFFICES ASSUME PathInv, TablesInv, TraceInv
               PROVE  PositionCoversEffects /\ ~ TracesAhead
    OBVIOUS
  <2>1. \A b \in store.effects : Num(b) \in Nat /\ Num(b) <= store.position
    BY StoredFacts DEF TablesInv, StoredInv
  <2>2. \A b \in store.traces : b \in store.effects
    BY DEF TraceInv, Follows, Logged
  <2>3. store.position \in Nat
    BY DEF PathInv, StoreInv, Store
  <2>4. \A b \in store.traces : ~ (Num(b) > store.position)
    BY <2>1, <2>2, <2>3
  <2>5. QED
    BY <2>1, <2>4 DEF PositionCoversEffects, TracesAhead
<1>2. QED
  BY <1>1, TracesSafe, PTL

(* What was published and not taken back is in the database.               *)
THEOREM AnnouncedBlocksAreCommitted ==
  ASSUME ShallowForks
  PROVE  Spec => []AnnouncedIsCommitted
<1>1. PathInv /\ TablesInv => AnnouncedIsCommitted
  <2> SUFFICES ASSUME PathInv, TablesInv, pc # "publish", ~ lost
               PROVE  announced \subseteq store.effects
    BY DEF AnnouncedIsCommitted
  <2>1. AnnouncedInv
    BY DEF TablesInv
  <2>2. running => pc \in {"idle", "execute", "commit"}
    BY DEF PathInv, StageInv
  <2>3. QED
    BY <2>1, <2>2 DEF AnnouncedInv
<1>2. QED
  BY <1>1, TablesSafe, PTL

-----------------------------------------------------------------------------
(* The refinement *)

(* A step of the chain finalizes blocks, or it is invisible. *)
LEMMA GrownFinalizes ==
  ASSUME PathInv, ChainInv', Grown, store' = store
  PROVE  Index!Finalize
<1>f. PICK f : f = Ancestor(chain, lib)
  OBVIOUS
<1>g. PICK g : g = Ancestor(chain', lib')
  OBVIOUS
<1>1. /\ ChainInv /\ lib \in Nat /\ lib \in 0..Len(chain) /\ lib' \in Nat /\ lib \in 0..lib'
      /\ lib' \in 0..Len(chain') /\ chain \in Seq(0..forks) /\ chain' \in Seq(0..forks')
  BY DEF PathInv, ChainInv, Grown
<1>2. f = Ancestor(chain', lib) /\ Len(f) = lib
  <2>1. Known(f) /\ Num(f) = lib /\ OnChain(f)
    BY <1>1, <1>f, ChainAncestor
  <2>2. Fixed(Num(f))
    BY <1>1, <2>1 DEF Fixed
  <2>3. OnChain(f)'
    BY <2>1, <2>2 DEF Grown
  <2>4. f = Ancestor(chain', Num(f))
    BY <2>3 DEF OnChain
  <2>5. QED
    BY <2>1, <2>4 DEF Num
<1>3. Ancestor(g, lib) = Ancestor(chain', lib) /\ Len(g) = lib'
  BY <1>1, <1>g, Nested, AncestorFacts
<1>4. SubSeq(g, 1, Len(f)) = f /\ Len(g) >= Len(f)
  <2>1. SubSeq(g, 1, Len(f)) = Ancestor(g, lib)
    BY <1>2 DEF Ancestor
  <2>2. QED
    BY <1>1, <1>2, <1>3, <2>1
<1>5. f = SubSeq(chain, 1, lib) /\ g = SubSeq(chain', 1, lib')
  BY <1>f, <1>g DEF Ancestor
<1>6. QED
  BY <1>4, <1>5 DEF Index!Finalize

LEMMA CommitMoves ==
  ASSUME PathInv, TablesInv, Commit
  PROVE  Index!Move
<1>1. running /\ pc = "commit" /\ UNCHANGED nodeVars
  BY DEF Commit
<1>2. TablesInv' /\ ChainInv /\ TableInv /\ StoredInv /\ OpenInv /\ CommitInv /\ db.store \in Store
  BY <1>1, CommitTables DEF PathInv, TablesInv, TableInv, StageInv, TxInv, Transactions
<1>3. store'.effects = db.store.effects
  BY <1>1, <1>2, CommittedFields, ImageOfView DEF PathInv, StageInv, TxInv
<1>4. store'.effects = Image(store'.tip)
  BY <1>2 DEF TablesInv, StoredInv, Image
<1>5. store'.effects = Image(view)
  BY <1>2, <1>3 DEF OpenInv, CommitInv
<1>6. ASSUME NEW b \in Index!Effects(SubSeq(chain, 1, lib)), b \in store.effects
      PROVE  b \in store'.effects
  <2>1. lib \in 0..Len(chain) /\ Known(Ancestor(chain, lib)) /\ OnChain(Ancestor(chain, lib))
        /\ Num(Ancestor(chain, lib)) = lib
    BY <1>2, ChainAncestor DEF ChainInv
  <2>2. Ancestor(chain, lib) \in Block
    BY <1>2, <2>1, KnownFacts
  <2>3. b \in Image(Ancestor(chain, lib))
    BY <1>6, IndexImage DEF Ancestor
  <2>4. Num(b) \in StartBlock..lib /\ b = Ancestor(Ancestor(chain, lib), Num(b))
    BY <2>1, <2>2, <2>3, ImageFacts
  <2>5. Num(b) \in 0..Num(Ancestor(chain, lib))
    BY <2>1, <2>4, Bounds
  <2>6. OnChain(b)
    BY <1>2, <2>1, <2>2, <2>4, <2>5, OnChainAncestor
  <2>7. QED
    BY <1>2, <1>5, <1>6, <2>6 DEF TableInv
<1>7. SubSeq(chain', 1, lib') = SubSeq(chain, 1, lib)
  BY <1>1 DEF nodeVars
<1>8. store'.effects = Index!Effects(store'.tip)
  BY <1>4, IndexImage
<1>9. QED
  BY <1>6, <1>7, <1>8 DEF Index!Move, Index!Effects

(* The reader implements its abstract specification: every step makes more *)
(* blocks irreversible, moves the tables to another block without taking   *)
(* back an effect of an irreversible one, or is invisible to the database. *)
THEOREM ReaderImplementsIndex ==
  ASSUME ShallowForks
  PROVE  Spec => IndexSpec
<1>1. Init => Index!Init
  BY DEF Init, Index!Init
<1>2. ASSUME PathInv, TablesInv, PathInv', [Next]_vars
      PROVE  [Index!Next]_<<SubSeq(chain, 1, lib), store.tip, store.effects>>
  <2>1. CASE Commit
    BY <1>2, <2>1, CommitMoves DEF Index!Next
  <2>2. CASE ~ Commit
    <3>1. store' = store
      BY <1>2, <2>2 DEF Next, Reader, Produce, Fork, AdvanceLib, Send, Reconnect, Consume, ProcessBlock,
                       Execute, Publish, PublishFails, Published, Stop, Start, StartAt, vars
    <3>2. Grown
      <4>1. CASE Produce \/ (\E k \in 1..Len(chain) - 1 : Fork(k)) \/ (\E l \in 1..Len(chain) : AdvanceLib(l))
        BY <1>2, <4>1, ChainSteps
      <4>2. CASE ~ (Produce \/ (\E k \in 1..Len(chain) - 1 : Fork(k)) \/ (\E l \in 1..Len(chain) : AdvanceLib(l)))
        <5>1. UNCHANGED nodeVars
          BY <1>2, <2>2, <4>2 DEF Next, Reader, Send, Reconnect, Consume, ProcessBlock, Execute,
                                 Publish, PublishFails, Published, Stop, Start, StartAt, vars
        <5>2. QED
          BY <1>2, <5>1, SameChainGrown
      <4>3. QED
        BY <4>1, <4>2
    <3>3. ChainInv'
      BY <1>2 DEF PathInv
    <3>4. QED
      BY <1>2, <3>1, <3>2, <3>3, GrownFinalizes DEF Index!Next
  <2>3. QED
    BY <2>1, <2>2
<1>3. QED
  BY <1>1, <1>2, TablesSafe, PTL DEF Spec, IndexSpec, Index!Spec
=============================================================================
