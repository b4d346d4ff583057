----------------------------- MODULE WorkerProofs -----------------------------
(***************************************************************************)
(* Proofs about Worker.  Traces and rows are read with the ABI that their  *)
(* contract had, for any number of blocks, however far the preparation is  *)
(* ahead, and whenever the worker is replaced.  Every migration runs once  *)
(* on the tables of every handler, for any versions, and however often the *)
(* master dies and is replaced by a later release.                         *)
(***************************************************************************)
EXTENDS Worker, FiniteSetTheorems, WellFoundedInduction, SequenceTheorems, TLAPS

(***************************************************************************)
(* The inductive invariant.  AbiOfBlock is not inductive: it depends on    *)
(* what the cache, the database, the fetches under way and the prepared    *)
(* blocks hold.                                                            *)
(***************************************************************************)

Abis == [block_num : Int, abi : Int]
FetchItems == [of : {"trace", "row"}] \cup [of : {"row"}, trace : Abis]
Fetches == [at : {"database", "next", "answer", "done"}, block : Nat, item : FetchItems, result : Abis]
Stages == {"done", "setabi", "insert", "trace", "row", "fetch"}

AbiTypeOK ==
  /\ setabi \in SUBSET (0 .. MaxBlock)
  /\ abis \in SUBSET setabi
  /\ abi \in Abis
  /\ fetch \in [{"prepare", "process"} -> {NoFetch} \cup Fetches]
  /\ prepared \in Seq([block_num : Nat, trace : Abis, row : Abis])
  /\ block \in [num : Nat, trace : Abis, row : Abis, at : Stages]
  /\ position \in Nat
  /\ used \in Abis

(* What the database and the cache answer: an ABI with the block that set  *)
(* it, or some ABI with the number -1.                                     *)
Sound(result) == result.block_num >= 0 => result.abi = result.block_num /\ result.block_num \in setabi

(* No block up to n has set a newer one. *)
Newest(result, n) == \A m \in setabi : m <= n => m <= result.block_num

Right(result, n) == Sound(result) /\ result.block_num <= n /\ Newest(result, n)

Stored(n) == \A m \in setabi : m <= n => m \in abis

(* The last block whose setabi handleAbiUpdate has put into the cache. *)
Processed == IF block.at = "setabi" THEN block.num - 1 ELSE block.num

(* What is processed is in contract_abis. *)
DatabaseInv ==
  /\ position <= block.num
  /\ block.at # "done" => position < block.num
  /\ Stored(block.num - 1)
  /\ block.at \notin {"setabi", "insert"} => Stored(block.num)

(* Blocks are prepared one after the other. *)
PreparedInv ==
  /\ \A i \in DOMAIN prepared :
       /\ prepared[i].block_num = block.num + i
       /\ Sound(prepared[i].trace) /\ Sound(prepared[i].row)
  /\ fetch["prepare"] # NoFetch =>
       /\ fetch["prepare"].block = block.num + Len(prepared) + 1
       /\ fetch["prepare"].item.of = "row" =>
            fetch["prepare"].item.trace \in Abis /\ Sound(fetch["prepare"].item.trace)

BlockInv ==
  /\ Sound(block.trace) /\ Sound(block.row)
  /\ block.at \in {"setabi", "insert"} => block.num \in setabi
  /\ (block.at = "fetch") <=> (fetch["process"] # NoFetch)
  /\ fetch["process"] # NoFetch => fetch["process"].block = block.num

(* The cache is not behind the block in process, unless it is empty. *)
CacheInv ==
  /\ Sound(abi)
  /\ abi # NoAbi => Newest(abi, Processed)
  /\ block.at = "insert" => abi.block_num >= block.num

(* The preparation may have asked the database before a block that is now  *)
(* processed had set its ABI; if nothing was cached since, there was none. *)
PrepareFetchInv ==
  LET f == fetch["prepare"] IN
  f # NoFetch =>
    /\ f.at = "next" /\ abi = NoAbi => \A m \in setabi : m > Processed
    /\ f.at = "answer" /\ abi = NoAbi => Newest(f.result, Processed)
    /\ f.at \in {"answer", "done"} => Sound(f.result) /\ f.result # NoAbi

(* The processing asks when everything it can be told is there. *)
ProcessFetchInv ==
  LET f == fetch["process"] IN
  f # NoFetch =>
    /\ f.at = "next" => \A m \in setabi : m > block.num
    /\ f.at \in {"answer", "done"} => Right(f.result, block.num) /\ f.result # NoAbi

AbiInv ==
  /\ AbiTypeOK /\ DatabaseInv /\ PreparedInv /\ BlockInv
  /\ CacheInv /\ PrepareFetchInv /\ ProcessFetchInv
  /\ AbiOfBlock

-----------------------------------------------------------------------------
(* Maxima and minima exist *)

LEMMA Least ==
  ASSUME NEW S \in SUBSET Nat, S # {}
  PROVE  \E n \in S : \A m \in S : n <= m
<1>1. PICK n \in S : \A m \in S : ~ (<<m, n>> \in OpToRel(<, Nat))
  BY WFMin, NatLessThanWellFounded, Zenon
<1>2. \A m \in S : m < n => <<m, n>> \in OpToRel(<, Nat)
  BY Zenon DEF OpToRel
<1>3. \A m \in S : ~ (m < n)
  BY <1>1, <1>2, Zenon
<1>4. QED
  BY <1>3

LEMMA MinFacts ==
  ASSUME NEW S \in SUBSET Nat, S # {}
  PROVE  Min(S) \in S /\ \A y \in S : Min(S) <= y
BY Least, Zenon DEF Min

LEMMA MaxFacts ==
  ASSUME NEW S \in SUBSET Int, S # {}, NEW b \in Int, \A x \in S : x <= b
  PROVE  Max(S) \in S /\ \A y \in S : Max(S) >= y
<1> DEFINE D == {b - x : x \in S}
<1>1. D \in SUBSET Nat /\ D # {}
  <2>1. \A x \in S : b - x \in Nat
    OBVIOUS
  <2>2. QED
    BY <2>1
<1>2. PICK d \in D : \A e \in D : d <= e
  BY <1>1, Least
<1>3. PICK x \in S : d = b - x
  BY <1>2
<1>4. \A y \in S : b - y \in D
  OBVIOUS
<1>5. \A y \in S : x >= y
  BY <1>2, <1>3, <1>4
<1>6. QED
  BY <1>5, Zenon DEF Max

-----------------------------------------------------------------------------
(* The steps *)

LEMMA InitialAbis ==
  ASSUME InitAbis
  PROVE  AbiInv
<1>1. AbiTypeOK
  <2>1. setabi \in SUBSET (0 .. MaxBlock) /\ abis \in SUBSET setabi
    BY DEF InitAbis
  <2>2. abi \in Abis /\ used \in Abis
    BY DEF InitAbis, NoAbi, Abis
  <2>3. fetch \in [{"prepare", "process"} -> {NoFetch} \cup Fetches]
    BY DEF InitAbis
  <2>4. block \in [num : Nat, trace : Abis, row : Abis, at : Stages]
    BY DEF InitAbis, NoAbi, Abis, Stages
  <2>5. QED
    BY <2>1, <2>2, <2>3, <2>4 DEF AbiTypeOK, InitAbis
<1>2. DatabaseInv
  BY <1>1 DEF DatabaseInv, Stored, InitAbis, AbiTypeOK
<1>3. PreparedInv /\ BlockInv
  BY DEF PreparedInv, BlockInv, InitAbis, Sound, NoAbi
<1>4. CacheInv /\ PrepareFetchInv /\ ProcessFetchInv
  BY DEF CacheInv, PrepareFetchInv, ProcessFetchInv, InitAbis, Sound, NoAbi
<1>5. AbiOfBlock
  BY <1>1 DEF AbiOfBlock, KnownAbi, InitAbis, NoAbi, AbiTypeOK
<1>6. QED
  BY <1>1, <1>2, <1>3, <1>4, <1>5 DEF AbiInv

LEMMA Restart ==
  ASSUME AbiInv, RestartReader
  PROVE  AbiInv'
<1> USE DEF AbiInv, RestartReader
<1>1. AbiTypeOK'
  <2>1. abi' \in Abis /\ block' \in [num : Nat, trace : Abis, row : Abis, at : Stages]
    BY DEF AbiTypeOK, Abis, NoAbi, Stages
  <2>2. fetch' \in [{"prepare", "process"} -> {NoFetch} \cup Fetches]
    OBVIOUS
  <2>3. QED
    BY <2>1, <2>2 DEF AbiTypeOK
<1>2. DatabaseInv'
  <2>1. position <= block.num /\ position \in Nat /\ block.num \in Nat /\ \A m \in setabi : m \in Nat
    BY DEF AbiTypeOK, DatabaseInv
  <2>2. Stored(position)
    BY <2>1 DEF DatabaseInv, Stored
  <2>3. Stored(position - 1)
    BY <2>1, <2>2 DEF Stored
  <2>4. block' = [num |-> position, trace |-> NoAbi, row |-> NoAbi, at |-> "done"] /\ position' = position
        /\ abis' = abis /\ setabi' = setabi
    OBVIOUS
  <2>5. QED
    BY <2>1, <2>2, <2>3, <2>4 DEF DatabaseInv, Stored
<1>3. PreparedInv' /\ BlockInv'
  BY DEF PreparedInv, BlockInv, Sound, NoAbi
<1>4. CacheInv' /\ PrepareFetchInv' /\ ProcessFetchInv'
  BY DEF CacheInv, PrepareFetchInv, ProcessFetchInv, Sound, NoAbi
<1>5. AbiOfBlock'
  BY DEF AbiOfBlock, KnownAbi, AbiOf
<1>6. QED
  BY <1>1, <1>2, <1>3, <1>4, <1>5


(* Nothing but Deserialized changes used, and nothing changes setabi. *)
LEMMA SameUsed ==
  ASSUME AbiOfBlock, UNCHANGED <<used, setabi>>
  PROVE  AbiOfBlock'
BY DEF AbiOfBlock, KnownAbi, AbiOf

LEMMA CacheHit ==
  ASSUME AbiInv, NEW n \in Nat, Cached(n)
  PROVE  abi # NoAbi /\ abi \in Abis /\ Sound(abi) /\ abi.block_num <= n
         /\ (n = block.num /\ block.at # "setabi" => Right(abi, n))
BY DEF AbiInv, Cached, CacheInv, AbiTypeOK, Right, Processed

(* What StartFetch leaves in the place of who. *)
LEMMA StartFetchFacts ==
  ASSUME AbiInv, NEW who \in {"prepare", "process"}, NEW n \in Nat, NEW item \in FetchItems,
         fetch' = StartFetch(who, n, item)
  PROVE  /\ fetch' \in [{"prepare", "process"} -> {NoFetch} \cup Fetches]
         /\ \A w \in {"prepare", "process"} : w # who => fetch'[w] = fetch[w]
         /\ fetch'[who] \in Fetches
         /\ fetch'[who].block = n /\ fetch'[who].item = item
         /\ \/ fetch'[who].at = "database"
            \/ fetch'[who].at = "done" /\ fetch'[who].result = abi /\ Cached(n)
<1>1. fetch \in [{"prepare", "process"} -> {NoFetch} \cup Fetches] /\ abi \in Abis
  BY DEF AbiInv, AbiTypeOK
<1>2. CASE Cached(n)
  <2>1. fetch' = [fetch EXCEPT ![who] = [at |-> "done", block |-> n, item |-> item, result |-> abi]]
    BY <1>2 DEF StartFetch
  <2>2. [at |-> "done", block |-> n, item |-> item, result |-> abi] \in Fetches
    BY <1>1 DEF Fetches
  <2>3. QED
    BY <1>1, <1>2, <2>1, <2>2
<1>3. CASE ~ Cached(n)
  <2>1. fetch' = [fetch EXCEPT ![who] = [at |-> "database", block |-> n, item |-> item, result |-> NoAbi]]
    BY <1>3 DEF StartFetch
  <2>2. [at |-> "database", block |-> n, item |-> item, result |-> NoAbi] \in Fetches
    BY <1>1 DEF Fetches, NoAbi, Abis
  <2>3. QED
    BY <1>1, <1>3, <2>1, <2>2
<1>4. QED
  BY <1>2, <1>3

LEMMA LastPreparedIs ==
  ASSUME AbiInv
  PROVE  LastPrepared = block.num + Len(prepared) /\ LastPrepared \in Nat
<1>1. prepared \in Seq([block_num : Nat, trace : Abis, row : Abis]) /\ block.num \in Nat
  BY DEF AbiInv, AbiTypeOK
<1>2. CASE prepared = <<>>
  BY <1>1, <1>2 DEF LastPrepared
<1>3. CASE prepared # <<>>
  <2>1. Len(prepared) \in DOMAIN prepared /\ Len(prepared) \in Nat
    BY <1>1, <1>3
  <2>2. prepared[Len(prepared)].block_num = block.num + Len(prepared)
    BY <2>1, Zenon DEF AbiInv, PreparedInv
  <2>3. QED
    BY <1>1, <1>3, <2>1, <2>2 DEF LastPrepared
<1>4. QED
  BY <1>2, <1>3

LEMMA PrepareTracesStep ==
  ASSUME AbiInv, PrepareActionTraces
  PROVE  AbiInv'
<1>1. fetch' = StartFetch("prepare", LastPrepared + 1, [of |-> "trace"])
      /\ UNCHANGED <<setabi, abis, abi, prepared, block, position, used>>
  BY DEF PrepareActionTraces
<1>2. LastPrepared = block.num + Len(prepared) /\ LastPrepared + 1 \in Nat
  BY LastPreparedIs
<1>3. [of |-> "trace"] \in FetchItems
  BY DEF FetchItems
<1> DEFINE f == fetch'["prepare"]
<1>4. /\ fetch' \in [{"prepare", "process"} -> {NoFetch} \cup Fetches]
      /\ fetch'["process"] = fetch["process"]
      /\ f \in Fetches /\ f.block = LastPrepared + 1 /\ f.item = [of |-> "trace"]
      /\ (f.at = "database" \/ (f.at = "done" /\ f.result = abi /\ Cached(LastPrepared + 1)))
  <2>1. "prepare" \in {"prepare", "process"} /\ "process" \in {"prepare", "process"} /\ "process" # "prepare"
    OBVIOUS
  <2>2. QED
    BY <1>1, <1>2, <1>3, <2>1, StartFetchFacts
<1>5. AbiTypeOK'
  BY <1>1, <1>4 DEF AbiInv, AbiTypeOK
<1>6. DatabaseInv'
  BY <1>1 DEF AbiInv, DatabaseInv, Stored
<1>7. PreparedInv'
  <2>1. f.item.of = "trace"
    BY <1>4
  <2>2. QED
    BY <1>1, <1>2, <1>4, <2>1 DEF AbiInv, PreparedInv, Sound
<1>8. BlockInv'
  BY <1>1, <1>4 DEF AbiInv, BlockInv, Sound
<1>9. CacheInv'
  BY <1>1 DEF AbiInv, CacheInv, Sound, Newest, Processed
<1>10. PrepareFetchInv'
  <2>1. f.at = "done" => Sound(f.result) /\ f.result # NoAbi
    BY <1>2, <1>4, CacheHit
  <2>2. QED
    BY <1>1, <1>4, <2>1 DEF PrepareFetchInv, Sound
<1>11. ProcessFetchInv'
  BY <1>1, <1>4 DEF AbiInv, ProcessFetchInv, Right, Sound, Newest
<1>12. QED
  BY <1>1, <1>5, <1>6, <1>7, <1>8, <1>9, <1>10, <1>11, SameUsed DEF AbiInv

LEMMA PrepareRowsStep ==
  ASSUME AbiInv, PrepareContractRows
  PROVE  AbiInv'
<1> DEFINE e == fetch["prepare"]
<1>1. /\ e.at = "done"
      /\ fetch' = StartFetch("prepare", e.block, [of |-> "row", trace |-> e.result])
      /\ UNCHANGED <<setabi, abis, abi, prepared, block, position, used>>
  BY DEF PrepareContractRows
<1>2. e \in Fetches /\ e # NoFetch
  BY <1>1 DEF AbiInv, AbiTypeOK, NoFetch, Fetches
<1>3. e.block \in Nat /\ [of |-> "row", trace |-> e.result] \in FetchItems
  BY <1>2 DEF FetchItems, Fetches
<1>4. Sound(e.result) /\ e.block = block.num + Len(prepared) + 1
  BY <1>1, <1>2 DEF AbiInv, PrepareFetchInv, PreparedInv
<1> DEFINE f == fetch'["prepare"]
<1>5. /\ fetch' \in [{"prepare", "process"} -> {NoFetch} \cup Fetches]
      /\ fetch'["process"] = fetch["process"]
      /\ f \in Fetches /\ f.block = e.block /\ f.item = [of |-> "row", trace |-> e.result]
      /\ (f.at = "database" \/ (f.at = "done" /\ f.result = abi /\ Cached(e.block)))
  <2>1. "prepare" \in {"prepare", "process"} /\ "process" \in {"prepare", "process"} /\ "process" # "prepare"
    OBVIOUS
  <2>2. QED
    BY <1>1, <1>3, <2>1, StartFetchFacts
<1>6. AbiTypeOK'
  BY <1>1, <1>5 DEF AbiInv, AbiTypeOK
<1>7. DatabaseInv'
  BY <1>1 DEF AbiInv, DatabaseInv, Stored
<1>8. PreparedInv'
  <2>1. f.item.trace = e.result /\ e.result \in Abis
    BY <1>2, <1>5 DEF Fetches
  <2>2. QED
    BY <1>1, <1>4, <1>5, <2>1 DEF AbiInv, PreparedInv, Sound
<1>9. BlockInv'
  BY <1>1, <1>5 DEF AbiInv, BlockInv, Sound
<1>10. CacheInv'
  BY <1>1 DEF AbiInv, CacheInv, Sound, Newest, Processed
<1>11. PrepareFetchInv'
  <2>1. f.at = "done" => Sound(f.result) /\ f.result # NoAbi
    BY <1>3, <1>5, CacheHit
  <2>2. QED
    BY <1>1, <1>5, <2>1 DEF PrepareFetchInv, Sound
<1>12. ProcessFetchInv'
  BY <1>1, <1>5 DEF AbiInv, ProcessFetchInv, Right, Sound, Newest
<1>13. QED
  BY <1>1, <1>6, <1>7, <1>8, <1>9, <1>10, <1>11, <1>12, SameUsed DEF AbiInv

LEMMA ConsumerStep ==
  ASSUME AbiInv, Consumer
  PROVE  AbiInv'
<1> DEFINE e == fetch["prepare"]
           b == [block_num |-> e.block, trace |-> e.item.trace, row |-> e.result]
<1>1. /\ e.at = "done" /\ e.item.of = "row"
      /\ prepared' = Append(prepared, b)
      /\ fetch' = [fetch EXCEPT !["prepare"] = NoFetch]
      /\ UNCHANGED <<setabi, abis, abi, block, position, used>>
  BY DEF Consumer
<1>2. e \in Fetches /\ e # NoFetch
  BY <1>1 DEF AbiInv, AbiTypeOK, NoFetch, Fetches
<1>3. Sound(e.result) /\ Sound(e.item.trace) /\ e.item.trace \in Abis /\ e.block = block.num + Len(prepared) + 1
  BY <1>1, <1>2 DEF AbiInv, PrepareFetchInv, PreparedInv
<1>4. b \in [block_num : Nat, trace : Abis, row : Abis]
  <2>1. e.block \in Nat /\ e.result \in Abis
    BY <1>2 DEF Fetches
  <2>2. QED
    BY <1>3, <2>1
<1>5. prepared \in Seq([block_num : Nat, trace : Abis, row : Abis]) /\ fetch \in [{"prepare", "process"} -> {NoFetch} \cup Fetches]
  BY DEF AbiInv, AbiTypeOK
<1>6. /\ fetch' \in [{"prepare", "process"} -> {NoFetch} \cup Fetches]
      /\ fetch'["process"] = fetch["process"] /\ fetch'["prepare"] = NoFetch
  BY <1>1, <1>5
<1>7. AbiTypeOK'
  <2>1. prepared' \in Seq([block_num : Nat, trace : Abis, row : Abis])
    BY <1>1, <1>4, <1>5, AppendProperties
  <2>2. QED
    BY <1>1, <1>6, <2>1 DEF AbiInv, AbiTypeOK
<1>8. DatabaseInv'
  BY <1>1 DEF AbiInv, DatabaseInv, Stored
<1>9. PreparedInv'
  <2>1. \A i \in DOMAIN prepared' :
          prepared'[i].block_num = block.num + i /\ Sound(prepared'[i].trace) /\ Sound(prepared'[i].row)
    <3>1. \A i \in DOMAIN prepared' : \/ i \in DOMAIN prepared /\ prepared'[i] = prepared[i]
                                      \/ i = Len(prepared) + 1 /\ prepared'[i] = b
      BY <1>1, <1>4, <1>5, AppendProperties
    <3>2. \A i \in DOMAIN prepared :
            prepared[i].block_num = block.num + i /\ Sound(prepared[i].trace) /\ Sound(prepared[i].row)
      BY DEF AbiInv, PreparedInv
    <3>3. b.block_num = block.num + (Len(prepared) + 1) /\ Sound(b.trace) /\ Sound(b.row)
      <4>1. block.num \in Nat /\ Len(prepared) \in Nat
        BY <1>5 DEF AbiInv, AbiTypeOK
      <4>2. QED
        BY <1>3, <4>1
    <3>4. QED
      BY <3>1, <3>2, <3>3
  <2>2. QED
    BY <1>1, <1>6, <2>1 DEF PreparedInv, Sound
<1>10. BlockInv'
  BY <1>1, <1>6 DEF AbiInv, BlockInv, Sound
<1>11. CacheInv'
  BY <1>1 DEF AbiInv, CacheInv, Sound, Newest, Processed
<1>12. PrepareFetchInv'
  BY <1>6 DEF PrepareFetchInv
<1>13. ProcessFetchInv'
  BY <1>1, <1>6 DEF AbiInv, ProcessFetchInv, Right, Sound, Newest
<1>14. QED
  BY <1>1, <1>7, <1>8, <1>9, <1>10, <1>11, <1>12, <1>13, SameUsed DEF AbiInv

LEMMA TakeBlockStep ==
  ASSUME AbiInv, TakeBlock
  PROVE  AbiInv'
<1> DEFINE h == Head(prepared)
           n == h.block_num
           b == [num |-> n, trace |-> h.trace, row |-> h.row,
                 at |-> IF n \in setabi THEN "setabi" ELSE "trace"]
<1>1. /\ block.at = "done" /\ prepared # <<>>
      /\ block' = b /\ prepared' = Tail(prepared)
      /\ UNCHANGED <<setabi, abis, abi, fetch, position, used>>
  BY DEF TakeBlock
<1>2. prepared \in Seq([block_num : Nat, trace : Abis, row : Abis]) /\ block.num \in Nat
      /\ position \in Nat /\ abi \in Abis /\ setabi \in SUBSET Nat
  BY DEF AbiInv, AbiTypeOK
<1>3. /\ h = prepared[1] /\ h \in [block_num : Nat, trace : Abis, row : Abis]
      /\ prepared' \in Seq([block_num : Nat, trace : Abis, row : Abis])
      /\ Len(prepared') = Len(prepared) - 1
      /\ \A i \in DOMAIN prepared' : i + 1 \in DOMAIN prepared /\ prepared'[i] = prepared[i + 1]
      /\ 1 \in DOMAIN prepared
  <2>1. Len(prepared) \in Nat /\ Len(prepared) >= 1 /\ DOMAIN prepared = 1 .. Len(prepared)
    BY <1>1, <1>2
  <2>2. h = prepared[1] /\ 1 \in DOMAIN prepared
    BY <1>1, <1>2, <2>1, HeadTailProperties
  <2>3. h \in [block_num : Nat, trace : Abis, row : Abis]
    BY <1>1, <1>2, HeadTailProperties
  <2>4. prepared' \in Seq([block_num : Nat, trace : Abis, row : Abis]) /\ Len(prepared') = Len(prepared) - 1
    BY <1>1, <1>2, HeadTailProperties
  <2>5. \A i \in 1 .. Len(prepared') : prepared'[i] = prepared[i + 1]
    BY <1>1, <1>2, HeadTailProperties
  <2>6. DOMAIN prepared' = 1 .. Len(prepared')
    BY <2>4
  <2>7. \A i \in DOMAIN prepared' : i + 1 \in DOMAIN prepared
    BY <2>1, <2>4, <2>6
  <2>8. QED
    BY <2>2, <2>3, <2>4, <2>5, <2>6, <2>7
<1>4. n = block.num + 1 /\ Sound(h.trace) /\ Sound(h.row)
  BY <1>3 DEF AbiInv, PreparedInv
<1>5. /\ block'.num = n /\ block'.trace = h.trace /\ block'.row = h.row
      /\ (n \in setabi => block'.at = "setabi") /\ (n \notin setabi => block'.at = "trace")
  BY <1>1
<1>6. AbiTypeOK'
  <2>1. b \in [num : Nat, trace : Abis, row : Abis, at : Stages]
    BY <1>3 DEF Stages
  <2>2. QED
    BY <1>1, <1>3, <2>1 DEF AbiInv, AbiTypeOK
<1>7. Processed = block.num /\ (\A m \in setabi : m <= Processed' <=> m <= block.num)
  BY <1>1, <1>2, <1>4, <1>5 DEF Processed
<1>8. DatabaseInv'
  <2>1. position <= block.num /\ Stored(block.num)
    BY <1>1 DEF AbiInv, DatabaseInv
  <2>2. position < block'.num
    BY <1>2, <1>4, <1>5, <2>1
  <2>3. \A m \in setabi : m <= block'.num - 1 => m \in abis
    BY <1>2, <1>4, <1>5, <2>1 DEF Stored
  <2>4. n \notin setabi => \A m \in setabi : m <= block'.num => m \in abis
    BY <1>2, <1>4, <1>5, <2>1 DEF Stored
  <2>5. block'.at \notin {"setabi", "insert"} => n \notin setabi
    BY <1>5
  <2>6. Stored(block.num - 1)' /\ (block'.at \notin {"setabi", "insert"} => Stored(block.num)')
    BY <1>1, <2>3, <2>4, <2>5, Zenon DEF Stored
  <2>7. position' < block'.num /\ position' <= block'.num
    BY <1>1, <1>2, <1>4, <1>5, <2>2
  <2>8. QED
    BY <2>6, <2>7 DEF DatabaseInv
<1>9. PreparedInv'
  <2>1. \A i \in DOMAIN prepared' :
          prepared'[i].block_num = block'.num + i /\ Sound(prepared'[i].trace) /\ Sound(prepared'[i].row)
    <3>1. TAKE i \in DOMAIN prepared'
    <3>2. i + 1 \in DOMAIN prepared /\ prepared'[i] = prepared[i + 1] /\ i \in Nat
      BY <1>3
    <3>3. prepared[i + 1].block_num = block.num + (i + 1) /\ Sound(prepared[i + 1].trace) /\ Sound(prepared[i + 1].row)
      BY <3>2, Zenon DEF AbiInv, PreparedInv
    <3>4. block'.num = block.num + 1
      BY <1>4, <1>5
    <3>5. \A a, c \in Nat : a + (c + 1) = (a + 1) + c
      OBVIOUS
    <3>6. prepared[i + 1].block_num = block'.num + i
      <4>1. block.num \in Nat /\ i \in Nat
        BY <1>2, <3>2
      <4>2. block.num + (i + 1) = (block.num + 1) + i
        BY <3>5, <4>1
      <4>3. QED
        BY <3>3, <3>4, <4>2
    <3>7. QED
      BY <3>2, <3>3, <3>6, Zenon
  <2>2. block.num + Len(prepared) + 1 = block'.num + Len(prepared') + 1
    <3>1. Len(prepared) \in Nat
      BY <1>2
    <3>2. QED
      BY <1>2, <1>3, <1>4, <1>5, <3>1
  <2>3. QED
    BY <1>1, <2>1, <2>2 DEF AbiInv, PreparedInv, Sound
<1>10. BlockInv'
  <2>1. fetch["process"] = NoFetch
    BY <1>1 DEF AbiInv, BlockInv
  <2>2. QED
    BY <1>1, <1>4, <1>5, <2>1 DEF BlockInv, Sound
<1>11. CacheInv'
  BY <1>1, <1>5, <1>7 DEF AbiInv, CacheInv, Sound, Newest
<1>12. PrepareFetchInv'
  <2>1. \A m \in setabi : m > Processed => m > Processed'
    <3>1. Processed' \in Int /\ Processed \in Int
      BY <1>2, <1>5, <1>4, <1>7 DEF Processed
    <3>2. QED
      BY <1>2, <1>7, <3>1
  <2>2. \A r : Newest(r, Processed) => Newest(r, Processed)'
    BY <1>1, <1>7 DEF Newest
  <2>3. QED
    BY <1>1, <1>7, <2>1 DEF AbiInv, PrepareFetchInv, Sound, Newest
<1>13. ProcessFetchInv'
  BY <1>1 DEF AbiInv, ProcessFetchInv, BlockInv
<1>14. QED
  BY <1>1, <1>6, <1>8, <1>9, <1>10, <1>11, <1>12, <1>13, SameUsed DEF AbiInv

LEMMA HandleAbiUpdateStep ==
  ASSUME AbiInv, HandleAbiUpdate
  PROVE  AbiInv'
<1>1. /\ block.at = "setabi" /\ abi' = [block_num |-> block.num, abi |-> block.num]
      /\ block' = [block EXCEPT !.at = "insert"]
      /\ UNCHANGED <<setabi, abis, fetch, prepared, position, used>>
  BY DEF HandleAbiUpdate
<1>2. block \in [num : Nat, trace : Abis, row : Abis, at : Stages]
  BY DEF AbiInv, AbiTypeOK
<1>3. /\ block' \in [num : Nat, trace : Abis, row : Abis, at : Stages]
      /\ block'.num = block.num /\ block'.trace = block.trace /\ block'.row = block.row /\ block'.at = "insert"
  BY <1>1, <1>2 DEF Stages
<1>4. abi' \in Abis /\ abi'.block_num = block.num /\ abi' # NoAbi /\ block.num \in Nat
  BY <1>1, <1>2 DEF Abis, NoAbi
<1>5. AbiTypeOK'
  BY <1>1, <1>3, <1>4 DEF AbiInv, AbiTypeOK
<1>6. DatabaseInv'
  BY <1>1, <1>3 DEF AbiInv, DatabaseInv, Stored
<1>7. PreparedInv'
  BY <1>1, <1>3 DEF AbiInv, PreparedInv, Sound
<1>8. BlockInv'
  BY <1>1, <1>3 DEF AbiInv, BlockInv, Sound
<1>9. block.num \in setabi
  BY <1>1 DEF AbiInv, BlockInv
<1>10. CacheInv'
  <2>1. Sound(abi)'
    BY <1>1, <1>9 DEF Sound
  <2>2. \A m \in setabi : m <= Processed' => m <= abi'.block_num
    BY <1>3, <1>4 DEF Processed
  <2>3. abi'.block_num >= block'.num
    BY <1>3, <1>4
  <2>4. QED
    BY <1>1, <2>1, <2>2, <2>3 DEF CacheInv, Newest
<1>11. PrepareFetchInv'
  BY <1>1, <1>4 DEF AbiInv, PrepareFetchInv, Sound
<1>12. ProcessFetchInv'
  BY <1>1 DEF AbiInv, ProcessFetchInv, BlockInv
<1>13. QED
  BY <1>1, <1>5, <1>6, <1>7, <1>8, <1>10, <1>11, <1>12, SameUsed DEF AbiInv

LEMMA InsertAbiStep ==
  ASSUME AbiInv, InsertAbi
  PROVE  AbiInv'
<1>1. /\ block.at = "insert" /\ abis' = abis \cup {block.num}
      /\ block' = [block EXCEPT !.at = "trace"]
      /\ UNCHANGED <<setabi, abi, fetch, prepared, position, used>>
  BY DEF InsertAbi
<1>2. block \in [num : Nat, trace : Abis, row : Abis, at : Stages] /\ setabi \in SUBSET Nat
  BY DEF AbiInv, AbiTypeOK
<1>3. /\ block' \in [num : Nat, trace : Abis, row : Abis, at : Stages]
      /\ block'.num = block.num /\ block'.trace = block.trace /\ block'.row = block.row /\ block'.at = "trace"
  BY <1>1, <1>2 DEF Stages
<1>4. block.num \in setabi
  BY <1>1 DEF AbiInv, BlockInv
<1>5. AbiTypeOK'
  BY <1>1, <1>3, <1>4 DEF AbiInv, AbiTypeOK
<1>6. DatabaseInv'
  <2>1. Stored(block.num - 1) /\ position < block.num /\ position <= block.num
    BY <1>1 DEF AbiInv, DatabaseInv
  <2>2. \A m \in setabi : m <= block.num => m \in abis'
    BY <1>1, <1>2, <2>1 DEF Stored
  <2>3. \A m \in setabi : m <= block.num - 1 => m \in abis'
    BY <1>1, <2>1 DEF Stored
  <2>4. QED
    BY <1>1, <1>3, <2>1, <2>2, <2>3 DEF DatabaseInv, Stored
<1>7. PreparedInv'
  BY <1>1, <1>3 DEF AbiInv, PreparedInv, Sound
<1>8. BlockInv'
  BY <1>1, <1>3 DEF AbiInv, BlockInv, Sound
<1>9. Processed' = Processed
  BY <1>1, <1>3 DEF Processed
<1>10. CacheInv'
  BY <1>1, <1>3, <1>9 DEF AbiInv, CacheInv, Sound, Newest
<1>11. PrepareFetchInv'
  BY <1>1, <1>9 DEF AbiInv, PrepareFetchInv, Sound, Newest
<1>12. ProcessFetchInv'
  BY <1>1 DEF AbiInv, ProcessFetchInv, BlockInv
<1>13. QED
  BY <1>1, <1>5, <1>6, <1>7, <1>8, <1>10, <1>11, <1>12, SameUsed DEF AbiInv

(* handleActionTrace or handleContractRow of a block without an item.      *)
LEMMA SkipItemStep ==
  ASSUME AbiInv, NEW item \in {"trace", "row"}, NEW next \in {"row", "done"},
         block.at = item, block' = [block EXCEPT !.at = next],
         UNCHANGED <<setabi, abis, abi, fetch, prepared, position, used>>
  PROVE  AbiInv'
<1>1. block \in [num : Nat, trace : Abis, row : Abis, at : Stages]
  BY DEF AbiInv, AbiTypeOK
<1>2. /\ block' \in [num : Nat, trace : Abis, row : Abis, at : Stages]
      /\ block'.num = block.num /\ block'.trace = block.trace /\ block'.row = block.row /\ block'.at = next
  BY <1>1 DEF Stages
<1>3. Processed' = Processed
  BY <1>1, <1>2 DEF Processed
<1>4. AbiTypeOK'
  BY <1>2 DEF AbiInv, AbiTypeOK
<1>5. DatabaseInv'
  BY <1>2 DEF AbiInv, DatabaseInv, Stored
<1>6. PreparedInv' /\ BlockInv'
  BY <1>2 DEF AbiInv, PreparedInv, BlockInv, Sound
<1>7. CacheInv'
  BY <1>2, <1>3 DEF AbiInv, CacheInv, Sound, Newest
<1>8. PrepareFetchInv'
  BY <1>3 DEF AbiInv, PrepareFetchInv, Sound, Newest
<1>9. ProcessFetchInv'
  BY <1>2 DEF AbiInv, ProcessFetchInv, Right, Sound, Newest
<1>10. QED
  BY <1>4, <1>5, <1>6, <1>7, <1>8, <1>9, SameUsed DEF AbiInv

LEMMA StartItemStep ==
  ASSUME AbiInv, NEW item \in {"trace", "row"}, block.at = item,
         fetch' = StartFetch("process", block.num, [of |-> item]),
         block' = [block EXCEPT !.at = "fetch"],
         UNCHANGED <<setabi, abis, abi, prepared, position, used>>
  PROVE  AbiInv'
<1>1. block \in [num : Nat, trace : Abis, row : Abis, at : Stages]
  BY DEF AbiInv, AbiTypeOK
<1>2. /\ block' \in [num : Nat, trace : Abis, row : Abis, at : Stages]
      /\ block'.num = block.num /\ block'.trace = block.trace /\ block'.row = block.row /\ block'.at = "fetch"
  BY <1>1 DEF Stages
<1>3. [of |-> item] \in FetchItems
  BY DEF FetchItems
<1> DEFINE f == fetch'["process"]
<1>4. /\ fetch' \in [{"prepare", "process"} -> {NoFetch} \cup Fetches]
      /\ fetch'["prepare"] = fetch["prepare"]
      /\ f \in Fetches /\ f.block = block.num
      /\ (f.at = "database" \/ (f.at = "done" /\ f.result = abi /\ Cached(block.num)))
  <2>1. "prepare" \in {"prepare", "process"} /\ "process" \in {"prepare", "process"} /\ "process" # "prepare"
        /\ block.num \in Nat
    BY <1>1
  <2>2. QED
    BY <1>3, <2>1, StartFetchFacts
<1>5. f # NoFetch
  BY <1>4 DEF NoFetch, Fetches
<1>6. Processed' = Processed
  BY <1>1, <1>2 DEF Processed
<1>7. AbiTypeOK'
  BY <1>2, <1>4 DEF AbiInv, AbiTypeOK
<1>8. DatabaseInv'
  BY <1>2 DEF AbiInv, DatabaseInv, Stored
<1>9. PreparedInv'
  BY <1>2, <1>4 DEF AbiInv, PreparedInv, Sound
<1>10. BlockInv'
  BY <1>2, <1>4, <1>5 DEF AbiInv, BlockInv, Sound
<1>11. CacheInv'
  BY <1>2, <1>6 DEF AbiInv, CacheInv, Sound, Newest
<1>12. PrepareFetchInv'
  BY <1>4, <1>6 DEF AbiInv, PrepareFetchInv, Sound, Newest
<1>13. ProcessFetchInv'
  <2>1. f.at = "done" => Right(f.result, block.num) /\ f.result # NoAbi
    BY <1>1, <1>4, CacheHit
  <2>2. QED
    BY <1>2, <1>4, <2>1 DEF ProcessFetchInv, Right, Sound, Newest
<1>14. QED
  BY <1>7, <1>8, <1>9, <1>10, <1>11, <1>12, <1>13, SameUsed DEF AbiInv

(* The newest ABI up to a block is the one AbiOf names.                    *)
LEMMA RightIsAbiOf ==
  ASSUME setabi \in SUBSET Nat, NEW n \in Nat, KnownAbi(n), NEW r \in Abis, Right(r, n)
  PROVE  r.block_num = AbiOf(n) /\ r.abi = AbiOf(n)
<1> DEFINE S == {m \in setabi : m <= n}
<1>1. S \in SUBSET Int /\ S # {} /\ (\A x \in S : x <= n) /\ n \in Int
  <2>1. PICK m \in setabi : m <= n
    BY DEF KnownAbi
  <2>2. m \in S
    BY <2>1
  <2>3. S \in SUBSET Int
    <3>1. \A x \in S : x \in Int
      OBVIOUS
    <3> HIDE DEF S
    <3>2. QED
      BY <3>1
  <2>4. \A x \in S : x <= n
    OBVIOUS
  <2> HIDE DEF S
  <2>5. QED
    BY <2>2, <2>3, <2>4
<1>2. Max(S) \in S /\ \A y \in S : Max(S) >= y
  <2> HIDE DEF S
  <2>1. QED
    BY <1>1, MaxFacts
<1>3. \A m \in S : m <= r.block_num
  BY DEF Right, Newest
<1>4. r.block_num >= 0 /\ r.block_num \in Int
  BY <1>1, <1>2, <1>3 DEF Abis
<1>5. r.block_num \in S /\ r.abi = r.block_num
  BY <1>4 DEF Right, Sound
<1>6. r.block_num = Max(S)
  BY <1>1, <1>2, <1>3, <1>5
<1>7. QED
  BY <1>5, <1>6 DEF AbiOf

LEMMA DeserializedStep ==
  ASSUME AbiInv, NEW item \in {"trace", "row"}, NEW next \in {"row", "done"}, Deserialized(item, next)
  PROVE  AbiInv'
<1> DEFINE found == fetch["process"].result
           json == block[item]
<1>1. /\ block.at = "fetch" /\ fetch["process"].at = "done"
      /\ used' = [block_num |-> block.num, abi |-> IF Outdated(json, found) THEN found.abi ELSE json.abi]
      /\ fetch' = [fetch EXCEPT !["process"] = NoFetch]
      /\ block' = [block EXCEPT !.at = next]
      /\ UNCHANGED <<setabi, abis, abi, prepared, position>>
  BY DEF Deserialized
<1>2. block \in [num : Nat, trace : Abis, row : Abis, at : Stages] /\ setabi \in SUBSET Nat
      /\ fetch \in [{"prepare", "process"} -> {NoFetch} \cup Fetches]
  BY DEF AbiInv, AbiTypeOK
<1>3. /\ block' \in [num : Nat, trace : Abis, row : Abis, at : Stages]
      /\ block'.num = block.num /\ block'.trace = block.trace /\ block'.row = block.row /\ block'.at = next
  BY <1>1, <1>2 DEF Stages
<1>4. fetch["process"] \in Fetches /\ fetch["process"] # NoFetch /\ found \in Abis
  BY <1>1, <1>2 DEF NoFetch, Fetches
<1>5. Right(found, block.num)
  BY <1>1, <1>4 DEF AbiInv, ProcessFetchInv
<1>6. json \in Abis /\ Sound(json)
  BY <1>2 DEF AbiInv, BlockInv
<1>7. /\ fetch' \in [{"prepare", "process"} -> {NoFetch} \cup Fetches]
      /\ fetch'["prepare"] = fetch["prepare"] /\ fetch'["process"] = NoFetch
  BY <1>1, <1>2
<1>8. Processed' = Processed
  BY <1>1, <1>2, <1>3 DEF Processed
<1>9. AbiTypeOK'
  <2>1. used' \in Abis
    BY <1>1, <1>2, <1>4, <1>6 DEF Abis
  <2>2. QED
    BY <1>1, <1>3, <1>7, <2>1 DEF AbiInv, AbiTypeOK
<1>10. DatabaseInv'
  BY <1>1, <1>3 DEF AbiInv, DatabaseInv, Stored
<1>11. PreparedInv'
  BY <1>1, <1>3, <1>7 DEF AbiInv, PreparedInv, Sound
<1>12. BlockInv'
  BY <1>1, <1>3, <1>7 DEF AbiInv, BlockInv, Sound
<1>13. CacheInv'
  BY <1>1, <1>3, <1>8 DEF AbiInv, CacheInv, Sound, Newest
<1>14. PrepareFetchInv'
  BY <1>1, <1>7, <1>8 DEF AbiInv, PrepareFetchInv, Sound, Newest
<1>15. ProcessFetchInv'
  BY <1>7 DEF ProcessFetchInv
<1>16. AbiOfBlock'
  <2>1. SUFFICES ASSUME KnownAbi(block.num)
                 PROVE  used'.abi = AbiOf(block.num)
    BY <1>1 DEF AbiOfBlock, KnownAbi, AbiOf
  <2>2. found.block_num = AbiOf(block.num) /\ found.abi = AbiOf(block.num)
    BY <1>2, <1>4, <1>5, <2>1, RightIsAbiOf
  <2>3. CASE Outdated(json, found)
    BY <1>1, <2>2, <2>3
  <2>4. CASE ~ Outdated(json, found)
    <3>1. json.block_num = found.block_num
      BY <2>4 DEF Outdated
    <3>2. \E m \in setabi : m <= found.block_num /\ m >= 0
      <4>1. PICK m \in setabi : m <= block.num
        BY <2>1 DEF KnownAbi
      <4>2. m <= found.block_num
        BY <1>5, <4>1, Zenon DEF Right, Newest
      <4>3. QED
        BY <1>2, <4>2
    <3>3. json.block_num >= 0
      BY <1>2, <1>4, <3>1, <3>2 DEF Abis
    <3>4. json.abi = json.block_num
      BY <1>6, <3>3 DEF Sound
    <3>5. used'.abi = json.abi
      BY <1>1, <2>4
    <3>6. QED
      BY <2>2, <3>1, <3>4, <3>5
  <2>5. QED
    BY <2>3, <2>4
<1>17. QED
  BY <1>9, <1>10, <1>11, <1>12, <1>13, <1>14, <1>15, <1>16 DEF AbiInv

LEMMA CommitBlocksStep ==
  ASSUME AbiInv, CommitBlocks
  PROVE  AbiInv'
<1>1. /\ block.at = "done" /\ position' = block.num
      /\ UNCHANGED <<setabi, abis, abi, fetch, prepared, block, used>>
  BY DEF CommitBlocks
<1>2. block.num \in Nat
  BY DEF AbiInv, AbiTypeOK
<1>3. AbiTypeOK'
  BY <1>1, <1>2 DEF AbiInv, AbiTypeOK
<1>4. DatabaseInv'
  BY <1>1, <1>2 DEF AbiInv, DatabaseInv, Stored
<1>5. PreparedInv' /\ BlockInv'
  BY <1>1 DEF AbiInv, PreparedInv, BlockInv, Sound
<1>6. Processed' = Processed
  BY <1>1 DEF Processed
<1>7. CacheInv'
  BY <1>1, <1>6 DEF AbiInv, CacheInv, Sound, Newest
<1>8. PrepareFetchInv' /\ ProcessFetchInv'
  BY <1>1, <1>6 DEF AbiInv, PrepareFetchInv, ProcessFetchInv, Sound, Newest, Right
<1>9. QED
  BY <1>1, <1>3, <1>4, <1>5, <1>7, <1>8, SameUsed DEF AbiInv

(* fetchAbi is answered. *)
LEMMA ReadAbiStep ==
  ASSUME AbiInv, NEW who \in {"prepare", "process"}, ReadAbi(who)
  PROVE  AbiInv'
<1> DEFINE n == fetch[who].block
           rows == {m \in abis : m <= n}
           answer == [block_num |-> Max(rows), abi |-> Max(rows)]
<1>1. /\ fetch[who].at = "database"
      /\ fetch' = [fetch EXCEPT ![who] =
           IF rows = {} THEN [@ EXCEPT !.at = "next"] ELSE [@ EXCEPT !.at = "answer", !.result = answer]]
      /\ UNCHANGED <<setabi, abis, abi, prepared, block, position, used>>
  BY DEF ReadAbi
<1>2. setabi \in SUBSET Nat /\ abis \in SUBSET setabi /\ block.num \in Nat /\ block.at \in Stages
      /\ fetch \in [{"prepare", "process"} -> {NoFetch} \cup Fetches]
  BY DEF AbiInv, AbiTypeOK
<1>3. fetch[who] \in Fetches /\ fetch[who] # NoFetch /\ n \in Nat
  BY <1>1, <1>2 DEF NoFetch, Fetches
<1> DEFINE f == fetch'[who]
<1>4. rows # {} => /\ Max(rows) \in abis /\ Max(rows) <= n /\ (\A m \in rows : m <= Max(rows))
                   /\ Max(rows) \in Nat /\ Max(rows) \in setabi
  <2>1. rows \in SUBSET Int /\ (\A m \in rows : m <= n) /\ n \in Int
    <3>1. \A m \in rows : m \in Int /\ m <= n
      BY <1>2
    <3>2. QED
      BY <1>3, <3>1
  <2> HIDE DEF rows
  <2>2. rows # {} => Max(rows) \in rows /\ \A m \in rows : Max(rows) >= m
    BY <2>1, MaxFacts
  <2> USE DEF rows
  <2>3. QED
    BY <1>2, <2>2
<1> HIDE DEF rows
<1>5. /\ f \in Fetches /\ f.block = n /\ f.item = fetch[who].item
      /\ \A w \in {"prepare", "process"} : w # who => fetch'[w] = fetch[w]
      /\ fetch' \in [{"prepare", "process"} -> {NoFetch} \cup Fetches]
      /\ IF rows = {} THEN f.at = "next" ELSE f.at = "answer" /\ f.result = answer
  <2>1. CASE rows = {}
    <3>1. f = [fetch[who] EXCEPT !.at = "next"]
      BY <1>1, <1>2, <2>1
    <3>2. f \in Fetches /\ f.block = n /\ f.item = fetch[who].item /\ f.at = "next"
      BY <1>3, <3>1 DEF Fetches
    <3>3. QED
      BY <1>1, <1>2, <2>1, <3>2
  <2>2. CASE rows # {}
    <3>1. f = [fetch[who] EXCEPT !.at = "answer", !.result = answer]
      BY <1>1, <1>2, <2>2
    <3>2. answer \in Abis
      BY <1>4, <2>2 DEF Abis
    <3>3. f \in Fetches /\ f.block = n /\ f.item = fetch[who].item /\ f.at = "answer" /\ f.result = answer
      BY <1>3, <3>1, <3>2 DEF Fetches
    <3>4. QED
      BY <1>1, <1>2, <2>2, <3>3
  <2>3. QED
    BY <2>1, <2>2
<1>6. f # NoFetch
  BY <1>5 DEF NoFetch, Fetches
(* All that is processed is in the rows. *)
<1>7. Processed <= n /\ (who = "process" => n = block.num) /\ (block.at # "insert" => Stored(Processed))
  <2>1. who = "process" => n = block.num /\ block.at = "fetch"
    BY <1>3 DEF AbiInv, BlockInv
  <2>2. who = "prepare" => n = block.num + Len(prepared) + 1 /\ Len(prepared) \in Nat
    BY <1>3 DEF AbiInv, PreparedInv, AbiTypeOK
  <2>3. Processed <= block.num
    BY <1>2 DEF Processed
  <2>4. Processed <= n
    <3>1. n >= block.num /\ Processed \in Int
      BY <1>2, <2>1, <2>2 DEF Processed
    <3>2. QED
      BY <1>2, <1>3, <2>3, <3>1
  <2>5. block.at # "insert" => Stored(Processed)
    BY <1>2 DEF AbiInv, DatabaseInv, Processed
  <2>6. QED
    BY <2>1, <2>4, <2>5
<1>8. Processed \in Int /\ (block.at = "insert" => abi # NoAbi)
  <2>1. Processed \in Int
    BY <1>2 DEF Processed
  <2>2. block.at = "insert" => abi.block_num >= 0
    BY <1>2 DEF AbiInv, CacheInv, AbiTypeOK, Abis
  <2>3. QED
    BY <2>1, <2>2 DEF NoAbi
<1>9. block.at # "insert" => \A m \in setabi : m <= Processed => m \in rows
  BY <1>2, <1>3, <1>7 DEF Stored, rows, Processed
<1>10. AbiTypeOK'
  BY <1>1, <1>5 DEF AbiInv, AbiTypeOK
<1>11. DatabaseInv'
  BY <1>1 DEF AbiInv, DatabaseInv, Stored
<1>12. PreparedInv'
  BY <1>1, <1>3, <1>5 DEF AbiInv, PreparedInv, Sound
<1>13. BlockInv'
  BY <1>1, <1>3, <1>5, <1>6 DEF AbiInv, BlockInv, Sound
<1>14. Processed' = Processed
  BY <1>1 DEF Processed
<1>15. CacheInv'
  BY <1>1, <1>14 DEF AbiInv, CacheInv, Sound, Newest
<1>16. f.at = "answer" => Sound(f.result) /\ f.result # NoAbi
  BY <1>4, <1>5 DEF Sound, NoAbi
<1>17. PrepareFetchInv'
  <2>1. CASE who = "prepare"
    <3>1. f.at = "next" /\ abi = NoAbi => \A m \in setabi : m > Processed
      <4>1. SUFFICES ASSUME f.at = "next", abi = NoAbi, NEW m \in setabi, m <= Processed
                     PROVE  FALSE
        <5>1. \A m \in setabi : m \in Int
          BY <1>2
        <5>2. Processed \in Int
          BY <1>8
        <5>3. \A m \in setabi : ~ (m <= Processed) => m > Processed
          BY <5>1, <5>2
        <5>4. QED
          BY <5>3, Zenon
      <4>2. rows = {}
        BY <1>5, <4>1
      <4>3. m \in rows
        BY <1>8, <1>9, <4>1
      <4>4. QED
        BY <4>2, <4>3
    <3>2. f.at = "answer" /\ abi = NoAbi => Newest(f.result, Processed)
      <4>1. SUFFICES ASSUME f.at = "answer", abi = NoAbi, NEW m \in setabi, m <= Processed
                     PROVE  m <= f.result.block_num
        BY DEF Newest
      <4>2. m \in rows
        BY <1>8, <1>9, <4>1
      <4>3. f.result.block_num = Max(rows) /\ rows # {}
        BY <1>5, <4>1
      <4>4. QED
        BY <1>4, <4>2, <4>3
    <3>3. f.at # "done"
      BY <1>5
    <3>4. QED
      BY <1>1, <1>14, <1>16, <2>1, <3>1, <3>2, <3>3 DEF PrepareFetchInv, Sound, Newest
  <2>2. CASE who # "prepare"
    BY <1>1, <1>5, <1>14, <2>2 DEF AbiInv, PrepareFetchInv, Sound, Newest
  <2>3. QED
    BY <2>1, <2>2
<1>18. ProcessFetchInv'
  <2>1. CASE who = "process"
    <3>1. block.at = "fetch" /\ n = block.num /\ Processed = block.num
      BY <1>3, <2>1 DEF AbiInv, BlockInv, Processed
    <3>2. f.at = "next" => \A m \in setabi : m > block.num
      <4>1. SUFFICES ASSUME f.at = "next", NEW m \in setabi, m <= block.num
                     PROVE  FALSE
        BY <1>2
      <4>2. rows = {} /\ m \in rows
        BY <1>5, <1>9, <3>1, <4>1
      <4>3. QED
        BY <4>2
    <3>3. f.at = "answer" => Right(f.result, block.num)
      <4>1. SUFFICES ASSUME f.at = "answer"
                     PROVE  Right(f.result, block.num)
        OBVIOUS
      <4>2. f.result.block_num = Max(rows) /\ rows # {}
        BY <1>5, <4>1
      <4>3. \A m \in setabi : m <= block.num => m <= f.result.block_num
        BY <1>4, <1>9, <3>1, <4>2
      <4>4. f.result.block_num <= block.num
        BY <1>4, <3>1, <4>2
      <4>5. QED
        BY <1>16, <4>1, <4>3, <4>4 DEF Right, Newest
    <3>4. f.at # "done"
      BY <1>5
    <3>5. QED
      BY <1>1, <1>16, <2>1, <3>2, <3>3, <3>4 DEF ProcessFetchInv, Right, Sound, Newest
  <2>2. CASE who # "process"
    BY <1>1, <1>5, <2>2 DEF AbiInv, ProcessFetchInv, Right, Sound, Newest
  <2>3. QED
    BY <2>1, <2>2
<1>19. QED
  BY <1>1, <1>10, <1>11, <1>12, <1>13, <1>15, <1>17, <1>18, SameUsed DEF AbiInv

(* fetchNextAbi is answered, which says nothing of the blocks so far.      *)
LEMMA ReadNextAbiStep ==
  ASSUME AbiInv, NEW who \in {"prepare", "process"}, ReadNextAbi(who)
  PROVE  AbiInv'
<1> DEFINE rows == {m \in abis : m > fetch[who].block}
           found == IF rows # {} THEN Min(rows) ELSE Max(setabi \cup {-1})
           answer == [block_num |-> -1, abi |-> found]
<1>1. /\ fetch[who].at = "next"
      /\ fetch' = [fetch EXCEPT ![who] = [@ EXCEPT !.at = "answer", !.result = answer]]
      /\ UNCHANGED <<setabi, abis, abi, prepared, block, position, used>>
  BY DEF ReadNextAbi
<1>2. setabi \in SUBSET (0 .. MaxBlock) /\ abis \in SUBSET setabi /\ MaxBlock \in Int /\ block.num \in Nat
      /\ fetch \in [{"prepare", "process"} -> {NoFetch} \cup Fetches]
  BY AbiCacheAssumption DEF AbiInv, AbiTypeOK
<1>3. fetch[who] \in Fetches /\ fetch[who] # NoFetch
  BY <1>1, <1>2 DEF NoFetch, Fetches
<1>4. found \in Int
  <2>1. CASE rows # {}
    <3>1. \A m \in rows : m \in Nat
      BY <1>2
    <3>2. Min(rows) \in rows
      <4> HIDE DEF rows
      <4>1. rows \in SUBSET Nat
        BY <3>1
      <4>2. QED
        BY <2>1, <4>1, MinFacts
    <3>3. QED
      BY <2>1, <3>1, <3>2
  <2>2. CASE rows = {}
    <3> DEFINE S == setabi \cup {-1}
    <3>1. \A m \in S : m \in Int /\ m <= MaxBlock
      BY <1>2, AbiCacheAssumption
    <3>2. S # {}
      OBVIOUS
    <3>3. Max(S) \in S
      <4> HIDE DEF S
      <4>1. S \in SUBSET Int
        BY <3>1
      <4>2. QED
        BY <1>2, <3>1, <3>2, <4>1, MaxFacts
    <3>4. QED
      BY <2>2, <3>1, <3>3
  <2>3. QED
    BY <2>1, <2>2
<1> HIDE DEF found
<1> DEFINE f == fetch'[who]
<1>5. /\ f \in Fetches /\ f.block = fetch[who].block /\ f.item = fetch[who].item
      /\ f.at = "answer" /\ f.result = answer
      /\ \A w \in {"prepare", "process"} : w # who => fetch'[w] = fetch[w]
      /\ fetch' \in [{"prepare", "process"} -> {NoFetch} \cup Fetches]
  <2>1. f = [fetch[who] EXCEPT !.at = "answer", !.result = answer]
    BY <1>1, <1>2
  <2>2. answer \in Abis
    BY <1>4 DEF Abis
  <2>3. f \in Fetches /\ f.block = fetch[who].block /\ f.item = fetch[who].item
        /\ f.at = "answer" /\ f.result = answer
    BY <1>3, <2>1, <2>2 DEF Fetches
  <2>4. QED
    BY <1>1, <1>2, <2>3
<1>6. f # NoFetch
  BY <1>5 DEF NoFetch, Fetches
<1>7. f.result.block_num = -1 /\ Sound(f.result) /\ f.result # NoAbi
  BY <1>5 DEF Sound, NoAbi
<1>8. Processed' = Processed /\ Processed \in Int
  BY <1>1, <1>2 DEF Processed
<1>9. AbiTypeOK'
  BY <1>1, <1>5 DEF AbiInv, AbiTypeOK
<1>10. DatabaseInv'
  BY <1>1 DEF AbiInv, DatabaseInv, Stored
<1>11. PreparedInv'
  BY <1>1, <1>3, <1>5 DEF AbiInv, PreparedInv, Sound
<1>12. BlockInv'
  BY <1>1, <1>3, <1>5, <1>6 DEF AbiInv, BlockInv, Sound
<1>13. CacheInv'
  BY <1>1, <1>8 DEF AbiInv, CacheInv, Sound, Newest
<1>14. PrepareFetchInv'
  <2>1. CASE who = "prepare"
    <3>1. abi = NoAbi => \A m \in setabi : m > Processed
      BY <1>1, <1>3, <2>1, Zenon DEF AbiInv, PrepareFetchInv
    <3>2. abi = NoAbi => Newest(f.result, Processed)
      BY <1>2, <1>8, <3>1 DEF Newest
    <3>3. QED
      BY <1>1, <1>5, <1>7, <1>8, <2>1, <3>2 DEF PrepareFetchInv, Sound, Newest
  <2>2. CASE who # "prepare"
    BY <1>1, <1>5, <1>8, <2>2 DEF AbiInv, PrepareFetchInv, Sound, Newest
  <2>3. QED
    BY <2>1, <2>2
<1>15. ProcessFetchInv'
  <2>1. CASE who = "process"
    <3>1. \A m \in setabi : m > block.num
      BY <1>1, <1>3, <2>1, Zenon DEF AbiInv, ProcessFetchInv
    <3>2. Right(f.result, block.num)
      BY <1>2, <1>7, <3>1 DEF Right, Newest
    <3>3. QED
      BY <1>1, <1>5, <1>7, <2>1, <3>2 DEF ProcessFetchInv, Right, Sound, Newest
  <2>2. CASE who # "process"
    BY <1>1, <1>5, <2>2 DEF AbiInv, ProcessFetchInv, Right, Sound, Newest
  <2>3. QED
    BY <2>1, <2>2
<1>16. QED
  BY <1>1, <1>9, <1>10, <1>11, <1>12, <1>13, <1>14, <1>15, SameUsed DEF AbiInv

(* The answer goes to the cache, unless that holds a newer one by now.     *)
LEMMA StoreAbiStep ==
  ASSUME AbiInv, NEW who \in {"prepare", "process"}, StoreAbi(who)
  PROVE  AbiInv'
<1> DEFINE r == fetch[who].result
           f == fetch'[who]
<1>1. /\ fetch[who].at = "answer"
      /\ fetch' = [fetch EXCEPT ![who] = [@ EXCEPT !.at = "done", !.result = r]]
      /\ abi' = IF Newer(r) THEN r ELSE abi
      /\ UNCHANGED <<setabi, abis, prepared, block, position, used>>
  BY DEF StoreAbi, Fetched
<1>2. setabi \in SUBSET Nat /\ block.num \in Nat /\ abi \in Abis
      /\ fetch \in [{"prepare", "process"} -> {NoFetch} \cup Fetches]
  BY DEF AbiInv, AbiTypeOK
<1>3. fetch[who] \in Fetches /\ fetch[who] # NoFetch /\ r \in Abis
  BY <1>1, <1>2 DEF NoFetch, Fetches
<1>4. /\ f \in Fetches /\ f.block = fetch[who].block /\ f.item = fetch[who].item
      /\ f.at = "done" /\ f.result = r
      /\ \A w \in {"prepare", "process"} : w # who => fetch'[w] = fetch[w]
      /\ fetch' \in [{"prepare", "process"} -> {NoFetch} \cup Fetches]
  <2>1. f = [fetch[who] EXCEPT !.at = "done", !.result = r]
    BY <1>1, <1>2
  <2>2. f \in Fetches /\ f.block = fetch[who].block /\ f.item = fetch[who].item /\ f.at = "done" /\ f.result = r
    BY <1>3, <2>1 DEF Fetches
  <2>3. QED
    BY <1>1, <1>2, <2>2
<1>5. f # NoFetch
  BY <1>4 DEF NoFetch, Fetches
<1>6. Processed' = Processed /\ Processed \in Int
  BY <1>1, <1>2 DEF Processed
<1>7. Sound(r) /\ r # NoAbi
  <2>1. CASE who = "prepare"
    BY <1>1, <1>3, <2>1, Zenon DEF AbiInv, PrepareFetchInv
  <2>2. CASE who = "process"
    BY <1>1, <1>3, <2>2, Zenon DEF AbiInv, ProcessFetchInv, Right
  <2>3. QED
    BY <2>1, <2>2
<1>8. abi = NoAbi => Newest(r, Processed)
  <2>1. CASE who = "prepare"
    BY <1>1, <1>3, <2>1, Zenon DEF AbiInv, PrepareFetchInv
  <2>2. CASE who = "process"
    <3>1. Right(r, block.num)
      BY <1>1, <1>3, <2>2, Zenon DEF AbiInv, ProcessFetchInv
    <3>2. block.at = "fetch"
      BY <1>3, <2>2 DEF AbiInv, BlockInv
    <3>3. QED
      BY <3>1, <3>2 DEF Right, Processed
  <2>3. QED
    BY <2>1, <2>2
<1>9. abi' \in Abis /\ abi' # NoAbi /\ Sound(abi') /\ Newest(abi', Processed)
      /\ (abi # NoAbi => abi'.block_num >= abi.block_num)
  <2>1. CASE abi = NoAbi
    BY <1>1, <1>3, <1>7, <1>8, <2>1 DEF Newer
  <2>2. CASE abi # NoAbi /\ abi.block_num <= r.block_num
    <3>1. abi' = r
      BY <1>1, <2>2 DEF Newer
    <3>2. \A m \in setabi : m <= Processed => m <= r.block_num
      BY <1>2, <1>3, <2>2 DEF AbiInv, CacheInv, Newest, Abis
    <3>3. r.block_num >= abi.block_num
      BY <1>2, <1>3, <2>2 DEF Abis
    <3>4. QED
      BY <1>3, <1>7, <3>1, <3>2, <3>3 DEF Newest
  <2>3. CASE abi # NoAbi /\ ~ (abi.block_num <= r.block_num)
    <3>1. abi' = abi
      BY <1>1, <2>3 DEF Newer
    <3>2. abi'.block_num >= abi.block_num
      BY <1>2, <3>1 DEF Abis
    <3>3. QED
      BY <1>2, <2>3, <3>1, <3>2 DEF AbiInv, CacheInv
  <2>4. QED
    BY <2>1, <2>2, <2>3
<1>10. AbiTypeOK'
  BY <1>1, <1>4, <1>9 DEF AbiInv, AbiTypeOK
<1>11. DatabaseInv'
  BY <1>1 DEF AbiInv, DatabaseInv, Stored
<1>12. PreparedInv'
  BY <1>1, <1>3, <1>4 DEF AbiInv, PreparedInv, Sound
<1>13. BlockInv'
  <2>1. BlockInv
    BY DEF AbiInv
  <2>2. (fetch'["process"] # NoFetch) <=> (fetch["process"] # NoFetch)
    BY <1>3, <1>4, <1>5
  <2>3. fetch'["process"].block = fetch["process"].block
    BY <1>4
  <2>4. QED
    BY <1>1, <2>1, <2>2, <2>3 DEF BlockInv, Sound
<1>14. CacheInv'
  <2>1. block.at = "insert" => abi'.block_num >= block.num
    <3>1. block.at = "insert" => abi # NoAbi /\ abi.block_num >= block.num
      BY <1>2 DEF AbiInv, CacheInv, NoAbi
    <3>2. abi.block_num \in Int /\ abi'.block_num \in Int
      BY <1>2, <1>9 DEF Abis
    <3>3. QED
      BY <1>2, <1>9, <3>1, <3>2
  <2>2. QED
    BY <1>1, <1>6, <1>9, <2>1 DEF CacheInv, Sound, Newest
<1>15. PrepareFetchInv'
  <2>1. CASE who = "prepare"
    BY <1>1, <1>4, <1>7, <2>1 DEF PrepareFetchInv, Sound
  <2>2. CASE who # "prepare"
    BY <1>1, <1>4, <1>9, <2>2 DEF AbiInv, PrepareFetchInv, Sound
  <2>3. QED
    BY <2>1, <2>2
<1>16. ProcessFetchInv'
  <2>1. CASE who = "process"
    <3>1. Right(r, block.num)
      BY <1>1, <1>3, <2>1, Zenon DEF AbiInv, ProcessFetchInv
    <3>2. QED
      BY <1>1, <1>4, <1>7, <2>1, <3>1 DEF ProcessFetchInv, Right, Sound, Newest
  <2>2. CASE who # "process"
    BY <1>1, <1>4, <2>2 DEF AbiInv, ProcessFetchInv, Right, Sound, Newest
  <2>3. QED
    BY <2>1, <2>2
<1>17. QED
  BY <1>1, <1>10, <1>11, <1>12, <1>13, <1>14, <1>15, <1>16, SameUsed DEF AbiInv

LEMMA ReaderStepKeeps ==
  ASSUME AbiInv, ReaderStep
  PROVE  AbiInv'
<1>1. CASE PrepareActionTraces
  BY <1>1, PrepareTracesStep
<1>2. CASE PrepareContractRows
  BY <1>2, PrepareRowsStep
<1>3. CASE Consumer
  BY <1>3, ConsumerStep
<1>4. CASE TakeBlock
  BY <1>4, TakeBlockStep
<1>5. CASE HandleAbiUpdate
  BY <1>5, HandleAbiUpdateStep
<1>6. CASE InsertAbi
  BY <1>6, InsertAbiStep
<1>7. ASSUME NEW item \in {"trace", "row"}, NEW next \in {"row", "done"},
             HandleItem(item, next) \/ Deserialized(item, next)
      PROVE  AbiInv'
  <2>1. CASE Deserialized(item, next)
    BY <2>1, DeserializedStep
  <2>2. CASE HandleItem(item, next)
    <3>1. block.at = item /\ UNCHANGED <<setabi, abis, abi, prepared, position, used>>
      BY <2>2 DEF HandleItem
    <3>2. CASE fetch' = StartFetch("process", block.num, [of |-> item]) /\ block' = [block EXCEPT !.at = "fetch"]
      BY <3>1, <3>2, StartItemStep
    <3>3. CASE block' = [block EXCEPT !.at = next] /\ UNCHANGED fetch
      BY <3>1, <3>3, SkipItemStep
    <3>4. QED
      BY <2>2, <3>2, <3>3 DEF HandleItem
  <2>3. QED
    BY <1>7, <2>1, <2>2
<1>8. CASE HandleActionTrace
  BY <1>7, <1>8 DEF HandleActionTrace
<1>9. CASE HandleContractRow
  BY <1>7, <1>9 DEF HandleContractRow
<1>10. CASE CommitBlocks
  BY <1>10, CommitBlocksStep
<1>11. CASE FetchAbi
  <2>1. PICK who \in {"prepare", "process"} : ReadAbi(who) \/ ReadNextAbi(who) \/ StoreAbi(who)
    BY <1>11 DEF FetchAbi
  <2>2. CASE ReadAbi(who)
    BY <2>2, ReadAbiStep
  <2>3. CASE ReadNextAbi(who)
    BY <2>3, ReadNextAbiStep
  <2>4. CASE StoreAbi(who)
    BY <2>4, StoreAbiStep
  <2>5. QED
    BY <2>1, <2>2, <2>3, <2>4
<1>12. QED
  BY <1>1, <1>2, <1>3, <1>4, <1>5, <1>6, <1>8, <1>9, <1>10, <1>11 DEF ReaderStep

LEMMA AtRest ==
  ASSUME AbiInv, UNCHANGED abiVars
  PROVE  AbiInv'
BY DEF AbiInv, abiVars, AbiTypeOK, DatabaseInv, PreparedInv, BlockInv, CacheInv, PrepareFetchInv,
       ProcessFetchInv, AbiOfBlock, Sound, Newest, Right, Stored, Processed, KnownAbi, AbiOf

-----------------------------------------------------------------------------

(* Only the reader, and the start of a new worker, touch its variables;    *)
(* every other part of the filler leaves them alone.                       *)
LEMMA WorkerStep ==
  ASSUME [Next]_vars
  PROVE  ReaderStep \/ RestartReader \/ UNCHANGED abiVars
<1>1. CASE UNCHANGED vars
  BY <1>1 DEF vars
<1>2. CASE Upgrade \/ StartWorker
  BY <1>2 DEF Upgrade, StartWorker
<1>3. CASE StartFiller
  BY <1>3 DEF StartFiller
<1>4. CASE Die \/ (focus = "watchdog" /\ StartFails)
  BY <1>4 DEF Die, MasterDies, StartFails
<1>5. CASE JobPulse \/ \E j \in JobSet : Job(j)
  BY <1>5 DEF JobPulse, Job
<1>6. CASE ListService \/ \E p \in Polls : ListPoll(p)
  BY <1>6 DEF ListService, ListPoll
<1>7. CASE Read
  BY <1>7 DEF Read
<1>8. CASE Blocks \/ Watch
  BY <1>8 DEF Blocks, Watch, Failure, MasterDies
<1>9. QED
  BY <1>1, <1>2, <1>3, <1>4, <1>5, <1>6, <1>7, <1>8 DEF Next

(* Database, cache, prepared blocks and fetches always agree on the ABIs   *)
(* (AbiInv above): whoever asks for the ABI of a block in process is told  *)
(* the newest one that was set up to it.                                   *)
THEOREM AbisAreCurrent == Spec => []AbiInv
<1>1. Init => AbiInv
  BY InitialAbis DEF Init
<1>2. AbiInv /\ [Next]_vars => AbiInv'
  BY WorkerStep, ReaderStepKeeps, Restart, AtRest
<1>3. QED
  BY <1>1, <1>2, PTL DEF Spec

(* handleActionTrace and handleContractRow give the handlers what was      *)
(* read with the ABI of the block, if that ABI was ever seen: for any      *)
(* number of blocks and of setabi among them, for any size of dsQueue, and *)
(* whenever the worker was stopped and started again.                      *)
THEOREM AbiOfBlockTheorem == Spec => []AbiOfBlock
<1>1. AbiInv => AbiOfBlock
  BY DEF AbiInv
<1>2. QED
  BY <1>1, AbisAreCurrent, PTL

-----------------------------------------------------------------------------
(* Versions and their lists *)

Numbers == [1..3 -> Nat]

LEMMA CompareIs ==
  ASSUME NEW v \in Numbers, NEW w \in Numbers
  PROVE  CompareVersionString(v, w) = IF v[1] # w[1] THEN v[1] - w[1]
                                      ELSE IF v[2] # w[2] THEN v[2] - w[2] ELSE v[3] - w[3]
<1> DEFINE P(i) == i \in DOMAIN v /\ v[i] # w[i] /\ \A k \in 1..(i - 1) : v[k] = w[k]
           c == CHOOSE i : P(i)
<1>1. DOMAIN v = 1..3 /\ DOMAIN w = 1..3 /\ \A i \in 1..3 : v[i] \in Nat /\ w[i] \in Nat
  BY DEF Numbers
<1>2. CASE v = w
  BY <1>1, <1>2 DEF CompareVersionString
<1>3. CASE v # w
  <2>1. CompareVersionString(v, w) = v[c] - w[c]
    BY <1>3 DEF CompareVersionString
  <2>2. v[1] # w[1] \/ v[2] # w[2] \/ v[3] # w[3]
    <3> SUFFICES ASSUME v[1] = w[1], v[2] = w[2], v[3] = w[3]
                 PROVE  v = w
      BY <1>3
    <3>1. \A i \in 1..3 : v[i] = w[i]
      OBVIOUS
    <3> QED
      BY <3>1 DEF Numbers
  <2>3. CASE v[1] # w[1]
    <3>1. P(1)
      BY <1>1, <2>3
    <3>2. \A j : P(j) => j = 1
      <4> SUFFICES ASSUME NEW j, P(j), j # 1
                   PROVE  FALSE
        OBVIOUS
      <4>1. 1 \in 1..(j - 1)
        BY <1>1
      <4> QED
        BY <2>3, <4>1
    <3> HIDE DEF P
    <3>3. c = 1
      BY <3>1, <3>2
    <3> HIDE DEF c
    <3> QED
      BY <2>1, <2>3, <3>3
  <2>4. CASE v[1] = w[1] /\ v[2] # w[2]
    <3>1. P(2)
      <4>1. \A k \in 1..(2 - 1) : k = 1
        OBVIOUS
      <4> QED
        BY <1>1, <2>4, <4>1
    <3>2. \A j : P(j) => j = 2
      <4> SUFFICES ASSUME NEW j, P(j), j # 2
                   PROVE  FALSE
        OBVIOUS
      <4>1. j = 1 \/ 2 \in 1..(j - 1)
        BY <1>1
      <4> QED
        BY <2>4, <4>1
    <3> HIDE DEF P
    <3>3. c = 2
      BY <3>1, <3>2
    <3> HIDE DEF c
    <3> QED
      BY <2>1, <2>4, <3>3
  <2>5. CASE v[1] = w[1] /\ v[2] = w[2] /\ v[3] # w[3]
    <3>1. P(3)
      <4>1. \A k \in 1..(3 - 1) : k = 1 \/ k = 2
        OBVIOUS
      <4> QED
        BY <1>1, <2>5, <4>1
    <3>2. \A j : P(j) => j = 3
      BY <1>1, <2>5
    <3> HIDE DEF P
    <3>3. c = 3
      BY <3>1, <3>2
    <3> HIDE DEF c
    <3> QED
      BY <2>1, <2>5, <3>3
  <2> QED
    BY <2>2, <2>3, <2>4, <2>5
<1> QED
  BY <1>2, <1>3

(* compareVersionString orders versions. *)
LEMMA VersionsAreOrdered ==
  ASSUME NEW u \in Numbers, NEW v \in Numbers, NEW w \in Numbers
  PROVE  /\ CompareVersionString(v, w) \in Int
         /\ CompareVersionString(v, v) <= 0
         /\ CompareVersionString(v, w) < 0 <=> ~ (CompareVersionString(w, v) <= 0)
         /\ CompareVersionString(v, w) > 0 <=> ~ (CompareVersionString(v, w) <= 0)
         /\ CompareVersionString(v, w) <= 0 /\ CompareVersionString(w, v) <= 0 => v = w
         /\ CompareVersionString(u, v) <= 0 /\ CompareVersionString(v, w) <= 0 =>
              CompareVersionString(u, w) <= 0
<1>1. /\ u[1] \in Nat /\ u[2] \in Nat /\ u[3] \in Nat
      /\ v[1] \in Nat /\ v[2] \in Nat /\ v[3] \in Nat
      /\ w[1] \in Nat /\ w[2] \in Nat /\ w[3] \in Nat
  BY DEF Numbers
<1>2. v[1] = w[1] /\ v[2] = w[2] /\ v[3] = w[3] => v = w
  <2> SUFFICES ASSUME v[1] = w[1], v[2] = w[2], v[3] = w[3]
               PROVE  v = w
    OBVIOUS
  <2>1. \A i \in 1..3 : v[i] = w[i]
    OBVIOUS
  <2> QED
    BY <2>1 DEF Numbers
<1>3. /\ CompareVersionString(v, w) = IF v[1] # w[1] THEN v[1] - w[1]
                                      ELSE IF v[2] # w[2] THEN v[2] - w[2] ELSE v[3] - w[3]
      /\ CompareVersionString(w, v) = IF w[1] # v[1] THEN w[1] - v[1]
                                      ELSE IF w[2] # v[2] THEN w[2] - v[2] ELSE w[3] - v[3]
      /\ CompareVersionString(u, v) = IF u[1] # v[1] THEN u[1] - v[1]
                                      ELSE IF u[2] # v[2] THEN u[2] - v[2] ELSE u[3] - v[3]
      /\ CompareVersionString(u, w) = IF u[1] # w[1] THEN u[1] - w[1]
                                      ELSE IF u[2] # w[2] THEN u[2] - w[2] ELSE u[3] - w[3]
      /\ CompareVersionString(v, v) = 0
  BY <1>1, CompareIs
<1>4. CompareVersionString(v, w) \in Int
  BY <1>1, <1>3
<1>5. CompareVersionString(v, w) < 0 <=> ~ (CompareVersionString(w, v) <= 0)
  BY <1>1, <1>3
<1>6. CompareVersionString(v, w) > 0 <=> ~ (CompareVersionString(v, w) <= 0)
  BY <1>4
<1>7. CompareVersionString(v, w) <= 0 /\ CompareVersionString(w, v) <= 0 => v = w
  BY <1>1, <1>2, <1>3
<1>8. CompareVersionString(u, v) <= 0 /\ CompareVersionString(v, w) <= 0 =>
        CompareVersionString(u, w) <= 0
  BY <1>1, <1>3
<1> QED
  BY <1>3, <1>4, <1>5, <1>6, <1>7, <1>8

LEMMA VersionNumbers ==
  /\ FirstVersion \in Numbers
  /\ \A S \in SUBSET Versions : IsFiniteSet(S) /\ Cardinality(S) \in Nat /\ \A v \in S : v \in Numbers
<1>1. FirstVersion \in Numbers
  BY DEF FirstVersion, Numbers
<1>2. IsFiniteSet(Versions) /\ \A v \in Versions : v \in Numbers
  BY UpgradeDbAssumption DEF Numbers
<1> QED
  BY <1>1, <1>2, FS_Subset, FS_CardinalityType

LEMMA PlaceGrows ==
  ASSUME NEW S \in SUBSET Versions, NEW v \in Numbers, NEW w \in S, CompareVersionString(v, w) < 0
  PROVE  Place(S, v) < Place(S, w) /\ Place(S, v) \in Nat /\ Place(S, w) \in Nat
<1>1. IsFiniteSet(S) /\ w \in Numbers /\ \A x \in S : x \in Numbers
  BY VersionNumbers
<1>2. UpTo(S, v) \subseteq UpTo(S, w)
  <2> SUFFICES ASSUME NEW x \in S, CompareVersionString(x, v) <= 0
               PROVE  CompareVersionString(x, w) <= 0
    BY DEF UpTo
  <2>1. x \in Numbers /\ CompareVersionString(v, w) \in Int
    BY <1>1, VersionsAreOrdered
  <2>2. CompareVersionString(v, w) <= 0
    BY <2>1
  <2> QED
    BY <1>1, <2>1, <2>2, VersionsAreOrdered
<1>3. w \in UpTo(S, w) /\ w \notin UpTo(S, v)
  BY <1>1, VersionsAreOrdered DEF UpTo
<1>4. IsFiniteSet(UpTo(S, w)) /\ IsFiniteSet(UpTo(S, v))
  <2>1. UpTo(S, w) \in SUBSET S /\ UpTo(S, v) \in SUBSET S
    BY DEF UpTo
  <2> QED
    BY <1>1, <2>1, FS_Subset
<1>5. /\ Cardinality(UpTo(S, v)) \in Nat /\ Cardinality(UpTo(S, w)) \in Nat
      /\ Cardinality(UpTo(S, v)) <= Cardinality(UpTo(S, w))
      /\ Cardinality(UpTo(S, v)) # Cardinality(UpTo(S, w))
  BY <1>2, <1>3, <1>4, FS_Subset, FS_CardinalityType
<1> QED
  BY <1>5 DEF Place

(* The list has each version at its place. *)
LEMMA SortedFacts ==
  ASSUME NEW S \in SUBSET Versions
  PROVE  /\ IsFiniteSet(S) /\ Cardinality(S) \in Nat
         /\ Sorted(S) \in [1..Cardinality(S) -> S] /\ Sorted(S) \in Seq(Versions)
         /\ Len(Sorted(S)) = Cardinality(S) /\ DOMAIN Sorted(S) = 1..Cardinality(S)
         /\ \A i \in 1..Cardinality(S) : Place(S, Sorted(S)[i]) = i
         /\ \A v \in S : Place(S, v) \in 1..Cardinality(S) /\ Sorted(S)[Place(S, v)] = v
<1> DEFINE n == Cardinality(S)
<1>1. IsFiniteSet(S) /\ n \in Nat /\ \A v \in S : v \in Numbers
  BY VersionNumbers
<1>2. ASSUME NEW v \in S
      PROVE  Place(S, v) \in 1..n
  <2>1. UpTo(S, v) \in SUBSET S
    BY DEF UpTo
  <2>2. v \in UpTo(S, v)
    BY <1>1, VersionsAreOrdered DEF UpTo
  <2>3. IsFiniteSet(UpTo(S, v)) /\ Place(S, v) <= n
    BY <1>1, <2>1, FS_Subset DEF Place
  <2>4. Place(S, v) \in Nat /\ Place(S, v) # 0
    BY <2>2, <2>3, FS_CardinalityType, FS_EmptySet DEF Place
  <2> QED
    BY <1>1, <2>3, <2>4
<1>3. \A v, w \in S : Place(S, v) = Place(S, w) => v = w
  <2> SUFFICES ASSUME NEW v \in S, NEW w \in S, Place(S, v) = Place(S, w), v # w
               PROVE  FALSE
    OBVIOUS
  <2>1. v \in Numbers /\ w \in Numbers
    BY <1>1
  <2>2. CompareVersionString(v, w) < 0 \/ CompareVersionString(w, v) < 0
    BY <2>1, VersionsAreOrdered
  <2>3. Place(S, v) < Place(S, w) \/ Place(S, w) < Place(S, v)
    BY <2>1, <2>2, PlaceGrows
  <2> QED
    BY <1>2, <2>3
<1> DEFINE f == [v \in S |-> Place(S, v)]
<1>4. f \in Injection(S, 1..n)
  BY <1>2, <1>3 DEF Injection, IsInjective
<1>5. f \in Surjection(S, 1..n)
  <2>1. IsFiniteSet(1..n) /\ Cardinality(1..n) = n
    BY <1>1, FS_Interval
  <2> HIDE DEF f
  <2> QED
    BY <1>4, <2>1, FS_Injection
<1>6. \A i \in 1..n : \E v \in S : Place(S, v) = i
  BY <1>5 DEF Surjection
<1>7. \A i \in 1..n : Sorted(S)[i] \in S /\ Place(S, Sorted(S)[i]) = i
  <2> TAKE i \in 1..n
  <2>1. Sorted(S)[i] = CHOOSE v \in S : Place(S, v) = i
    BY DEF Sorted
  <2> QED
    BY <1>6, <2>1
<1>8. Sorted(S) \in [1..n -> S]
  <2>1. Sorted(S) = [i \in 1..n |-> Sorted(S)[i]]
    BY DEF Sorted
  <2> QED
    BY <1>7, <2>1
<1>9. \A v \in S : Sorted(S)[Place(S, v)] = v
  BY <1>2, <1>3, <1>7
<1>10. Sorted(S) \in Seq(Versions) /\ Len(Sorted(S)) = n /\ DOMAIN Sorted(S) = 1..n
  <2>1. Sorted(S) \in [1..n -> Versions]
    BY <1>8
  <2>2. Sorted(S) \in Seq(Versions)
    BY <1>1, <2>1
  <2> QED
    BY <1>1, <2>1, <2>2, LenProperties
<1> QED
  BY <1>1, <1>2, <1>7, <1>8, <1>9, <1>10

LEMMA SameLists ==
  ASSUME NEW X, NEW n \in Nat, NEW s \in [1..n -> X], NEW t \in [1..n -> X],
         \A i \in 1..n : s[i] = t[i]
  PROVE  s = t
OBVIOUS

LEMMA AppendIs ==
  ASSUME NEW X, NEW s \in Seq(X), NEW e \in X, NEW n \in Nat, Len(s) = n
  PROVE  /\ Append(s, e) \in [1..(n + 1) -> X]
         /\ \A i \in 1..n : Append(s, e)[i] = s[i]
         /\ Append(s, e)[n + 1] = e
<1>1. /\ Append(s, e) \in Seq(X) /\ Len(Append(s, e)) = n + 1
      /\ \A i \in 1..n : Append(s, e)[i] = s[i]
      /\ Append(s, e)[n + 1] = e
  BY AppendProperties
<1> QED
  BY <1>1, LenProperties

LEMMA TailIs ==
  ASSUME NEW X, NEW s \in Seq(X), NEW n \in Nat, Len(s) = n + 1
  PROVE  /\ Tail(s) \in [1..n -> X]
         /\ \A i \in 1..n : Tail(s)[i] = s[i + 1]
<1>1. s # <<>>
  BY EmptySeq
<1>2. /\ Tail(s) \in Seq(X) /\ Len(Tail(s)) = Len(s) - 1
      /\ \A i \in 1..Len(Tail(s)) : Tail(s)[i] = s[i + 1]
  BY <1>1, HeadTailProperties
<1>3. Len(Tail(s)) = n
  BY <1>2
<1> QED
  BY <1>2, <1>3, LenProperties

(* A newer version comes last. *)
LEMMA SortedAppend ==
  ASSUME NEW S \in SUBSET Versions, NEW n \in Versions, n \notin S,
         \A v \in S : CompareVersionString(n, v) > 0
  PROVE  Sorted(S \cup {n}) = Append(Sorted(S), n)
<1> DEFINE T == S \cup {n}
           c == Cardinality(S)
<1>1. T \in SUBSET Versions /\ n \in T
  OBVIOUS
<1>2. /\ IsFiniteSet(S) /\ c \in Nat
      /\ Sorted(S) \in [1..c -> S] /\ Sorted(S) \in Seq(Versions)
      /\ Len(Sorted(S)) = c /\ DOMAIN Sorted(S) = 1..c
      /\ \A i \in 1..c : Place(S, Sorted(S)[i]) = i
  BY SortedFacts
<1>3. Cardinality(T) = c + 1
  BY <1>2, FS_AddElement
<1>4. /\ Sorted(T) \in [1..(c + 1) -> T]
      /\ \A v \in T : Sorted(T)[Place(T, v)] = v
  <2> HIDE DEF T
  <2> QED
    BY <1>1, <1>3, SortedFacts
<1>5. \A v \in T : v \in Numbers
  BY <1>1, VersionNumbers
<1>6. \A v \in S : Place(T, v) = Place(S, v)
  <2> TAKE v \in S
  <2>1. ~ (CompareVersionString(n, v) <= 0)
    BY <1>5, VersionsAreOrdered
  <2>2. UpTo(T, v) = UpTo(S, v)
    BY <2>1 DEF UpTo
  <2> QED
    BY <2>2 DEF Place
<1>7. Place(T, n) = c + 1
  <2>1. \A v \in S : CompareVersionString(v, n) <= 0
    <3> TAKE v \in S
    <3>1. v \in Numbers /\ n \in Numbers
      BY <1>5
    <3>2. ~ (CompareVersionString(n, v) <= 0)
      BY <3>1, VersionsAreOrdered
    <3>3. CompareVersionString(v, n) < 0 /\ CompareVersionString(v, n) \in Int
      BY <3>1, <3>2, VersionsAreOrdered
    <3> QED
      BY <3>3
  <2>2. CompareVersionString(n, n) <= 0
    BY <1>5, VersionsAreOrdered
  <2>3. UpTo(T, n) = T
    BY <2>1, <2>2 DEF UpTo
  <2> QED
    BY <1>3, <2>3 DEF Place
<1>8. \A i \in 1..c : Sorted(T)[i] = Sorted(S)[i]
  <2> TAKE i \in 1..c
  <2>1. Sorted(S)[i] \in S /\ Place(S, Sorted(S)[i]) = i
    BY <1>2
  <2>2. Place(T, Sorted(S)[i]) = i /\ Sorted(S)[i] \in T
    BY <1>6, <2>1
  <2> QED
    BY <1>4, <2>2
<1>9. Sorted(T)[c + 1] = n
  BY <1>4, <1>7
<1> HIDE DEF T
<1> DEFINE s == Sorted(S)
           t == Sorted(T)
           a == Append(s, n)
<1>10. /\ a \in [1..(c + 1) -> Versions]
       /\ \A i \in 1..c : a[i] = s[i]
       /\ a[c + 1] = n
  <2>1. s \in Seq(Versions) /\ c \in Nat /\ Len(s) = c
    BY <1>2
  <2> HIDE DEF s, c
  <2> QED
    BY <2>1, AppendIs
<1>11. t \in [1..(c + 1) -> Versions] /\ (c + 1) \in Nat
  BY <1>1, <1>2, <1>4
<1>12. t = a
  <2>1. (\A i \in 1..c : t[i] = s[i]) /\ t[c + 1] = n /\ c \in Nat
    BY <1>2, <1>8, <1>9
  <2> HIDE DEF s, t, a, c
  <2>2. \A i \in 1..(c + 1) : i \in 1..c \/ i = c + 1
    BY <2>1
  <2>3. \A i \in 1..(c + 1) : t[i] = a[i]
    BY <1>10, <2>1, <2>2
  <2> DEFINE d == c + 1
  <2>4. d \in Nat /\ t \in [1..d -> Versions] /\ a \in [1..d -> Versions] /\ \A i \in 1..d : t[i] = a[i]
    BY <1>10, <1>11, <2>3
  <2> HIDE DEF d
  <2> QED
    BY <2>4, SameLists
<1> QED
  BY <1>12 DEF T

(* The oldest version comes first. *)
LEMMA SortedTail ==
  ASSUME NEW S \in SUBSET Versions, NEW n \in S, \A v \in S : CompareVersionString(n, v) <= 0
  PROVE  Tail(Sorted(S)) = Sorted(S \ {n})
<1> DEFINE R == S \ {n}
           c == Cardinality(R)
<1>1. R \in SUBSET Versions
  OBVIOUS
<1>2. /\ IsFiniteSet(R) /\ c \in Nat
      /\ Sorted(R) \in [1..c -> R] /\ Sorted(R) \in Seq(Versions)
      /\ Len(Sorted(R)) = c
      /\ \A i \in 1..c : Place(R, Sorted(R)[i]) = i
  <2> HIDE DEF R
  <2> QED
    BY <1>1, SortedFacts
<1>3. Cardinality(S) = c + 1
  <2>1. IsFiniteSet(S) /\ Cardinality(S) \in Nat
    BY SortedFacts
  <2>2. c = Cardinality(S) - 1
    BY <2>1, FS_RemoveElement
  <2> QED
    BY <2>1, <2>2
<1>4. /\ Sorted(S) \in Seq(Versions) /\ Len(Sorted(S)) = c + 1
      /\ \A v \in S : Sorted(S)[Place(S, v)] = v
  BY <1>3, SortedFacts
<1>5. \A v \in R : Place(S, v) = Place(R, v) + 1
  <2> TAKE v \in R
  <2>1. UpTo(S, v) = UpTo(R, v) \cup {n} /\ n \notin UpTo(R, v)
    BY DEF UpTo
  <2>2. UpTo(R, v) \in SUBSET R
    BY DEF UpTo
  <2>3. IsFiniteSet(UpTo(R, v))
    <3> HIDE DEF R
    <3> QED
      BY <1>2, <2>2, FS_Subset
  <2>4. Cardinality(UpTo(R, v) \cup {n}) = Cardinality(UpTo(R, v)) + 1
    BY <2>1, <2>3, FS_AddElement
  <2> QED
    BY <2>1, <2>4 DEF Place
<1>6. Tail(Sorted(S)) \in [1..c -> Versions]
      /\ \A i \in 1..c : Tail(Sorted(S))[i] = Sorted(S)[i + 1]
  <2> DEFINE s == Sorted(S)
  <2>1. s \in Seq(Versions) /\ c \in Nat /\ Len(s) = c + 1
    BY <1>2, <1>4
  <2> HIDE DEF s, c
  <2>2. Tail(s) \in [1..c -> Versions] /\ \A i \in 1..c : Tail(s)[i] = s[i + 1]
    BY <2>1, TailIs
  <2> QED
    BY <2>2 DEF s
<1>7. \A i \in 1..c : Tail(Sorted(S))[i] = Sorted(R)[i]
  <2> TAKE i \in 1..c
  <2>1. Sorted(R)[i] \in R /\ Place(R, Sorted(R)[i]) = i
    BY <1>2
  <2>2. Place(S, Sorted(R)[i]) = i + 1 /\ Sorted(R)[i] \in S
    BY <1>5, <2>1
  <2>3. Sorted(S)[i + 1] = Sorted(R)[i]
    BY <1>4, <2>2
  <2> QED
    BY <1>6, <2>3
<1> HIDE DEF R
<1>8. Tail(Sorted(S)) = Sorted(R)
  <2> DEFINE s == Tail(Sorted(S))
             t == Sorted(R)
  <2>1. c \in Nat /\ s \in [1..c -> Versions] /\ t \in [1..c -> Versions]
        /\ \A i \in 1..c : s[i] = t[i]
    BY <1>1, <1>2, <1>6, <1>7
  <2> HIDE DEF s, t, c
  <2>2. s = t
    BY <2>1, SameLists
  <2> QED
    BY <2>2 DEF s, t
<1> QED
  BY <1>8 DEF R

(* The first of the versions after c is the next one. *)
LEMMA NextVersion ==
  ASSUME NEW S \in SUBSET Versions, NEW c \in Numbers,
         Sorted({v \in S : CompareVersionString(v, c) > 0}) # <<>>
  PROVE  LET later == {v \in S : CompareVersionString(v, c) > 0}
             n == Head(Sorted(later))
         IN  /\ n \in S /\ CompareVersionString(n, c) > 0
             /\ \A v \in later : CompareVersionString(n, v) <= 0
             /\ Sorted(UpTo(S, n)) = Append(Sorted(UpTo(S, c)), n)
             /\ Sorted({v \in S : CompareVersionString(v, n) > 0}) = Tail(Sorted(later))
<1> DEFINE later == {v \in S : CompareVersionString(v, c) > 0}
           n == Head(Sorted(later))
           k == Cardinality(later)
<1>1. later \in SUBSET Versions /\ \A v \in later : v \in S /\ CompareVersionString(v, c) > 0
  OBVIOUS
<1>2. \A v \in S : (v \in later <=> ~ (CompareVersionString(v, c) <= 0)) /\ v \in Numbers
  <2>1. \A v \in S : v \in Numbers
    BY VersionNumbers
  <2>2. \A v \in S : CompareVersionString(v, c) > 0 <=> ~ (CompareVersionString(v, c) <= 0)
    BY <2>1, VersionsAreOrdered
  <2> QED
    BY <2>1, <2>2
<1>3. Sorted(later) # <<>>
  OBVIOUS
<1> HIDE DEF later
<1>4. /\ k \in Nat /\ Sorted(later) \in [1..k -> later] /\ Sorted(later) \in Seq(Versions)
      /\ Len(Sorted(later)) = k
      /\ \A i \in 1..k : Place(later, Sorted(later)[i]) = i
      /\ \A v \in later : Place(later, v) \in 1..k
  BY <1>1, SortedFacts
<1>5. k # 0 /\ n = Sorted(later)[1] /\ n \in later /\ Place(later, n) = 1
  <2>1. k # 0
    BY <1>3, <1>4, EmptySeq
  <2>2. n = Sorted(later)[1]
    BY <1>3, <1>4, HeadTailProperties
  <2>3. 1 \in 1..k
    BY <1>4, <2>1
  <2> QED
    BY <1>4, <2>1, <2>2, <2>3
<1> HIDE DEF n
<1>6. n \in S /\ n \in Numbers /\ n \in Versions /\ CompareVersionString(n, c) > 0
  BY <1>1, <1>2, <1>5
<1>7. \A v \in later : CompareVersionString(n, v) <= 0
  <2> SUFFICES ASSUME NEW v \in later, ~ (CompareVersionString(n, v) <= 0)
               PROVE  FALSE
    OBVIOUS
  <2>1. v \in Numbers
    BY <1>1, <1>2
  <2>2. CompareVersionString(v, n) < 0
    BY <1>6, <2>1, VersionsAreOrdered
  <2>3. Place(later, v) < Place(later, n)
    BY <1>1, <1>5, <2>1, <2>2, PlaceGrows
  <2> QED
    BY <1>4, <1>5, <2>3
<1>8. UpTo(S, n) = UpTo(S, c) \cup {n} /\ n \notin UpTo(S, c)
  <2>1. n \notin UpTo(S, c)
    BY <1>2, <1>5 DEF UpTo
  <2>2. n \in UpTo(S, n)
    BY <1>6, VersionsAreOrdered DEF UpTo
  <2>3. ASSUME NEW v \in S, CompareVersionString(v, c) <= 0
        PROVE  CompareVersionString(v, n) <= 0
    <3>1. v \in Numbers /\ c \in Numbers /\ n \in Numbers
      BY <1>2, <1>6
    <3>2. ~ (CompareVersionString(n, c) <= 0)
      BY <1>2, <1>5, <1>6
    <3>3. CompareVersionString(c, n) < 0 /\ CompareVersionString(c, n) \in Int
      BY <3>1, <3>2, VersionsAreOrdered
    <3>4. CompareVersionString(c, n) <= 0
      BY <3>3
    <3> QED
      BY <2>3, <3>1, <3>4, VersionsAreOrdered
  <2>4. ASSUME NEW v \in S, CompareVersionString(v, n) <= 0, v # n
        PROVE  CompareVersionString(v, c) <= 0
    <3> SUFFICES ASSUME ~ (CompareVersionString(v, c) <= 0)
                 PROVE  FALSE
      OBVIOUS
    <3>1. CompareVersionString(n, v) <= 0 /\ v \in Numbers
      BY <1>2, <1>7
    <3> QED
      BY <1>6, <2>4, <3>1, VersionsAreOrdered
  <2> QED
    BY <2>1, <2>2, <2>3, <2>4 DEF UpTo
<1>9. Sorted(UpTo(S, n)) = Append(Sorted(UpTo(S, c)), n)
  <2> DEFINE past == UpTo(S, c)
  <2>1. past \in SUBSET Versions /\ n \notin past
    BY <1>8 DEF UpTo
  <2>2. \A v \in past : CompareVersionString(n, v) > 0
    <3> TAKE v \in past
    <3>1. v \in S /\ v \in Numbers /\ CompareVersionString(v, c) <= 0
      BY <1>2 DEF UpTo
    <3>2. v \in UpTo(S, n) /\ v # n
      BY <1>8
    <3>3. CompareVersionString(v, n) <= 0
      BY <3>2 DEF UpTo
    <3>4. ~ (CompareVersionString(n, v) <= 0)
      BY <1>6, <3>1, <3>2, <3>3, VersionsAreOrdered
    <3> QED
      BY <1>6, <3>1, <3>4, VersionsAreOrdered
  <2> HIDE DEF past
  <2>3. Sorted(past \cup {n}) = Append(Sorted(past), n)
    BY <1>6, <2>1, <2>2, SortedAppend
  <2> QED
    BY <1>8, <2>3 DEF past
<1>10. {v \in S : CompareVersionString(v, n) > 0} = later \ {n}
  <2>1. ASSUME NEW v \in S
        PROVE  CompareVersionString(v, n) > 0 <=> v \in later /\ v # n
    <3>1. CompareVersionString(v, n) > 0 <=> ~ (CompareVersionString(v, n) <= 0)
      BY <1>2, <1>6, VersionsAreOrdered
    <3>2. CompareVersionString(v, n) <= 0 <=> v \in UpTo(S, n)
      BY DEF UpTo
    <3>3. v \in UpTo(S, c) <=> ~ (v \in later)
      BY <1>2 DEF UpTo
    <3> QED
      BY <1>8, <3>1, <3>2, <3>3
  <2>2. \A v \in later : v \in S
    BY <1>1
  <2> QED
    BY <2>1, <2>2
<1>11. Sorted({v \in S : CompareVersionString(v, n) > 0}) = Tail(Sorted(later))
  <2>1. Tail(Sorted(later)) = Sorted(later \ {n})
    BY <1>1, <1>5, <1>7, SortedTail
  <2> QED
    BY <1>10, <2>1
<1> QED
  BY <1>6, <1>7, <1>9, <1>11 DEF later, n

-----------------------------------------------------------------------------
(* The invariant of upgradeDb.  MigrationsOnce is not inductive: what the   *)
(* next commit writes is in the open transaction, and what is still to be  *)
(* applied in the list of versions that was taken before the first one.    *)

Known == {FirstVersion} \cup Released

Databases == [version : {NoVersion} \cup Known,
              tables : [HandlerNames -> {NoTables} \cup Seq(Versions)]]

UpgradeTypeOK ==
  /\ db \in Databases
  /\ tx \in Databases
  /\ release \in Nat
  /\ configured \in SUBSET HandlerNames
  /\ upgrade \in [at : {"down", "setup", "next", "upgrade", "ready"},
                  current : {NoVersion} \cup Known,
                  handlers : SUBSET HandlerNames,
                  todo : Seq(Versions)]

(* Tables are those of a configured handler, and have reached version v. *)
Reached(tables, v) ==
  \A h \in HandlerNames : tables[h] # NoTables => h \in configured /\ tables[h] = PastVersions(v)

CommittedInv ==
  /\ db.version = NoVersion => upgrade.at = "down" /\ \A h \in HandlerNames : db.tables[h] = NoTables
  /\ Reached(db.tables, db.version)

(* The transaction of setup. *)
SetupInv ==
  upgrade.at = "setup" =>
    /\ upgrade.current = db.version /\ tx.version = db.version
    /\ upgrade.handlers \subseteq configured
    /\ Reached(tx.tables, db.version)
    /\ \A h \in configured \ upgrade.handlers : tx.tables[h] # NoTables

(* After it nobody lacks tables, and the list holds what is left. *)
AfterSetupInv ==
  upgrade.at \in {"next", "upgrade", "ready"} =>
    /\ \A h \in configured : db.tables[h] # NoTables
    /\ upgrade.todo = UpgradeVersions(db.version)
    /\ upgrade.at = "ready" => upgrade.todo = <<>>

(* The transaction of one version. *)
UpgradeInv ==
  upgrade.at = "upgrade" =>
    /\ upgrade.todo # <<>>
    /\ tx.version = Head(upgrade.todo)
    /\ upgrade.handlers \subseteq configured
    /\ \A h \in HandlerNames :
         tx.tables[h] = IF h \in configured \ upgrade.handlers
                        THEN Append(db.tables[h], Head(upgrade.todo))
                        ELSE db.tables[h]

DbInv == UpgradeTypeOK /\ CommittedInv /\ SetupInv /\ AfterSetupInv /\ UpgradeInv

LEMMA KnownVersions ==
  /\ Released \in SUBSET Versions
  /\ \A v \in Known : v \in Numbers
  /\ NoVersion \notin Known
  /\ NoTables \notin Seq(Versions)
<1>1. Released \in SUBSET Versions
  BY DEF Released
<1>2. \A v \in Versions : v \in Numbers
  BY VersionNumbers
<1>3. \A v \in Known : v \in Numbers
  BY <1>1, <1>2, VersionNumbers DEF Known
<1>4. \A v \in Numbers : v # NoVersion
  <2> SUFFICES ASSUME NEW v \in Numbers
               PROVE  v # <<>>
    BY DEF NoVersion
  <2>1. 1 \in DOMAIN v
    BY DEF Numbers
  <2> QED
    BY <2>1
<1>5. NoTables \notin Seq(Versions)
  <2> SUFFICES ASSUME NoTables \in Seq(Versions)
               PROVE  FALSE
    OBVIOUS
  <2>1. Len(NoTables) = 1 /\ NoTables[1] = NoVersion
    BY DEF NoTables
  <2>2. NoVersion \in Versions
    BY <2>1
  <2> QED
    BY <1>2, <1>4, <2>2
<1> QED
  BY <1>1, <1>3, <1>4, <1>5

LEMMA ListsOfVersions ==
  ASSUME NEW v
  PROVE  /\ PastVersions(v) \in Seq(Versions) /\ PastVersions(v) # NoTables
         /\ UpgradeVersions(v) \in Seq(Versions)
<1>1. UpTo(Released, v) \in SUBSET Versions
  BY KnownVersions DEF UpTo
<1>2. {w \in Released : CompareVersionString(w, v) > 0} \in SUBSET Versions
  BY KnownVersions
<1>3. PastVersions(v) \in Seq(Versions)
  BY <1>1, SortedFacts DEF PastVersions
<1>4. UpgradeVersions(v) \in Seq(Versions)
  <2> DEFINE S == {w \in Released : CompareVersionString(w, v) > 0}
  <2>1. S \in SUBSET Versions
    BY <1>2
  <2> HIDE DEF S
  <2>2. Sorted(S) \in Seq(Versions)
    BY <2>1, SortedFacts
  <2> QED
    BY <2>2 DEF S, UpgradeVersions
<1> QED
  BY <1>3, <1>4, KnownVersions

(* A release brings versions after all the known ones. *)
LEMMA NewRelease ==
  ASSUME release \in Nat, release' = release + 1, NEW c \in Known
  PROVE  c \in Known' /\ PastVersions(c)' = PastVersions(c)
<1>1. \A v \in Versions : Place(Versions, v) \in Nat
  <2>1. Versions \in SUBSET Versions
    OBVIOUS
  <2>2. Cardinality(Versions) \in Nat /\ \A v \in Versions : Place(Versions, v) \in 1..Cardinality(Versions)
    BY <2>1, SortedFacts
  <2> QED
    BY <2>2
<1>2. Released \subseteq Released'
  BY <1>1 DEF Released
<1>3. c \in Numbers /\ \A v \in Versions : v \in Numbers
  BY KnownVersions, VersionNumbers
<1>4. ASSUME NEW v \in Released', v \notin Released
      PROVE  ~ (CompareVersionString(v, c) <= 0)
  <2>1. v \in Versions /\ v \in Numbers /\ Place(Versions, v) > release
    BY <1>1, <1>3, <1>4 DEF Released
  <2>2. CASE c \in Released
    <3> SUFFICES ASSUME CompareVersionString(v, c) <= 0
                 PROVE  FALSE
      OBVIOUS
    <3>1. c \in Versions /\ Place(Versions, c) <= release
      BY <2>2 DEF Released
    <3>2. v # c
      BY <1>4, <2>2
    <3>3. CompareVersionString(v, c) < 0
      BY <1>3, <2>1, <3>2, VersionsAreOrdered
    <3>4. Place(Versions, v) < Place(Versions, c)
      BY <2>1, <3>1, <3>3, PlaceGrows
    <3> QED
      BY <1>1, <2>1, <3>1, <3>4
  <2>3. CASE c = FirstVersion
    <3>1. CompareVersionString(c, v) < 0
      BY <2>1, <2>3, UpgradeDbAssumption
    <3> QED
      BY <1>3, <2>1, <3>1, VersionsAreOrdered
  <2> QED
    BY <2>2, <2>3 DEF Known
<1>5. UpTo(Released', c) = UpTo(Released, c)
  BY <1>2, <1>4 DEF UpTo
<1>6. PastVersions(c)' = Sorted(UpTo(Released', c))
  BY DEF PastVersions
<1> QED
  BY <1>2, <1>5, <1>6 DEF PastVersions, Known

LEMMA OldRelease ==
  ASSUME release' = release
  PROVE  Known' = Known /\ \A v : PastVersions(v)' = PastVersions(v) /\ UpgradeVersions(v)' = UpgradeVersions(v)
BY DEF Known, Released, PastVersions, UpgradeVersions

(* The version that comes next for a database. *)
LEMMA NextUpgrade ==
  ASSUME NEW c \in Known, UpgradeVersions(c) # <<>>
  PROVE  /\ Head(UpgradeVersions(c)) \in Released
         /\ PastVersions(Head(UpgradeVersions(c))) = Append(PastVersions(c), Head(UpgradeVersions(c)))
         /\ UpgradeVersions(Head(UpgradeVersions(c))) = Tail(UpgradeVersions(c))
<1>1. c \in Numbers /\ Released \in SUBSET Versions
  BY KnownVersions
<1> DEFINE later == {v \in Released : CompareVersionString(v, c) > 0}
           n == Head(Sorted(later))
<1>2. Sorted(later) # <<>>
  BY DEF UpgradeVersions
<1>3. /\ n \in Released
      /\ Sorted(UpTo(Released, n)) = Append(Sorted(UpTo(Released, c)), n)
      /\ Sorted({v \in Released : CompareVersionString(v, n) > 0}) = Tail(Sorted(later))
  BY <1>1, <1>2, NextVersion
<1> QED
  BY <1>3 DEF UpgradeVersions, PastVersions

(* Nothing is left. *)
LEMMA LastUpgrade ==
  ASSUME NEW c \in Known, UpgradeVersions(c) = <<>>
  PROVE  PastVersions(c) = AvailableVersions
<1>1. c \in Numbers /\ Released \in SUBSET Versions /\ \A v \in Released : v \in Numbers
  BY KnownVersions, VersionNumbers
<1> DEFINE later == {v \in Released : CompareVersionString(v, c) > 0}
<1>2. later \in SUBSET Versions /\ Sorted(later) = <<>>
  BY <1>1 DEF UpgradeVersions
<1>3. ASSUME NEW v \in Released
      PROVE  CompareVersionString(v, c) <= 0
  <2> SUFFICES ASSUME ~ (CompareVersionString(v, c) <= 0)
               PROVE  FALSE
    OBVIOUS
  <2>1. CompareVersionString(v, c) > 0
    BY <1>1, VersionsAreOrdered
  <2>2. v \in later
    BY <2>1
  <2> HIDE DEF later
  <2>3. IsFiniteSet(later) /\ Len(Sorted(later)) = Cardinality(later)
    BY <1>2, SortedFacts
  <2>4. Cardinality(later) = 0
    BY <1>2, <2>3
  <2>5. later = {}
    BY <2>3, <2>4, FS_EmptySet
  <2> QED
    BY <2>2, <2>5
<1>4. UpTo(Released, c) = Released
  BY <1>3 DEF UpTo
<1> QED
  BY <1>4 DEF PastVersions, AvailableVersions

LEMMA DbInit == Init => DbInv
<1> SUFFICES ASSUME Init
             PROVE  DbInv
  OBVIOUS
<1> USE DEF Init, InitUpgrade
<1>1. \A h \in HandlerNames : db.tables[h] = NoTables
  OBVIOUS
<1>2. UpgradeTypeOK
  <2>1. db \in Databases /\ tx \in Databases
    BY DEF Databases
  <2>2. <<>> \in Seq(Versions)
    OBVIOUS
  <2> QED
    BY <2>1, <2>2 DEF UpgradeTypeOK
<1>3. CommittedInv /\ SetupInv /\ AfterSetupInv /\ UpgradeInv
  BY <1>1 DEF CommittedInv, Reached, SetupInv, AfterSetupInv, UpgradeInv
<1> QED
  BY <1>2, <1>3 DEF DbInv

LEMMA DbUnchanged ==
  ASSUME DbInv, UNCHANGED upgradeVars
  PROVE  DbInv'
<1>1. /\ db' = db /\ tx' = tx /\ release' = release /\ configured' = configured /\ upgrade' = upgrade
      /\ Known' = Known /\ \A v : PastVersions(v)' = PastVersions(v) /\ UpgradeVersions(v)' = UpgradeVersions(v)
  BY OldRelease DEF upgradeVars
<1>2. Databases' = Databases
  BY <1>1 DEF Databases
<1>3. UpgradeTypeOK'
  BY <1>1, <1>2 DEF DbInv, UpgradeTypeOK
<1>4. CommittedInv'
  BY <1>1 DEF DbInv, CommittedInv, Reached
<1>5. SetupInv'
  BY <1>1 DEF DbInv, SetupInv, Reached
<1>6. AfterSetupInv'
  BY <1>1 DEF DbInv, AfterSetupInv
<1>7. UpgradeInv'
  BY <1>1 DEF DbInv, UpgradeInv
<1> QED
  BY <1>3, <1>4, <1>5, <1>6, <1>7 DEF DbInv

LEMMA DbDeploy ==
  ASSUME DbInv, ~ Removable, Deploy
  PROVE  DbInv'
<1>1. /\ upgrade.at = "down" /\ db' = db /\ tx' = tx /\ upgrade' = upgrade
      /\ configured \subseteq configured' /\ configured' \in SUBSET HandlerNames
  BY DEF Deploy, DbInv, UpgradeTypeOK
<1>2. release' = release \/ release' = release + 1
  BY DEF Deploy
<1>3. \A c \in Known : c \in Known' /\ PastVersions(c)' = PastVersions(c)
  BY <1>2, NewRelease, OldRelease DEF DbInv, UpgradeTypeOK
<1>4. UpgradeTypeOK'
  <2>1. Databases \subseteq Databases'
    BY <1>3 DEF Databases
  <2>2. upgrade.current \in {NoVersion} \cup Known'
    BY <1>3 DEF DbInv, UpgradeTypeOK
  <2>3. upgrade' \in [at : {"down", "setup", "next", "upgrade", "ready"},
                      current : {NoVersion} \cup Known',
                      handlers : SUBSET HandlerNames,
                      todo : Seq(Versions)]
    BY <1>1, <2>2 DEF DbInv, UpgradeTypeOK
  <2>4. release' \in Nat
    BY <1>2 DEF DbInv, UpgradeTypeOK
  <2> QED
    BY <1>1, <2>1, <2>3, <2>4 DEF DbInv, UpgradeTypeOK
<1>5. CommittedInv'
  <2>1. CASE db.version = NoVersion
    BY <1>1, <2>1 DEF DbInv, CommittedInv, Reached
  <2>2. CASE db.version # NoVersion
    <3>1. db.version \in Known
      BY <2>2 DEF DbInv, UpgradeTypeOK, Databases
    <3>2. PastVersions(db.version)' = PastVersions(db.version)
      <4>1. PastVersions(db.version)' = Sorted(UpTo(Released', db.version))
        BY <1>1 DEF PastVersions
      <4> DEFINE c == db.version
      <4> QED
        BY <1>3, <3>1, <4>1 DEF PastVersions
    <3> QED
      BY <1>1, <2>2, <3>2 DEF DbInv, CommittedInv, Reached
  <2> QED
    BY <2>1, <2>2
<1> QED
  BY <1>1, <1>4, <1>5 DEF DbInv, SetupInv, AfterSetupInv, UpgradeInv

LEMMA DbDies ==
  ASSUME DbInv, UpgradeDies
  PROVE  DbInv'
<1>1. /\ db' = db /\ tx' = db /\ upgrade'.at = "down" /\ upgrade' = [upgrade EXCEPT !.at = "down"]
      /\ release' = release /\ configured' = configured
      /\ Known' = Known /\ \A v : PastVersions(v)' = PastVersions(v)
  BY OldRelease DEF UpgradeDies, DbInv, UpgradeTypeOK
<1>2. Databases' = Databases
  BY <1>1 DEF Databases
<1>3. UpgradeTypeOK'
  BY <1>1, <1>2 DEF DbInv, UpgradeTypeOK
<1>4. CommittedInv'
  BY <1>1 DEF DbInv, CommittedInv, Reached
<1> QED
  BY <1>1, <1>3, <1>4 DEF DbInv, SetupInv, AfterSetupInv, UpgradeInv

LEMMA DbUpgrading ==
  ASSUME DbInv, Upgrading
  PROVE  DbInv'
<1>1. /\ release' = release /\ configured' = configured
      /\ Known' = Known /\ Databases' = Databases
      /\ \A v : PastVersions(v)' = PastVersions(v) /\ UpgradeVersions(v)' = UpgradeVersions(v)
  <2>1. release' = release /\ configured' = configured
    BY DEF Upgrading, StartUpgrade, CommitSetup, UpgradeDatabase, CommitUpgrade, Upgraded, Setup, UpgradeHandler
  <2> QED
    BY <2>1, OldRelease DEF Databases
<1>2. /\ db \in Databases /\ tx \in Databases /\ configured \in SUBSET HandlerNames /\ release \in Nat
      /\ upgrade \in [at : {"down", "setup", "next", "upgrade", "ready"},
                      current : {NoVersion} \cup Known,
                      handlers : SUBSET HandlerNames,
                      todo : Seq(Versions)]
  BY DEF DbInv, UpgradeTypeOK
<1>3. /\ \A h \in HandlerNames : db.tables[h] \in {NoTables} \cup Seq(Versions)
      /\ \A h \in HandlerNames : tx.tables[h] \in {NoTables} \cup Seq(Versions)
      /\ db.version \in {NoVersion} \cup Known /\ tx.version \in {NoVersion} \cup Known
      /\ upgrade.at # "down" => db.version \in Known
  BY <1>2 DEF Databases, DbInv, CommittedInv
<1>4. CASE StartUpgrade
  <2> DEFINE current == IF db.version = NoVersion THEN FirstVersion ELSE db.version
  <2>1. /\ upgrade.at = "down" /\ db' = [db EXCEPT !.version = current] /\ tx' = db'
        /\ upgrade' = [at |-> "setup", current |-> current, handlers |-> configured, todo |-> <<>>]
    BY <1>4 DEF StartUpgrade
  <2>2. current \in Known /\ current # NoVersion
    BY <1>3, KnownVersions DEF Known
  <2>3. Reached(db.tables, current)
    BY DEF DbInv, CommittedInv, Reached
  <2> HIDE DEF current
  <2>4. db'.version = current /\ db'.tables = db.tables /\ db' \in Databases
    BY <1>2, <2>1, <2>2 DEF Databases
  <2>5. UpgradeTypeOK'
    <3>1. <<>> \in Seq(Versions)
      OBVIOUS
    <3>2. upgrade' \in [at : {"down", "setup", "next", "upgrade", "ready"},
                        current : {NoVersion} \cup Known,
                        handlers : SUBSET HandlerNames,
                        todo : Seq(Versions)]
      BY <1>2, <2>1, <2>2, <3>1
    <3> QED
      BY <1>1, <1>2, <2>1, <2>4, <3>2 DEF UpgradeTypeOK
  <2>6. CommittedInv'
    BY <1>1, <2>2, <2>3, <2>4 DEF CommittedInv, Reached
  <2>7. SetupInv'
    BY <1>1, <2>1, <2>3, <2>4 DEF SetupInv, Reached
  <2> QED
    BY <2>1, <2>5, <2>6, <2>7 DEF DbInv, AfterSetupInv, UpgradeInv
<1>5. ASSUME NEW h \in HandlerNames, Setup(h)
      PROVE  DbInv'
  <2>1. /\ upgrade.at = "setup" /\ h \in upgrade.handlers /\ db' = db
        /\ tx' = IF tx.tables[h] # NoTables THEN tx
                 ELSE [tx EXCEPT !.tables[h] = PastVersions(upgrade.current)]
        /\ upgrade' = [upgrade EXCEPT !.handlers = @ \ {h}]
    BY <1>5 DEF Setup, HasTables
  <2>2. /\ upgrade'.at = "setup" /\ upgrade'.current = upgrade.current
        /\ upgrade'.handlers = upgrade.handlers \ {h} /\ upgrade'.todo = upgrade.todo
    BY <1>2, <2>1
  <2>3. SetupInv /\ upgrade.current = db.version /\ tx.version = db.version
        /\ upgrade.handlers \subseteq configured /\ Reached(tx.tables, db.version)
        /\ \A g \in configured \ upgrade.handlers : tx.tables[g] # NoTables
    BY <2>1 DEF DbInv, SetupInv
  <2>4. PastVersions(db.version) \in Seq(Versions) /\ PastVersions(db.version) # NoTables
    BY ListsOfVersions
  <2>5. /\ tx' \in Databases /\ tx'.version = tx.version
        /\ \A g \in HandlerNames : g # h => tx'.tables[g] = tx.tables[g]
        /\ tx'.tables[h] # NoTables /\ tx'.tables[h] \in {tx.tables[h], PastVersions(db.version)}
    <3>1. CASE tx.tables[h] # NoTables
      BY <1>2, <2>1, <3>1
    <3>2. CASE tx.tables[h] = NoTables
      <4>1. tx' = [tx EXCEPT !.tables[h] = PastVersions(db.version)]
        BY <2>1, <2>3, <3>2
      <4> QED
        BY <1>2, <2>4, <4>1 DEF Databases
    <3> QED
      BY <3>1, <3>2
  <2>6. UpgradeTypeOK'
    BY <1>1, <1>2, <2>1, <2>5 DEF UpgradeTypeOK
  <2>7. CommittedInv'
    BY <1>1, <2>1, <2>2 DEF DbInv, CommittedInv, Reached
  <2>8. Reached(tx'.tables, db.version)
    BY <2>1, <2>3, <2>5 DEF Reached
  <2>9. SetupInv'
    BY <1>1, <1>2, <2>1, <2>2, <2>3, <2>5, <2>8 DEF SetupInv, Reached
  <2> QED
    BY <2>2, <2>6, <2>7, <2>9 DEF DbInv, AfterSetupInv, UpgradeInv
<1>6. CASE CommitSetup
  <2>1. /\ upgrade.at = "setup" /\ upgrade.handlers = {} /\ db' = tx /\ tx' = tx
        /\ upgrade' = [upgrade EXCEPT !.at = "next", !.todo = UpgradeVersions(upgrade.current)]
    BY <1>6 DEF CommitSetup
  <2>2. /\ upgrade'.at = "next" /\ upgrade'.todo = UpgradeVersions(upgrade.current)
        /\ upgrade'.current = upgrade.current /\ upgrade'.handlers = upgrade.handlers
    BY <1>2, <2>1
  <2>3. /\ upgrade.current = db.version /\ tx.version = db.version
        /\ Reached(tx.tables, db.version)
        /\ \A g \in configured : tx.tables[g] # NoTables
    BY <2>1 DEF DbInv, SetupInv
  <2>4. UpgradeVersions(upgrade.current) \in Seq(Versions)
    BY ListsOfVersions
  <2>5. UpgradeTypeOK'
    BY <1>1, <1>2, <2>1, <2>4 DEF UpgradeTypeOK
  <2>6. CommittedInv'
    BY <1>1, <1>3, <2>1, <2>3, KnownVersions DEF CommittedInv, Reached
  <2>7. AfterSetupInv'
    BY <1>1, <2>1, <2>2, <2>3 DEF AfterSetupInv
  <2> QED
    BY <2>2, <2>5, <2>6, <2>7 DEF DbInv, SetupInv, UpgradeInv
<1>7. CASE UpgradeDatabase
  <2>1. /\ upgrade.at = "next" /\ upgrade.todo # <<>> /\ db' = db
        /\ tx' = [db EXCEPT !.version = Head(upgrade.todo)]
        /\ upgrade' = [upgrade EXCEPT !.at = "upgrade", !.handlers = configured]
    BY <1>7 DEF UpgradeDatabase
  <2>2. /\ upgrade'.at = "upgrade" /\ upgrade'.todo = upgrade.todo
        /\ upgrade'.current = upgrade.current /\ upgrade'.handlers = configured
    BY <1>2, <2>1
  <2>3. /\ \A g \in configured : db.tables[g] # NoTables
        /\ upgrade.todo = UpgradeVersions(db.version)
    BY <2>1 DEF DbInv, AfterSetupInv
  <2>4. Head(upgrade.todo) \in Known
    BY <1>3, <2>1, <2>3, NextUpgrade DEF Known
  <2>5. tx' \in Databases /\ tx'.version = Head(upgrade.todo) /\ tx'.tables = db.tables
    BY <1>2, <2>1, <2>4 DEF Databases
  <2>6. UpgradeTypeOK'
    BY <1>1, <1>2, <2>1, <2>5 DEF UpgradeTypeOK
  <2>7. CommittedInv'
    BY <1>1, <1>3, <2>1, KnownVersions DEF DbInv, CommittedInv, Reached
  <2>8. AfterSetupInv'
    BY <1>1, <2>1, <2>2, <2>3 DEF AfterSetupInv
  <2>9. UpgradeInv'
    BY <1>1, <2>1, <2>2, <2>5 DEF UpgradeInv
  <2> QED
    BY <2>2, <2>6, <2>7, <2>8, <2>9 DEF DbInv, SetupInv
<1>8. ASSUME NEW h \in HandlerNames, UpgradeHandler(h)
      PROVE  DbInv'
  <2>1. /\ upgrade.at = "upgrade" /\ h \in upgrade.handlers /\ db' = db
        /\ tx' = [tx EXCEPT !.tables[h] = Append(tx.tables[h], Head(upgrade.todo))]
        /\ upgrade' = [upgrade EXCEPT !.handlers = @ \ {h}]
    BY <1>2, <1>8 DEF UpgradeHandler, Migrated, Databases
  <2>2. /\ upgrade'.at = "upgrade" /\ upgrade'.current = upgrade.current
        /\ upgrade'.handlers = upgrade.handlers \ {h} /\ upgrade'.todo = upgrade.todo
    BY <1>2, <2>1
  <2>3. /\ upgrade.todo # <<>> /\ tx.version = Head(upgrade.todo)
        /\ upgrade.handlers \subseteq configured
        /\ \A g \in HandlerNames :
             tx.tables[g] = IF g \in configured \ upgrade.handlers
                            THEN Append(db.tables[g], Head(upgrade.todo))
                            ELSE db.tables[g]
    BY <2>1 DEF DbInv, UpgradeInv
  <2>4. /\ \A g \in configured : db.tables[g] # NoTables
        /\ upgrade.todo = UpgradeVersions(db.version)
    BY <2>1 DEF DbInv, AfterSetupInv
  <2>5. Head(upgrade.todo) \in Versions
    BY <1>3, <2>1, <2>3, <2>4, NextUpgrade, KnownVersions
  <2>6. tx.tables[h] = db.tables[h] /\ tx.tables[h] \in Seq(Versions)
    BY <1>3, <2>1, <2>3, <2>4
  <2>7. Append(tx.tables[h], Head(upgrade.todo)) \in Seq(Versions)
    BY <2>5, <2>6, AppendProperties
  <2>8. /\ tx' \in Databases /\ tx'.version = tx.version
        /\ \A g \in HandlerNames : g # h => tx'.tables[g] = tx.tables[g]
        /\ tx'.tables[h] = Append(db.tables[h], Head(upgrade.todo))
    BY <1>2, <2>1, <2>6, <2>7 DEF Databases
  <2>9. UpgradeTypeOK'
    BY <1>1, <1>2, <2>1, <2>8 DEF UpgradeTypeOK
  <2>10. CommittedInv'
    BY <1>1, <1>3, <2>1, KnownVersions DEF DbInv, CommittedInv, Reached
  <2>11. AfterSetupInv'
    BY <1>1, <2>1, <2>2, <2>4 DEF AfterSetupInv
  <2>12. UpgradeInv'
    <3>1. \A g \in HandlerNames :
            tx'.tables[g] = IF g \in configured \ upgrade'.handlers
                            THEN Append(db.tables[g], Head(upgrade.todo))
                            ELSE db.tables[g]
      BY <2>1, <2>2, <2>3, <2>8
    <3> QED
      BY <1>1, <2>1, <2>2, <2>3, <2>8, <3>1 DEF UpgradeInv
  <2> QED
    BY <2>2, <2>9, <2>10, <2>11, <2>12 DEF DbInv, SetupInv
<1>9. CASE CommitUpgrade
  <2>1. /\ upgrade.at = "upgrade" /\ upgrade.handlers = {} /\ db' = tx /\ tx' = tx
        /\ upgrade' = [upgrade EXCEPT !.at = "next", !.todo = Tail(@)]
    BY <1>9 DEF CommitUpgrade
  <2> DEFINE n == Head(upgrade.todo)
  <2>2. /\ upgrade'.at = "next" /\ upgrade'.current = upgrade.current
        /\ upgrade'.handlers = upgrade.handlers /\ upgrade'.todo = Tail(upgrade.todo)
    BY <1>2, <2>1
  <2>3. /\ upgrade.todo # <<>> /\ tx.version = n
        /\ \A g \in HandlerNames :
             tx.tables[g] = IF g \in configured THEN Append(db.tables[g], n) ELSE db.tables[g]
    BY <2>1 DEF DbInv, UpgradeInv
  <2>4. /\ \A g \in configured : db.tables[g] # NoTables
        /\ upgrade.todo = UpgradeVersions(db.version)
    BY <2>1 DEF DbInv, AfterSetupInv
  <2>5. /\ n \in Released /\ PastVersions(n) = Append(PastVersions(db.version), n)
        /\ UpgradeVersions(n) = Tail(upgrade.todo)
    BY <1>3, <2>1, <2>3, <2>4, NextUpgrade
  <2> HIDE DEF n
  <2>6. Tail(upgrade.todo) \in Seq(Versions)
    BY <2>5, ListsOfVersions
  <2>7. \A g \in HandlerNames : g \in configured => tx.tables[g] = PastVersions(n)
    BY <2>3, <2>4, <2>5 DEF DbInv, CommittedInv, Reached
  <2>8. \A g \in HandlerNames : g \notin configured => tx.tables[g] = NoTables
    BY <2>3 DEF DbInv, CommittedInv, Reached
  <2>9. n \in Known /\ n # NoVersion /\ PastVersions(n) # NoTables
    BY <2>5, KnownVersions, ListsOfVersions DEF Known
  <2>10. UpgradeTypeOK'
    BY <1>1, <1>2, <2>1, <2>6 DEF UpgradeTypeOK
  <2>11. CommittedInv'
    BY <1>1, <2>1, <2>3, <2>7, <2>8, <2>9 DEF CommittedInv, Reached
  <2>12. AfterSetupInv'
    BY <1>1, <1>2, <2>1, <2>2, <2>3, <2>5, <2>7, <2>9 DEF AfterSetupInv
  <2> QED
    BY <2>2, <2>10, <2>11, <2>12 DEF DbInv, SetupInv, UpgradeInv
<1>10. CASE Upgraded
  <2>1. /\ upgrade.at = "next" /\ upgrade.todo = <<>> /\ db' = db /\ tx' = tx
        /\ upgrade' = [upgrade EXCEPT !.at = "ready"]
    BY <1>10 DEF Upgraded
  <2>2. upgrade'.at = "ready" /\ upgrade'.todo = upgrade.todo
    BY <1>2, <2>1
  <2>3. UpgradeTypeOK'
    BY <1>1, <1>2, <2>1 DEF UpgradeTypeOK
  <2>4. CommittedInv'
    BY <1>1, <1>3, <2>1, KnownVersions DEF DbInv, CommittedInv, Reached
  <2>5. AfterSetupInv'
    BY <1>1, <2>1, <2>2 DEF DbInv, AfterSetupInv
  <2> QED
    BY <2>2, <2>3, <2>4, <2>5 DEF DbInv, SetupInv, UpgradeInv
<1> QED
  BY <1>4, <1>5, <1>6, <1>7, <1>8, <1>9, <1>10 DEF Upgrading

LEMMA DbStep == DbInv /\ ~ Removable /\ [Next]_vars => DbInv'
<1> SUFFICES ASSUME DbInv, ~ Removable, [Next]_vars
             PROVE  DbInv'
  OBVIOUS
<1>1. CASE UNCHANGED upgradeVars
  BY <1>1, DbUnchanged
<1>2. CASE Upgrading
  BY <1>2, DbUpgrading
<1>3. CASE Deploy
  BY <1>3, DbDeploy
<1>4. CASE UpgradeDies
  BY <1>4, DbDies
<1>5. UNCHANGED upgradeVars \/ Upgrading \/ Deploy \/ UpgradeDies
  <2>1. CASE UNCHANGED vars
    BY <2>1 DEF vars
  <2>2. CASE Next
    BY <2>2 DEF Next, Upgrade, StartWorker, StartFiller, Die, MasterDies, StartFails, JobPulse, Job,
         ListService, ListPoll, Read, Blocks, Watch, Failure
  <2> QED
    BY <2>1, <2>2
<1> QED
  BY <1>1, <1>2, <1>3, <1>4, <1>5

LEMMA DbInvIsEnough == DbInv => MigrationsOnce
<1> SUFFICES ASSUME DbInv
             PROVE  MigrationsOnce
  OBVIOUS
<1>1. \A h \in HandlerNames : db.tables[h] # NoTables => db.tables[h] = PastVersions(db.version)
  BY DEF DbInv, CommittedInv, Reached
<1>2. ASSUME upgrade.at = "ready", NEW h \in configured
      PROVE  db.tables[h] = AvailableVersions
  <2>1. db.version \in Known /\ h \in HandlerNames
    BY <1>2 DEF DbInv, UpgradeTypeOK, Databases, CommittedInv
  <2>2. db.tables[h] # NoTables /\ UpgradeVersions(db.version) = <<>>
    BY <1>2 DEF DbInv, AfterSetupInv
  <2>3. PastVersions(db.version) = AvailableVersions
    BY <2>1, <2>2, LastUpgrade
  <2> QED
    BY <1>1, <2>1, <2>2, <2>3
<1> QED
  BY <1>1, <1>2 DEF MigrationsOnce

(* Every script of a released version runs exactly once, and in the order  *)
(* of the versions, on the tables of every configured handler, and the     *)
(* version in dbinfo is the one that all of them have reached, however     *)
(* often the master dies in upgradeDb and whatever releases and handlers   *)
(* are added in between.  A handler that is taken out of the configuration *)
(* and put back loses scripts, hence the hypothesis.                       *)
THEOREM MigrationsOnceTheorem ==
  ~ Removable => (Spec => []MigrationsOnce)
<1> SUFFICES ASSUME ~ Removable
             PROVE  Spec => []MigrationsOnce
  OBVIOUS
<1>1. Init => DbInv
  BY DbInit
<1>2. DbInv /\ [Next]_vars => DbInv'
  BY DbStep
<1>3. DbInv => MigrationsOnce
  BY DbInvIsEnough
<1> QED
  BY <1>1, <1>2, <1>3, PTL DEF Spec
=============================================================================
