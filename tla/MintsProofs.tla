---------------------------- MODULE MintsProofs ----------------------------
(***************************************************************************)
(* Proofs about Mints: if the reader leaves an abandoned branch before the *)
(* blocks of the new one are irreversible, mint numbers are row numbers    *)
(* and ranges those of their assets, for any chain, forks, stops, batch    *)
(* size, and calls of a dead filler that go on beside those of the new one.*)
(***************************************************************************)
EXTENDS Mints, FiniteSetTheorems, SequenceTheorems, TLAPS

-----------------------------------------------------------------------------
(* The inductive invariant: what is irreversible is the same on the chain, *)
(* in the reader and in the tables, and only irreversible rows have        *)
(* numbers or are about to get them.                                       *)

Branches == {chain, seen, applied}

(* The items of an auction are assets minted before it. *)
Known(s) ==
  \A n \in AuctionsIn(s) : \A i \in s[n].items :
    i <= Cardinality({k \in MintsIn(s) : k < n})

(* A block that the chain abandoned does not come back: it has the number  *)
(* of an earlier branch.                                                   *)
BranchInv ==
  /\ \A s \in Branches : Known(s) /\ \A n \in DOMAIN s : s[n].branch <= forks
  /\ \A s \in {seen, applied} : \A n \in DOMAIN s : n > Len(chain) => s[n].branch < forks

(* The reader has left a branch before blocks that differ are irreversible. *)
LibInv ==
  /\ lib <= Len(chain) /\ lastIrreversibleBlock <= lib
  /\ \A s \in {seen, applied} : \A n \in DOMAIN s : n <= lib => s[n] = chain[n]

(* The open transaction replaces what is committed from tx.from on, and it *)
(* begins at a block that is not on the chain, if it takes one back.       *)
TxInv ==
  /\ tx.from = 0 => seen = applied
  /\ tx.from # 0 =>
       /\ tx.from <= Len(seen) /\ tx.from <= Len(applied) + 1
       /\ \A n \in 1 .. tx.from - 1 : applied[n] = seen[n]
       /\ tx.from \in DOMAIN applied /\ tx.from \in DOMAIN chain => applied[tx.from] # chain[tx.from]
       /\ \A n \in DOMAIN seen : n >= tx.from /\ n \notin tx.reversible => n <= lib
  /\ ~ tx.commit => tx.reversible = {}
  /\ tx.commit => tx.from # 0
  /\ \A n \in DOMAIN applied : n \notin revBlocks => n <= lib

(* The rows are those of the committed blocks. *)
AssetRows ==
  /\ \A r \in assets : /\ r.block \in MintsIn(applied)
                       /\ r.id = IdIn(MintsIn(applied), r.block)
                       /\ r.template = applied[r.block].template
  /\ \A r, s \in assets : r.block = s.block => r = s

AuctionRows ==
  /\ \A a \in auctions : /\ a.block \in AuctionsIn(applied)
                         /\ a.id = IdIn(AuctionsIn(applied), a.block)
                         /\ a.items = applied[a.block].items
  /\ \A a, b \in auctions : a.block = b.block => a = b

Before(s, r) == s.template = r.template /\ s.id < r.id

(* The rows with numbers are the first ones of their templates. *)
Numbered ==
  \A r \in assets : r.mint # Null =>
    /\ r.template # NoTemplate /\ r.block <= lib
    /\ r.mint = RowNumber(r)
    /\ \A s \in assets : Before(s, r) => s.mint # Null

Ranged ==
  \A a \in auctions : a.range # Null =>
    a.block <= lib /\ Complete(a) /\ a.range = RangeOf(a)

(* A call gives the row its number when all before it have theirs. *)
MintDue(q, i) ==
  \E r \in assets :
    /\ r.id = q[i].id /\ r.template # NoTemplate /\ r.block <= lib
    /\ q[i].mint = RowNumber(r)
    /\ \A s \in assets : Before(s, r) =>
         s.mint # Null \/ \E j \in 1 .. i - 1 : q[j].table = "assets" /\ q[j].id = s.id

RangeDue(u) ==
  \E a \in auctions :
    a.id = u.id /\ a.block <= lib /\ Complete(a) /\ u.range = RangeOf(a)

Due(q) ==
  \A i \in DOMAIN q : IF q[i].table = "assets" THEN MintDue(q, i) ELSE RangeDue(q[i])

CallsInv == \A q \in {calls[c] : c \in Owners} : Due(q)

BlockRecord == [template : Templates \cup {NoTemplate, Null}, items : SUBSET Nat, branch : Nat]
AssetRow    == [id : Nat, template : Templates \cup {NoTemplate}, block : Nat, mint : Nat \cup {Null}]

(* What a range, and so a list of updates, consists of is of no interest. *)
TypesOK ==
  /\ chain \in Seq(BlockRecord) /\ seen \in Seq(BlockRecord) /\ applied \in Seq(BlockRecord)
  /\ lib \in Nat /\ forks \in Nat /\ lastIrreversibleBlock \in Nat
  /\ assets \in SUBSET AssetRow /\ IsFiniteSet(assets)
  /\ IsFiniteSet(auctions)
  /\ \A a \in auctions :
       /\ a = [id |-> a.id, items |-> a.items, block |-> a.block, range |-> a.range]
       /\ a.id \in Nat /\ a.block \in Nat /\ a.items \in SUBSET Nat
  /\ revBlocks \in SUBSET Nat
  /\ tx \in [from : Nat, reversible : SUBSET Nat, commit : BOOLEAN]
  /\ \E U : calls \in [Owners -> Seq(U)]

ChainInv == BranchInv /\ LibInv /\ TxInv
RowsInv  == AssetRows /\ AuctionRows
Inv == TypesOK /\ ChainInv /\ RowsInv /\ Numbered /\ Ranged /\ CallsInv

-----------------------------------------------------------------------------
(* Numbers and sequences *)

LEMMA Least ==
  ASSUME NEW S \in SUBSET Nat, S # {}
  PROVE  \E n \in S : \A m \in S : n <= m
<1>1. PICK n \in S : \A m \in S : ~ (<<m, n>> \in OpToRel(<, Nat))
  BY WFMin, NatLessThanWellFounded, Zenon
<1>2. \A m \in S : m < n => <<m, n>> \in OpToRel(<, Nat)
  BY Zenon DEF OpToRel
<1>3. \A m \in S : ~ (m < n)
  BY <1>1, <1>2, Zenon
<1>4. QED
  BY <1>3

LEMMA LeastIsMin ==
  ASSUME NEW S \in SUBSET Nat, S # {}
  PROVE  Min(S) \in S /\ \A y \in S : Min(S) <= y
BY Least DEF Min

LEMMA Greatest ==
  ASSUME NEW S \in SUBSET Nat, S # {}, NEW N \in Nat, \A x \in S : x <= N
  PROVE  \E x \in S : \A y \in S : y <= x
<1> DEFINE B == {n \in Nat : \A y \in S : y <= n}
<1>1. PICK b \in B : \A n \in B : b <= n
  <2>1. N \in B
    OBVIOUS
  <2> QED
    BY <2>1, Least
<1>2. b \in S
  <2> SUFFICES ASSUME b \notin S
               PROVE  FALSE
    OBVIOUS
  <2>1. \A y \in S : y <= b - 1 /\ y \in Nat
    <3>1. \A y \in S : y <= b /\ y # b /\ y \in Nat /\ b \in Nat
      BY DEF B
    <3> QED
      BY <3>1
  <2>2. b - 1 \in B
    <3>1. b - 1 \in Nat
      <4>1. PICK y \in S : TRUE
        OBVIOUS
      <4>2. b \in Nat /\ y <= b - 1 /\ y \in Nat
        BY <2>1, <4>1
      <4> QED
        BY <4>2
    <3> QED
      BY <2>1, <3>1
  <2> QED
    BY <1>1, <2>2
<1> QED
  BY <1>2

LEMMA TailOf ==
  ASSUME NEW S, NEW s \in Seq(S), s # <<>>
  PROVE  /\ Len(s) \in Nat \ {0} /\ DOMAIN s = 1..Len(s)
         /\ Head(s) = s[1]
         /\ Tail(s) \in Seq(S) /\ Len(Tail(s)) = Len(s) - 1
         /\ DOMAIN Tail(s) = 1..(Len(s) - 1)
         /\ \A i \in DOMAIN Tail(s) : i + 1 \in DOMAIN s /\ Tail(s)[i] = s[i + 1]
BY HeadTailProperties, EmptySeq, LenProperties, SMT

LEMMA AppendTo ==
  ASSUME NEW S, NEW s \in Seq(S), NEW e \in S
  PROVE  /\ Len(s) \in Nat /\ DOMAIN s = 1..Len(s)
         /\ Append(s, e) \in Seq(S) /\ Len(Append(s, e)) = Len(s) + 1
         /\ DOMAIN Append(s, e) = 1..(Len(s) + 1)
         /\ \A i \in DOMAIN s : Append(s, e)[i] = s[i]
         /\ Append(s, e)[Len(s) + 1] = e
BY LenProperties, AppendProperties, SMT

LEMMA PrefixOf ==
  ASSUME NEW S, NEW s \in Seq(S), NEW n \in 0 .. Len(s)
  PROVE  /\ SubSeq(s, 1, n) \in Seq(S) /\ Len(SubSeq(s, 1, n)) = n
         /\ DOMAIN SubSeq(s, 1, n) = 1 .. n
         /\ \A i \in 1 .. n : SubSeq(s, 1, n)[i] = s[i]
<1> DEFINE t == SubSeq(s, 1, n)
<1>0. Len(s) \in Nat /\ DOMAIN s = 1 .. Len(s)
  BY LenProperties
<1>1. CASE n = 0
  <2>1. t = <<>>
    BY <1>1, SubSeqEmpty, <1>0
  <2> QED
    BY <1>1, <2>1, EmptySeq, LenProperties, SMT
<1>2. CASE n # 0
  <2>1. \A i \in 1 .. n : i \in 1 .. Len(s)
    BY <1>0
  <2>2. /\ t \in Seq(S) /\ Len(t) = IF 1 <= n THEN n - 1 + 1 ELSE 0
        /\ \A i \in 1 .. n - 1 + 1 : t[i] = s[1 + i - 1]
    BY <1>0, <2>1, SubSeqProperties
  <2> HIDE DEF t
  <2>3. Len(t) = n
    BY <1>2, <2>2, <1>0
  <2>4. \A i \in 1 .. n : t[i] = s[i]
    <3>1. \A i \in 1 .. n : i \in 1 .. n - 1 + 1 /\ 1 + i - 1 = i
      BY <1>0
    <3> QED
      BY <2>2, <3>1
  <2>5. DOMAIN t = 1 .. n
    BY <2>2, <2>3, LenProperties
  <2> QED
    BY <2>2, <2>3, <2>4, <2>5 DEF t
<1> QED
  BY <1>1, <1>2

LEMMA Empty == \A S : <<>> \in Seq(S) /\ Len(<<>>) = 0 /\ DOMAIN <<>> = {}
BY EmptySeq, LenProperties, SMT

(* The blocks that two branches have in common. *)
LEMMA CommonFacts ==
  ASSUME NEW S, NEW s \in Seq(S), NEW t \in Seq(S)
  PROVE  /\ Common(s, t) \in Nat /\ Common(s, t) <= Len(s) /\ Common(s, t) <= Len(t)
         /\ \A k \in 1 .. Common(s, t) : k \in DOMAIN s /\ k \in DOMAIN t /\ s[k] = t[k]
         /\ Common(s, t) + 1 \in DOMAIN s /\ Common(s, t) + 1 \in DOMAIN t =>
              s[Common(s, t) + 1] # t[Common(s, t) + 1]
<1> DEFINE D == {n \in DOMAIN s \cap DOMAIN t : \A k \in 1 .. n : s[k] = t[k]}
           B == {n \in Nat \ {0} : n \notin D}
<1>1. /\ Len(s) \in Nat /\ DOMAIN s = 1 .. Len(s)
      /\ Len(t) \in Nat /\ DOMAIN t = 1 .. Len(t)
  BY LenProperties
<1>2. PICK b \in B : \A n \in B : b <= n
  <2>1. Len(s) + 1 \in B
    BY <1>1
  <2> QED
    BY <2>1, Least
<1>3. b \in Nat \ {0} /\ b \notin D
  OBVIOUS
<1>4. \A n \in 1 .. b - 1 : n \in D
  BY <1>2, <1>3
<1>5. \A n \in D : n < b
  <2> SUFFICES ASSUME NEW n \in D, b <= n
               PROVE  FALSE
    BY <1>1, <1>3
  <2>1. b \in DOMAIN s \cap DOMAIN t
    BY <1>1, <1>3
  <2>2. \A k \in 1 .. b : k \in 1 .. n
    BY <1>1, <1>3
  <2>3. \A k \in 1 .. b : s[k] = t[k]
    BY <2>2
  <2> QED
    BY <1>3, <2>1, <2>3
<1>6. D = 1 .. b - 1
  BY <1>1, <1>3, <1>4, <1>5
<1>7. Common(s, t) = b - 1
  <2>1. Cardinality(1 .. b - 1) = b - 1
    BY <1>3, FS_Interval
  <2> QED
    BY <1>6, <2>1 DEF Common
<1> HIDE DEF B
<1>8. b - 1 \in Nat /\ (b - 1 = 0 \/ b - 1 \in D) /\ (b - 1) + 1 = b
  BY <1>3, <1>6
<1>9. b - 1 <= Len(s) /\ b - 1 <= Len(t)
  BY <1>1, <1>8
<1>10. \A k \in 1 .. b - 1 : k \in DOMAIN s /\ k \in DOMAIN t /\ s[k] = t[k]
  <2>1. \A k \in 1 .. b - 1 : k \in D /\ k \in 1 .. k
    BY <1>3, <1>6
  <2> QED
    BY <2>1
<1>11. b \in DOMAIN s /\ b \in DOMAIN t => s[b] # t[b]
  <2> SUFFICES ASSUME b \in DOMAIN s, b \in DOMAIN t, s[b] = t[b]
               PROVE  FALSE
    OBVIOUS
  <2>1. \A k \in 1 .. b : k = b \/ k \in 1 .. b - 1
    BY <1>3
  <2>2. \A k \in 1 .. b : s[k] = t[k]
    BY <1>10, <2>1
  <2> QED
    BY <1>3, <2>2
<1> HIDE DEF D
<1> QED
  BY <1>7, <1>8, <1>9, <1>10, <1>11

-----------------------------------------------------------------------------
(* Ids *)

LEMMA IdIsNat ==
  ASSUME NEW N \in Nat, NEW ns \in SUBSET (1 .. N), NEW n
  PROVE  IdIn(ns, n) \in Nat /\ IsFiniteSet({k \in ns : k <= n})
<1>1. IsFiniteSet(1 .. N)
  BY FS_Interval
<1>2. {k \in ns : k <= n} \in SUBSET (1 .. N)
  OBVIOUS
<1> QED
  BY <1>1, <1>2, FS_Subset, FS_CardinalityType DEF IdIn

(* A strict subset has fewer elements. *)
LEMMA Fewer ==
  ASSUME NEW S, NEW T, IsFiniteSet(T), S \subseteq T, NEW x \in T, x \notin S
  PROVE  Cardinality(S) < Cardinality(T) /\ IsFiniteSet(S)
         /\ Cardinality(S) \in Nat /\ Cardinality(T) \in Nat
<1>1. IsFiniteSet(S) /\ Cardinality(S) <= Cardinality(T) /\ (Cardinality(S) = Cardinality(T) => S = T)
  BY FS_Subset
<1>2. Cardinality(S) \in Nat /\ Cardinality(T) \in Nat
  BY <1>1, FS_CardinalityType
<1> QED
  BY <1>1, <1>2

LEMMA IdsGrow ==
  ASSUME NEW N \in Nat, NEW ns \in SUBSET (1 .. N), NEW n \in 1 .. N, NEW m \in ns, n < m
  PROVE  IdIn(ns, n) < IdIn(ns, m)
<1>1. IsFiniteSet({k \in ns : k <= m})
  BY IdIsNat
<1>2. {k \in ns : k <= n} \subseteq {k \in ns : k <= m} /\ m \in {k \in ns : k <= m}
      /\ m \notin {k \in ns : k <= n}
  <2>1. \A k \in ns : k \in Nat /\ (k <= n => k <= m)
    OBVIOUS
  <2>2. m \in Nat /\ n \in Nat /\ m <= m /\ ~ (m <= n)
    OBVIOUS
  <2> QED
    BY <2>1, <2>2
<1> QED
  BY <1>1, <1>2, Fewer DEF IdIn

LEMMA IdsAgree ==
  ASSUME NEW ns, NEW ms, NEW n, \A k : k <= n => (k \in ns <=> k \in ms)
  PROVE  IdIn(ns, n) = IdIn(ms, n)
<1>1. {k \in ns : k <= n} = {k \in ms : k <= n}
  OBVIOUS
<1> QED
  BY <1>1 DEF IdIn

-----------------------------------------------------------------------------
(* Rows *)

LEMMA Kinds ==
  ASSUME NEW s \in Seq(BlockRecord)
  PROVE  /\ Len(s) \in Nat /\ DOMAIN s = 1 .. Len(s)
         /\ MintsIn(s) \in SUBSET (1 .. Len(s)) /\ AuctionsIn(s) \in SUBSET (1 .. Len(s))
         /\ \A n : n \in MintsIn(s) <=> n \in DOMAIN s /\ s[n].template # Null
         /\ \A n : n \in AuctionsIn(s) <=> n \in DOMAIN s /\ s[n].template = Null
         /\ \A n \in DOMAIN s : s[n] \in BlockRecord
BY LenProperties, ElementOfSeq DEF MintsIn, AuctionsIn, IsMint

LEMMA MintsAreFinite ==
  ASSUME NEW s \in Seq(BlockRecord)
  PROVE  IsFiniteSet(MintsIn(s)) /\ Cardinality(MintsIn(s)) \in Nat
<1>1. Len(s) \in Nat /\ MintsIn(s) \in SUBSET (1 .. Len(s))
  BY Kinds
<1>2. IsFiniteSet(1 .. Len(s))
  BY <1>1, FS_Interval
<1>3. IsFiniteSet(MintsIn(s))
  BY <1>1, <1>2, FS_Subset
<1> QED
  BY <1>3, FS_CardinalityType

LEMMA AssetsById ==
  ASSUME TypesOK, AssetRows, NEW r \in assets, NEW s \in assets
  PROVE  /\ r.id \in Nat /\ r.block \in 1 .. Len(applied) /\ Len(applied) \in Nat
         /\ r.block \in MintsIn(applied)
         /\ r.id = s.id => r = s
         /\ r.id < s.id <=> r.block < s.block
<1> DEFINE ms == MintsIn(applied)
           N  == Len(applied)
<1>1. N \in Nat /\ ms \in SUBSET (1 .. N)
  BY Kinds DEF TypesOK
<1>2. /\ r.block \in ms /\ s.block \in ms /\ r.id = IdIn(ms, r.block) /\ s.id = IdIn(ms, s.block)
      /\ r.block = s.block => r = s
  BY DEF AssetRows
<1> HIDE DEF ms, N
<1>3. r.block \in 1 .. N /\ s.block \in 1 .. N
  BY <1>1, <1>2
<1>4. r.id \in Nat /\ s.id \in Nat
  BY <1>1, <1>2, IdIsNat
<1>5. r.block < s.block => r.id < s.id
  BY <1>1, <1>2, <1>3, IdsGrow
<1>6. s.block < r.block => s.id < r.id
  BY <1>1, <1>2, <1>3, IdsGrow
<1>7. r.block < s.block \/ s.block < r.block \/ r.block = s.block
  BY <1>1, <1>3
<1>8. r.block = s.block => r.id = s.id
  BY <1>2
<1>9. r.id = s.id => r = s
  BY <1>2, <1>4, <1>5, <1>6, <1>7
<1>10. r.id < s.id <=> r.block < s.block
  BY <1>1, <1>3, <1>4, <1>5, <1>6, <1>7, <1>8
<1> QED
  BY <1>1, <1>2, <1>3, <1>4, <1>9, <1>10 DEF ms, N

LEMMA AuctionsById ==
  ASSUME TypesOK, AuctionRows, NEW a \in auctions, NEW b \in auctions
  PROVE  /\ a.block \in 1 .. Len(applied) /\ a.block \in AuctionsIn(applied)
         /\ a.id = b.id => a = b
<1> DEFINE ms == AuctionsIn(applied)
           N  == Len(applied)
<1>1. N \in Nat /\ ms \in SUBSET (1 .. N)
  BY Kinds DEF TypesOK
<1>2. /\ a.block \in ms /\ b.block \in ms /\ a.id = IdIn(ms, a.block) /\ b.id = IdIn(ms, b.block)
      /\ a.block = b.block => a = b
  BY DEF AuctionRows
<1> HIDE DEF ms, N
<1>3. a.block \in 1 .. N /\ b.block \in 1 .. N
  BY <1>1, <1>2
<1>4. a.id \in Nat /\ b.id \in Nat
  BY <1>1, <1>2, IdIsNat
<1>5. a.block < b.block => a.id < b.id
  BY <1>1, <1>2, <1>3, IdsGrow
<1>6. b.block < a.block => b.id < a.id
  BY <1>1, <1>2, <1>3, IdsGrow
<1>7. a.block < b.block \/ b.block < a.block \/ a.block = b.block
  BY <1>1, <1>3
<1>8. a.id = b.id => a = b
  BY <1>2, <1>4, <1>5, <1>6, <1>7
<1> QED
  BY <1>2, <1>3, <1>8 DEF ms, N

(* The items of an auction were minted before it, on any branch. *)
LEMMA ItemIsEarlier ==
  ASSUME NEW s \in Seq(BlockRecord), Known(s),
         NEW n \in AuctionsIn(s), NEW m \in MintsIn(s), IdIn(MintsIn(s), m) \in s[n].items
  PROVE  m < n
<1> DEFINE ms == MintsIn(s)
           N == Len(s)
<1>1. N \in Nat /\ ms \in SUBSET (1 .. N) /\ n \in 1 .. N /\ n \notin ms /\ m \in ms
  BY Kinds
<1>2. IdIn(ms, m) <= Cardinality({k \in ms : k < n})
  BY DEF Known
<1> HIDE DEF ms, N
<1> SUFFICES ASSUME ~ (m < n)
             PROVE  FALSE
  OBVIOUS
<1>3. n < m
  BY <1>1
<1>4. IsFiniteSet({k \in ms : k <= m})
  BY <1>1, IdIsNat
<1>5. {k \in ms : k < n} \subseteq {k \in ms : k <= m} /\ m \in {k \in ms : k <= m}
      /\ m \notin {k \in ms : k < n}
  <2>1. \A k \in ms : k \in Nat /\ (k < n => k <= m)
    BY <1>1, <1>3
  <2>2. m \in Nat /\ n \in Nat /\ m <= m /\ ~ (m < n)
    BY <1>1, <1>3
  <2> QED
    BY <1>1, <2>1, <2>2
<1>6. /\ Cardinality({k \in ms : k < n}) < IdIn(ms, m)
      /\ Cardinality({k \in ms : k < n}) \in Nat /\ IdIn(ms, m) \in Nat
  BY <1>4, <1>5, Fewer DEF IdIn
<1> QED
  BY <1>2, <1>6

LEMMA ItemsAreEarlier ==
  ASSUME TypesOK, BranchInv, RowsInv, NEW a \in auctions, NEW r \in assets, r.id \in a.items
  PROVE  r.block < a.block
<1>1. /\ a.block \in AuctionsIn(applied) /\ a.items = applied[a.block].items
      /\ r.block \in MintsIn(applied) /\ r.id = IdIn(MintsIn(applied), r.block)
  BY DEF RowsInv, AssetRows, AuctionRows
<1>2. applied \in Seq(BlockRecord) /\ Known(applied)
  BY DEF TypesOK, BranchInv, Branches
<1> QED
  BY <1>1, <1>2, ItemIsEarlier

LEMMA RowNumberFacts ==
  ASSUME TypesOK, NEW r
  PROVE  /\ IsFiniteSet({s \in assets : s.template = r.template /\ s.id <= r.id})
         /\ RowNumber(r) \in Nat
<1>1. {s \in assets : s.template = r.template /\ s.id <= r.id} \in SUBSET assets
  OBVIOUS
<1> QED
  BY <1>1, FS_Subset, FS_CardinalityType DEF RowNumber, TypesOK

-----------------------------------------------------------------------------
(* Steps that leave the rows alone *)

LEMMA DueStays ==
  ASSUME TypesOK, TypesOK', assets' = assets, auctions' = auctions, lib <= lib', NEW q, Due(q)
  PROVE  Due(q)'
<1>1. \A r : r \in assets => RowNumber(r)' = RowNumber(r)
  BY DEF RowNumber
<1>2. \A a : a \in auctions => (Complete(a)' <=> Complete(a)) /\ RangeOf(a)' = RangeOf(a)
  BY DEF Complete, RangeOf, Items
<1>3. \A n \in Nat : n <= lib => n <= lib'
  BY DEF TypesOK
<1>4. /\ \A r \in assets : r.block \in Nat
      /\ \A a \in auctions : a.block \in Nat
  BY DEF TypesOK, AssetRow
<1>5. ASSUME NEW i \in DOMAIN q, q[i].table = "assets"
      PROVE  MintDue(q, i)'
  <2>1. MintDue(q, i)
    BY <1>5 DEF Due
  <2> QED
    BY <1>1, <1>3, <1>4, <2>1 DEF MintDue
<1>6. ASSUME NEW i \in DOMAIN q, q[i].table # "assets"
      PROVE  RangeDue(q[i])'
  <2>1. RangeDue(q[i])
    BY <1>6 DEF Due
  <2> QED
    BY <1>2, <1>3, <1>4, <2>1 DEF RangeDue
<1> QED
  BY <1>5, <1>6 DEF Due

LEMMA RowsStay ==
  ASSUME Inv, TypesOK', assets' = assets, auctions' = auctions, applied' = applied, lib <= lib'
  PROVE  RowsInv' /\ Numbered' /\ Ranged' /\ \A q : Due(q) => Due(q)'
<1>1. \A r : r \in assets => RowNumber(r)' = RowNumber(r)
  BY DEF RowNumber
<1>2. \A a : a \in auctions => (Complete(a)' <=> Complete(a)) /\ RangeOf(a)' = RangeOf(a)
  BY DEF Complete, RangeOf, Items
<1>3. \A n \in Nat : n <= lib => n <= lib'
  BY DEF Inv, TypesOK
<1>4. /\ \A r \in assets : r.block \in Nat
      /\ \A a \in auctions : a.block \in Nat
  BY DEF Inv, TypesOK, AssetRow
<1>5. RowsInv'
  BY DEF Inv, RowsInv, AssetRows, AuctionRows
<1>6. Numbered'
  BY <1>1, <1>3, <1>4 DEF Inv, Numbered
<1>7. Ranged'
  BY <1>2, <1>3, <1>4 DEF Inv, Ranged
<1>8. \A q : Due(q) => Due(q)'
  BY DueStays DEF Inv
<1> QED
  BY <1>5, <1>6, <1>7, <1>8

-----------------------------------------------------------------------------
(* The chain *)

LEMMA KnownExtends ==
  ASSUME NEW s \in Seq(BlockRecord), NEW b \in BlockRecord, Known(s),
         b.items \subseteq 1 .. Cardinality(MintsIn(s))
  PROVE  Known(Append(s, b))
<1> DEFINE t == Append(s, b)
<1>1. /\ Len(s) \in Nat /\ DOMAIN s = 1 .. Len(s)
      /\ DOMAIN t = 1 .. (Len(s) + 1)
      /\ \A i \in DOMAIN s : t[i] = s[i]
      /\ t[Len(s) + 1] = b
  BY AppendTo
<1>t. t \in Seq(BlockRecord)
  BY AppendTo
<1> HIDE DEF t
<1>2. \A k : k <= Len(s) => (k \in MintsIn(t) <=> k \in MintsIn(s))
             /\ (k \in AuctionsIn(t) => k \in AuctionsIn(s))
  BY <1>1 DEF MintsIn, AuctionsIn, IsMint
<1>3. ASSUME NEW n \in AuctionsIn(t), NEW i \in t[n].items
      PROVE  i <= Cardinality({k \in MintsIn(t) : k < n})
  <2>1. n \in 1 .. (Len(s) + 1)
    BY <1>1 DEF AuctionsIn
  <2>2. MintsIn(t) \in SUBSET (1 .. (Len(s) + 1)) /\ MintsIn(s) \in SUBSET (1 .. Len(s))
    BY <1>1 DEF MintsIn
  <2>3. {k \in MintsIn(t) : k < n} = {k \in MintsIn(s) : k < n}
    <3>1. \A k \in MintsIn(t) : k < n => k <= Len(s)
      BY <1>1, <2>1, <2>2
    <3>2. \A k \in MintsIn(s) : k <= Len(s)
      BY <1>1, <2>2
    <3> QED
      BY <1>2, <3>1, <3>2
  <2>4. CASE n = Len(s) + 1
    <3>1. i \in 1 .. Cardinality(MintsIn(s))
      BY <1>1, <1>3, <2>4
    <3>2. {k \in MintsIn(s) : k < n} = MintsIn(s)
      BY <1>1, <2>2, <2>4
    <3> DEFINE c == Cardinality(MintsIn(s))
    <3>4. c \in Nat /\ i \in 1 .. c
      BY <3>1, MintsAreFinite
    <3>5. Cardinality({k \in MintsIn(t) : k < n}) = c
      BY <2>3, <3>2
    <3> HIDE DEF c
    <3> QED
      BY <3>4, <3>5
  <2>5. CASE n \in 1 .. Len(s)
    <3>1. n \in AuctionsIn(s) /\ t[n] = s[n]
      BY <1>1, <1>2, <2>5
    <3> QED
      BY <1>3, <2>3, <3>1 DEF Known
  <2> QED
    BY <1>1, <2>1, <2>4, <2>5
<1> QED
  BY <1>3 DEF Known, t

LEMMA KnownPrefix ==
  ASSUME NEW s \in Seq(BlockRecord), NEW n \in 0 .. Len(s), Known(s)
  PROVE  Known(SubSeq(s, 1, n))
<1> DEFINE t == SubSeq(s, 1, n)
<1>1. /\ Len(s) \in Nat /\ DOMAIN s = 1 .. Len(s)
      /\ DOMAIN t = 1 .. n
      /\ \A i \in 1 .. n : t[i] = s[i] /\ i \in DOMAIN s
  <2>1. DOMAIN t = 1 .. n /\ \A i \in 1 .. n : t[i] = s[i]
    BY PrefixOf
  <2>2. Len(s) \in Nat /\ DOMAIN s = 1 .. Len(s)
    BY LenProperties
  <2>3. \A i \in 1 .. n : i \in DOMAIN s
    BY <2>2
  <2> QED
    BY <2>1, <2>2, <2>3
<1> HIDE DEF t
<1>2. ASSUME NEW m \in AuctionsIn(t), NEW i \in t[m].items
      PROVE  i <= Cardinality({k \in MintsIn(t) : k < m})
  <2>1. m \in 1 .. n /\ m \in AuctionsIn(s) /\ t[m] = s[m]
    BY <1>1 DEF AuctionsIn, IsMint
  <2>2. {k \in MintsIn(t) : k < m} = {k \in MintsIn(s) : k < m}
    <3>1. \A k \in 1 .. n : k \in MintsIn(t) <=> k \in MintsIn(s)
      BY <1>1 DEF MintsIn, IsMint
    <3>2. \A k \in MintsIn(t) : k \in 1 .. n
      BY <1>1 DEF MintsIn
    <3>3. \A k \in MintsIn(s) : k < m => k \in 1 .. n
      BY <1>1, <2>1 DEF MintsIn
    <3> QED
      BY <3>1, <3>2, <3>3
  <2> QED
    BY <1>2, <2>1, <2>2 DEF Known
<1> QED
  BY <1>2 DEF Known, t

LEMMA ProduceInv ==
  ASSUME Inv, Produce
  PROVE  Inv'
<1> USE DEF Inv
<1>1. /\ UNCHANGED <<lib, forks, assets, auctions, revBlocks, applied, running, seen,
                     lastIrreversibleBlock, tx, calls>>
  BY DEF Produce, storeVars, readerVars, callVars
<1>t. /\ chain \in Seq(BlockRecord) /\ seen \in Seq(BlockRecord) /\ applied \in Seq(BlockRecord)
      /\ lib \in Nat /\ forks \in Nat
  BY DEF TypesOK
<1>2. PICK b : /\ chain' = Append(chain, b) /\ b \in BlockRecord /\ b.branch = forks
               /\ b.items \subseteq 1 .. Cardinality(MintsIn(chain))
  <2>1. \/ \E t \in Templates \cup {NoTemplate} : chain' = Append(chain, MintOf(t, forks))
        \/ \E is \in SUBSET (1 .. Cardinality(MintsIn(chain))) \ {{}} :
             chain' = Append(chain, AuctionOf(is, forks))
    BY DEF Produce
  <2>2. CASE \E t \in Templates \cup {NoTemplate} : chain' = Append(chain, MintOf(t, forks))
    <3>1. PICK t \in Templates \cup {NoTemplate} : chain' = Append(chain, MintOf(t, forks))
      BY <2>2
    <3>2. MintOf(t, forks) \in BlockRecord /\ MintOf(t, forks).branch = forks
          /\ MintOf(t, forks).items = {}
      BY <1>t DEF MintOf, BlockRecord
    <3> QED
      BY <3>1, <3>2
  <2>3. CASE \E is \in SUBSET (1 .. Cardinality(MintsIn(chain))) \ {{}} :
               chain' = Append(chain, AuctionOf(is, forks))
    <3>1. PICK is \in SUBSET (1 .. Cardinality(MintsIn(chain))) : chain' = Append(chain, AuctionOf(is, forks))
      BY <2>3
    <3>2. is \in SUBSET Nat
      <4>1. Cardinality(MintsIn(chain)) \in Nat
        BY <1>t, MintsAreFinite
      <4> QED
        BY <4>1
    <3>3. AuctionOf(is, forks) \in BlockRecord /\ AuctionOf(is, forks).branch = forks
          /\ AuctionOf(is, forks).items = is
      BY <1>t, <3>2 DEF AuctionOf, BlockRecord
    <3> QED
      BY <3>1, <3>3
  <2> QED
    BY <2>1, <2>2, <2>3
<1>3. /\ Len(chain) \in Nat /\ DOMAIN chain = 1 .. Len(chain)
      /\ chain' \in Seq(BlockRecord) /\ Len(chain') = Len(chain) + 1
      /\ DOMAIN chain' = 1 .. (Len(chain) + 1)
      /\ \A i \in DOMAIN chain : chain'[i] = chain[i]
      /\ chain'[Len(chain) + 1] = b
  BY <1>t, <1>2, AppendTo
<1>4. TypesOK'
  BY <1>1, <1>3 DEF TypesOK
<1>5. BranchInv'
  <2>1. Known(chain')
    BY <1>t, <1>2, KnownExtends DEF ChainInv, BranchInv, Branches
  <2>2. \A n \in DOMAIN chain' : chain'[n].branch <= forks
    <3>1. \A n \in DOMAIN chain : chain[n].branch <= forks
      BY DEF ChainInv, BranchInv, Branches
    <3>2. \A n \in DOMAIN chain' : n \in DOMAIN chain \/ n = Len(chain) + 1
      BY <1>3
    <3>3. forks <= forks
      BY <1>t
    <3> QED
      BY <1>2, <1>3, <3>1, <3>2, <3>3
  <2>3. ASSUME NEW s \in {seen, applied}
        PROVE  /\ Known(s)
               /\ \A n \in DOMAIN s : s[n].branch <= forks
               /\ \A n \in DOMAIN s : n > Len(chain') => s[n].branch < forks
    <3>1. /\ Known(s)
          /\ \A n \in DOMAIN s : s[n].branch <= forks
          /\ \A n \in DOMAIN s : n > Len(chain) => s[n].branch < forks
      BY DEF ChainInv, BranchInv, Branches
    <3>2. \A n \in DOMAIN s : n > Len(chain') => n > Len(chain)
      <4>1. DOMAIN s = 1 .. Len(s) /\ Len(s) \in Nat
        BY <1>t, LenProperties
      <4> QED
        BY <1>3, <4>1
    <3> QED
      BY <3>1, <3>2
  <2> QED
    BY <1>1, <2>1, <2>2, <2>3 DEF BranchInv, Branches
<1>6. LibInv'
  <2>1. \A n \in Nat : n <= Len(chain) => n <= Len(chain')
    BY <1>3
  <2>2. ASSUME NEW s \in {seen, applied}, NEW n \in DOMAIN s, n <= lib
        PROVE  s[n] = chain'[n]
    <3>1. n \in 1 .. Len(s) /\ Len(s) \in Nat
      BY <1>t, LenProperties
    <3>2. n \in DOMAIN chain
      BY <1>t, <1>3, <2>2, <3>1 DEF ChainInv, LibInv
    <3> QED
      BY <1>3, <2>2, <3>2 DEF ChainInv, LibInv
  <2> QED
    BY <1>1, <1>t, <2>1, <2>2 DEF ChainInv, LibInv
<1>7. TxInv'
  <2>1. ASSUME tx.from # 0, tx.from \in DOMAIN applied, tx.from \in DOMAIN chain'
        PROVE  applied[tx.from] # chain'[tx.from]
    <3>1. CASE tx.from \in DOMAIN chain
      BY <1>3, <2>1, <3>1 DEF ChainInv, TxInv
    <3>2. CASE tx.from = Len(chain) + 1
      <4>1. applied[tx.from].branch < forks
        BY <1>3, <2>1, <3>2 DEF ChainInv, BranchInv
      <4>2. applied[tx.from] \in BlockRecord
        BY <1>t, <2>1, Kinds
      <4>3. applied[tx.from].branch \in Nat
        BY <4>2 DEF BlockRecord
      <4> QED
        BY <1>2, <1>3, <1>t, <3>2, <4>1, <4>3
    <3> QED
      BY <1>3, <2>1, <3>1, <3>2
  <2> QED
    BY <1>1, <2>1 DEF ChainInv, TxInv
<1>8. lib <= lib'
  BY <1>1, <1>t
<1>9. RowsInv' /\ Numbered' /\ Ranged' /\ \A q : Due(q) => Due(q)'
  BY <1>1, <1>4, <1>8, RowsStay
<1>10. CallsInv'
  BY <1>1, <1>9 DEF CallsInv
<1> QED
  BY <1>4, <1>5, <1>6, <1>7, <1>9, <1>10 DEF ChainInv

LEMMA ForkInv ==
  ASSUME Inv, Fork
  PROVE  Inv'
<1> USE DEF Inv
<1>1. /\ UNCHANGED <<lib, assets, auctions, revBlocks, applied, running, seen,
                     lastIrreversibleBlock, tx, calls>>
      /\ forks' = forks + 1
  BY DEF Fork, storeVars, readerVars, callVars
<1>t. /\ chain \in Seq(BlockRecord) /\ seen \in Seq(BlockRecord) /\ applied \in Seq(BlockRecord)
      /\ lib \in Nat /\ forks \in Nat /\ Len(chain) \in Nat /\ DOMAIN chain = 1 .. Len(chain)
  BY Kinds DEF TypesOK
<1>2. PICK n \in lib .. Len(chain) - 1 : chain' = SubSeq(chain, 1, n)
  BY DEF Fork
<1>3. /\ chain' \in Seq(BlockRecord) /\ Len(chain') = n /\ DOMAIN chain' = 1 .. n
      /\ \A i \in 1 .. n : chain'[i] = chain[i]
      /\ n \in 0 .. Len(chain)
  <2>1. n \in 0 .. Len(chain)
    BY <1>t
  <2> QED
    BY <1>t, <1>2, <2>1, PrefixOf
<1>4. TypesOK'
  BY <1>1, <1>3 DEF TypesOK
<1>5. BranchInv'
  <2>1. Known(chain')
    BY <1>t, <1>2, <1>3, KnownPrefix DEF ChainInv, BranchInv, Branches
  <2>2. \A n1 \in DOMAIN chain' : chain'[n1].branch <= forks'
    <3>1. \A k \in DOMAIN chain : chain[k].branch <= forks /\ chain[k].branch \in Nat
      BY <1>t, Kinds DEF ChainInv, BranchInv, Branches, BlockRecord
    <3>2. \A k \in DOMAIN chain' : k \in DOMAIN chain /\ chain'[k] = chain[k]
      BY <1>t, <1>3
    <3> QED
      BY <1>1, <1>t, <3>1, <3>2
  <2>3. ASSUME NEW s \in {seen, applied}
        PROVE  /\ Known(s)
               /\ \A k \in DOMAIN s : s[k].branch <= forks'
               /\ \A k \in DOMAIN s : k > Len(chain') => s[k].branch < forks'
    <3>1. Known(s) /\ \A k \in DOMAIN s : s[k].branch <= forks
      BY DEF ChainInv, BranchInv, Branches
    <3>2. \A k \in DOMAIN s : s[k].branch \in Nat
      BY <1>t, Kinds DEF BlockRecord
    <3> QED
      BY <1>1, <1>t, <3>1, <3>2
  <2> QED
    BY <1>1, <2>1, <2>2, <2>3 DEF BranchInv, Branches
<1>6. LibInv'
  <2>1. lib <= n
    BY <1>t
  <2>2. ASSUME NEW s \in {seen, applied}, NEW k \in DOMAIN s, k <= lib
        PROVE  s[k] = chain'[k]
    <3>1. k \in 1 .. Len(s) /\ Len(s) \in Nat
      BY <1>t, LenProperties
    <3>2. k \in 1 .. n
      BY <1>t, <2>1, <2>2, <3>1
    <3> QED
      BY <1>3, <2>2, <3>2 DEF ChainInv, LibInv
  <2> QED
    BY <1>1, <1>3, <2>1, <2>2 DEF ChainInv, LibInv
<1>7. TxInv'
  <2>1. ASSUME tx.from # 0, tx.from \in DOMAIN applied, tx.from \in DOMAIN chain'
        PROVE  applied[tx.from] # chain'[tx.from]
    <3>1. tx.from \in DOMAIN chain /\ chain'[tx.from] = chain[tx.from]
      BY <1>t, <1>3, <2>1
    <3> QED
      BY <2>1, <3>1 DEF ChainInv, TxInv
  <2> QED
    BY <1>1, <2>1 DEF ChainInv, TxInv
<1>8. lib <= lib'
  BY <1>1, <1>t
<1>9. RowsInv' /\ Numbered' /\ Ranged' /\ \A q : Due(q) => Due(q)'
  BY <1>1, <1>4, <1>8, RowsStay
<1>10. CallsInv'
  BY <1>1, <1>9 DEF CallsInv
<1> QED
  BY <1>4, <1>5, <1>6, <1>7, <1>9, <1>10 DEF ChainInv

LEMMA AdvanceLibInv ==
  ASSUME ~ LateReader, Inv, AdvanceLib
  PROVE  Inv'
<1> USE DEF Inv
<1>1. /\ UNCHANGED <<chain, forks, assets, auctions, revBlocks, applied, running, seen,
                     lastIrreversibleBlock, tx, calls>>
      /\ lib' = lib + 1 /\ lib < Len(chain)
      /\ \A s \in {seen, applied} : Common(s, chain) = Len(s) \/ lib < Common(s, chain)
  BY DEF AdvanceLib, storeVars, readerVars, callVars
<1>t. /\ chain \in Seq(BlockRecord) /\ seen \in Seq(BlockRecord) /\ applied \in Seq(BlockRecord)
      /\ lib \in Nat /\ lastIrreversibleBlock \in Nat /\ Len(chain) \in Nat
  BY Kinds DEF TypesOK
<1>4. TypesOK'
  BY <1>1, <1>t DEF TypesOK
<1>5. BranchInv'
  BY <1>1 DEF ChainInv, BranchInv, Branches
<1>6. LibInv'
  <2>2. ASSUME NEW s \in {seen, applied}, NEW n \in DOMAIN s, n <= lib + 1
        PROVE  s[n] = chain[n]
    <3>1. s \in Seq(BlockRecord) /\ n \in 1 .. Len(s) /\ Len(s) \in Nat
      BY <1>t, LenProperties
    <3>2. /\ Common(s, chain) \in Nat
          /\ \A k \in 1 .. Common(s, chain) : s[k] = chain[k]
      BY <1>t, <3>1, CommonFacts
    <3>3. n \in 1 .. Common(s, chain)
      BY <1>1, <1>t, <2>2, <3>1, <3>2
    <3> QED
      BY <3>2, <3>3
  <2>3. lib + 1 <= Len(chain) /\ lastIrreversibleBlock <= lib + 1
    BY <1>1, <1>t DEF ChainInv, LibInv
  <2> QED
    BY <1>1, <2>2, <2>3 DEF LibInv
<1>7. TxInv'
  <2>1. \A n \in Nat : n <= lib => n <= lib + 1
    BY <1>t
  <2>2. /\ \A n \in DOMAIN seen : n \in Nat
        /\ \A n \in DOMAIN applied : n \in Nat
    BY <1>t, Kinds
  <2> QED
    BY <1>1, <2>1, <2>2 DEF ChainInv, TxInv
<1>8. lib <= lib'
  BY <1>1, <1>t
<1>9. RowsInv' /\ Numbered' /\ Ranged' /\ \A q : Due(q) => Due(q)'
  BY <1>1, <1>4, <1>8, RowsStay
<1>10. CallsInv'
  BY <1>1, <1>9 DEF CallsInv
<1> QED
  BY <1>4, <1>5, <1>6, <1>7, <1>9, <1>10 DEF ChainInv

LEMMA StartInv ==
  ASSUME Inv, Start
  PROVE  Inv'
<1> USE DEF Inv
<1>1. UNCHANGED <<chain, lib, forks, assets, auctions, revBlocks, applied, seen,
                  lastIrreversibleBlock, tx, calls>>
  BY DEF Start, chainVars, storeVars, callVars
<1>2. TypesOK' /\ ChainInv'
  BY <1>1 DEF TypesOK, ChainInv, BranchInv, Branches, LibInv, TxInv
<1>3. lib <= lib'
  BY <1>1 DEF TypesOK
<1>4. RowsInv' /\ Numbered' /\ Ranged' /\ \A q : Due(q) => Due(q)'
  BY <1>1, <1>2, <1>3, RowsStay
<1>5. CallsInv'
  BY <1>1, <1>4 DEF CallsInv
<1> QED
  BY <1>2, <1>4, <1>5

LEMMA ProcessBlockInv ==
  ASSUME Inv, ProcessBlock
  PROVE  Inv'
<1> USE DEF Inv
<1> DEFINE n == Common(seen, chain) + 1
<1>1. /\ UNCHANGED <<chain, lib, forks, assets, auctions, revBlocks, applied, running, calls>>
      /\ seen' = SubSeq(chain, 1, n) /\ lastIrreversibleBlock' = lib
      /\ ~ tx.commit /\ n <= Len(chain)
  BY DEF ProcessBlock, chainVars, storeVars, callVars
<1>t. /\ chain \in Seq(BlockRecord) /\ seen \in Seq(BlockRecord) /\ applied \in Seq(BlockRecord)
      /\ lib \in Nat /\ forks \in Nat /\ tx \in [from : Nat, reversible : SUBSET Nat, commit : BOOLEAN]
      /\ Len(chain) \in Nat /\ DOMAIN chain = 1 .. Len(chain)
      /\ Len(seen) \in Nat /\ DOMAIN seen = 1 .. Len(seen)
      /\ Len(applied) \in Nat /\ DOMAIN applied = 1 .. Len(applied)
  BY Kinds DEF TypesOK
<1>2. /\ n \in Nat \ {0} /\ n <= Len(seen) + 1 /\ n <= Len(chain)
      /\ \A k \in 1 .. n - 1 : k \in DOMAIN seen /\ k \in DOMAIN chain /\ seen[k] = chain[k]
      /\ n \in DOMAIN seen /\ n \in DOMAIN chain => seen[n] # chain[n]
  <2> DEFINE c == Common(seen, chain)
  <2>1. /\ c \in Nat /\ c <= Len(seen)
        /\ \A k \in 1 .. c : k \in DOMAIN seen /\ k \in DOMAIN chain /\ seen[k] = chain[k]
        /\ c + 1 \in DOMAIN seen /\ c + 1 \in DOMAIN chain => seen[c + 1] # chain[c + 1]
    BY <1>t, CommonFacts
  <2>2. n = c + 1 /\ n <= Len(chain)
    BY <1>1
  <2> HIDE DEF c, n
  <2>3. n - 1 = c
    BY <2>1, <2>2
  <2> QED
    BY <1>t, <2>1, <2>2, <2>3
<1>3. PICK commit \in BOOLEAN :
        tx' = [from       |-> IF tx.from = 0 THEN n ELSE Min({tx.from, n}),
               reversible |-> IF n > lib THEN {n} ELSE {},
               commit     |-> commit]
            /\ (n > lib => commit)
  BY DEF ProcessBlock
<1> HIDE DEF n
<1>4. /\ tx'.from \in 1 .. n
      /\ tx.from = 0 => tx'.from = n
      /\ tx.from # 0 => tx'.from <= tx.from /\ (tx'.from = tx.from \/ tx'.from = n)
      /\ tx'.reversible = (IF n > lib THEN {n} ELSE {})
      /\ tx'.commit = commit
  <2>1. CASE tx.from = 0
    BY <1>2, <1>3, <2>1
  <2>2. CASE tx.from # 0
    <3>1. {tx.from, n} \in SUBSET Nat /\ {tx.from, n} # {}
      BY <1>2, <1>t
    <3>2. Min({tx.from, n}) \in {tx.from, n} /\ \A y \in {tx.from, n} : Min({tx.from, n}) <= y
      BY <3>1, LeastIsMin
    <3>3. tx'.from = Min({tx.from, n})
      BY <1>3, <2>2
    <3>4. tx'.from \in {tx.from, n} /\ tx'.from <= n /\ tx'.from <= tx.from
      BY <3>2, <3>3
    <3>5. tx.from \in Nat
      BY <1>t
    <3> QED
      BY <1>2, <1>3, <2>2, <3>4, <3>5
  <2> QED
    BY <2>1, <2>2
<1>5. /\ seen' \in Seq(BlockRecord) /\ Len(seen') = n /\ DOMAIN seen' = 1 .. n
      /\ \A i \in 1 .. n : seen'[i] = chain[i]
      /\ n \in 0 .. Len(chain)
  <2>1. n \in 0 .. Len(chain)
    BY <1>t, <1>2
  <2> QED
    BY <1>1, <1>t, <2>1, PrefixOf
<1>6. TypesOK'
  <2>1. tx' \in [from : Nat, reversible : SUBSET Nat, commit : BOOLEAN]
    <3>1. tx'.from \in Nat /\ tx'.reversible \in SUBSET Nat
      BY <1>2, <1>4
    <3>2. tx' = [from |-> tx'.from, reversible |-> tx'.reversible, commit |-> commit]
      BY <1>3
    <3> QED
      BY <3>1, <3>2
  <2> QED
    BY <1>1, <1>5, <1>t, <2>1 DEF TypesOK
<1>7. BranchInv'
  <2>1. Known(seen')
    BY <1>t, <1>1, <1>5, KnownPrefix DEF ChainInv, BranchInv, Branches
  <2>2. \A k \in DOMAIN seen' : seen'[k].branch <= forks
    <3>1. \A k \in DOMAIN chain : chain[k].branch <= forks
      BY DEF ChainInv, BranchInv, Branches
    <3>2. \A k \in DOMAIN seen' : k \in DOMAIN chain /\ seen'[k] = chain[k]
      BY <1>t, <1>5
    <3> QED
      BY <3>1, <3>2
  <2>3. \A k \in DOMAIN seen' : ~ (k > Len(chain))
    BY <1>t, <1>5
  <2> QED
    BY <1>1, <2>1, <2>2, <2>3 DEF ChainInv, BranchInv, Branches
<1>8. LibInv'
  <2>1. \A k \in DOMAIN seen' : seen'[k] = chain[k]
    BY <1>5
  <2>2. lib <= lib
    BY <1>t
  <2> QED
    BY <1>1, <2>1, <2>2 DEF ChainInv, LibInv
<1>9. TxInv'
  <2>1. tx'.from <= Len(seen') /\ tx'.from # 0 /\ tx'.from \in Nat
    BY <1>2, <1>4, <1>5
  <2>2. tx'.from <= Len(applied) + 1
    <3>1. CASE tx.from = 0
      BY <1>2, <1>4, <3>1 DEF ChainInv, TxInv
    <3>2. CASE tx.from # 0
      BY <1>t, <1>4, <2>1, <3>2 DEF ChainInv, TxInv
    <3> QED
      BY <3>1, <3>2
  <2>3. ASSUME NEW k \in 1 .. tx'.from - 1
        PROVE  applied[k] = seen'[k]
    <3>1. k \in 1 .. n - 1 /\ k \in 1 .. n
      BY <1>2, <1>4, <2>1
    <3>2. seen'[k] = chain[k] /\ seen[k] = chain[k] /\ k \in DOMAIN seen
      BY <1>2, <1>5, <3>1
    <3>3. applied[k] = seen[k]
      <4>1. CASE tx.from = 0
        BY <4>1 DEF ChainInv, TxInv
      <4>2. CASE tx.from # 0
        <5>1. k \in 1 .. tx.from - 1
          BY <1>4, <1>t, <2>1, <4>2
        <5> QED
          BY <4>2, <5>1 DEF ChainInv, TxInv
      <4> QED
        BY <4>1, <4>2
    <3> QED
      BY <3>2, <3>3
  <2>4. ASSUME tx'.from \in DOMAIN applied, tx'.from \in DOMAIN chain
        PROVE  applied[tx'.from] # chain[tx'.from]
    <3>1. CASE tx.from # 0 /\ tx'.from = tx.from
      BY <2>4, <3>1 DEF ChainInv, TxInv
    <3>2. CASE tx'.from = n /\ (tx.from = 0 \/ n < tx.from)
      <4>1. n \in DOMAIN seen /\ applied[n] = seen[n]
        <5>1. CASE tx.from = 0
          BY <2>4, <3>2, <5>1 DEF ChainInv, TxInv
        <5>2. CASE tx.from # 0
          <6>1. n \in 1 .. tx.from - 1 /\ tx.from <= Len(seen)
            BY <1>2, <1>t, <3>2, <5>2 DEF ChainInv, TxInv
          <6>2. n \in 1 .. Len(seen)
            BY <1>2, <1>t, <6>1
          <6> QED
            BY <1>t, <5>2, <6>1, <6>2 DEF ChainInv, TxInv
        <5> QED
          BY <5>1, <5>2
      <4> QED
        BY <1>2, <2>4, <3>2, <4>1
    <3>3. tx.from # 0 /\ tx'.from = n => n = tx.from \/ n < tx.from
      BY <1>2, <1>4, <1>t
    <3> QED
      BY <1>4, <3>1, <3>2, <3>3
  <2>5. ASSUME NEW k \in DOMAIN seen', k >= tx'.from, k \notin tx'.reversible
        PROVE  k <= lib
    <3>1. k \in 1 .. n
      BY <1>5
    <3>2. CASE k = n
      BY <1>2, <1>4, <1>t, <2>5, <3>2
    <3>3. CASE k < n
      <4>1. tx.from # 0 /\ tx'.from = tx.from
        BY <1>2, <1>4, <2>1, <2>5, <3>1, <3>3
      <4>2. k \in DOMAIN seen
        BY <1>2, <3>1, <3>3
      <4>3. tx.reversible = {}
        BY <1>1 DEF ChainInv, TxInv
      <4> QED
        BY <2>5, <4>1, <4>2, <4>3 DEF ChainInv, TxInv
    <3> QED
      BY <1>2, <3>1, <3>2, <3>3
  <2>6. ~ tx'.commit => tx'.reversible = {}
    BY <1>3, <1>4
  <2> QED
    BY <1>1, <2>1, <2>2, <2>3, <2>4, <2>5, <2>6 DEF ChainInv, TxInv
<1>10. lib <= lib'
  BY <1>1, <1>t
<1>11. RowsInv' /\ Numbered' /\ Ranged' /\ \A q : Due(q) => Due(q)'
  BY <1>1, <1>6, <1>10, RowsStay
<1>12. CallsInv'
  BY <1>1, <1>11 DEF CallsInv
<1> QED
  BY <1>6, <1>7, <1>8, <1>9, <1>11, <1>12 DEF ChainInv

LEMMA StopInv ==
  ASSUME Inv, Stop
  PROVE  Inv'
<1> USE DEF Inv
<1>1. /\ UNCHANGED <<chain, lib, forks, assets, auctions, revBlocks, applied>>
      /\ seen' = applied /\ lastIrreversibleBlock' = 0 /\ tx' = NoTx
      /\ calls' = [c \in Owners |-> IF c = "filler" THEN Idle ELSE calls["filler"]]
  BY DEF Stop, chainVars, storeVars
<1>t. /\ applied \in Seq(BlockRecord) /\ lib \in Nat
  BY DEF TypesOK
<1>2. PICK U : calls \in [Owners -> Seq(U)]
  BY DEF TypesOK
<1>3. tx'.from = 0 /\ tx'.reversible = {} /\ tx'.commit = FALSE
      /\ tx' \in [from : Nat, reversible : SUBSET Nat, commit : BOOLEAN]
  BY <1>1 DEF NoTx
<1>4. "filler" \in Owners /\ "dead filler" \in Owners
  BY DEF Owners
<1>5. calls' \in [Owners -> Seq(U)]
  <2>1. Idle \in Seq(U)
    BY Empty DEF Idle
  <2> QED
    BY <1>1, <1>2, <1>4, <2>1
<1>6. TypesOK'
  BY <1>1, <1>3, <1>5, <1>t DEF TypesOK
<1>7. BranchInv'
  BY <1>1 DEF ChainInv, BranchInv, Branches
<1>8. LibInv'
  <2>1. 0 <= lib
    BY <1>t
  <2> QED
    BY <1>1, <2>1 DEF ChainInv, LibInv
<1>9. TxInv'
  BY <1>1, <1>3 DEF ChainInv, TxInv
<1>10. lib <= lib'
  BY <1>1, <1>t
<1>11. RowsInv' /\ Numbered' /\ Ranged' /\ \A q : Due(q) => Due(q)'
  BY <1>1, <1>6, <1>10, RowsStay
<1>12. CallsInv'
  <2>1. \A c \in Owners : calls'[c] = Idle \/ calls'[c] = calls["filler"]
    BY <1>1
  <2>2. \A q : q = calls["filler"] => Due(q)
    BY <1>4 DEF CallsInv
  <2>3. Due(Idle)'
    BY Empty DEF Due, Idle
  <2>4. \A q \in {calls'[c] : c \in Owners} : q = Idle \/ q = calls["filler"]
    BY <2>1
  <2>5. \A q \in {calls'[c] : c \in Owners} : Due(q)'
    <3> SUFFICES ASSUME NEW q \in {calls'[c] : c \in Owners}
                 PROVE  Due(q)'
      OBVIOUS
    <3>1. CASE q = Idle
      BY <2>3, <3>1
    <3>2. CASE q = calls["filler"]
      <4>1. Due(q)
        BY <2>2, <3>2
      <4> QED
        BY <1>11, <4>1
    <3> QED
      BY <2>4, <3>1, <3>2
  <2> QED
    BY <2>5 DEF CallsInv
<1> QED
  BY <1>6, <1>7, <1>8, <1>9, <1>11, <1>12 DEF ChainInv

-----------------------------------------------------------------------------
(* What a call has to do *)

LEMMA CallInv ==
  ASSUME Inv, NEW T, NEW l \in Seq(T), Due(l), calls' = [calls EXCEPT !["filler"] = l],
         UNCHANGED <<chainVars, storeVars, readerVars>>
  PROVE  Inv'
<1> USE DEF Inv
<1>1. UNCHANGED <<chain, lib, forks, assets, auctions, revBlocks, applied, running, seen,
                  lastIrreversibleBlock, tx>>
  BY DEF chainVars, storeVars, readerVars
<1>2. PICK U : calls \in [Owners -> Seq(U)]
  BY DEF TypesOK
<1>3. calls' \in [Owners -> Seq(U \cup T)]
  <2>1. l \in Seq(U \cup T) /\ \A c \in Owners : calls[c] \in Seq(U \cup T)
    <3>1. Seq(U) \subseteq Seq(U \cup T) /\ Seq(T) \subseteq Seq(U \cup T)
      OBVIOUS
    <3> QED
      BY <1>2, <3>1
  <2> QED
    BY <1>2, <2>1
<1>4. TypesOK'
  BY <1>1, <1>3 DEF TypesOK
<1>5. ChainInv'
  BY <1>1 DEF ChainInv, BranchInv, Branches, LibInv, TxInv
<1>6. lib <= lib'
  BY <1>1 DEF TypesOK
<1>7. RowsInv' /\ Numbered' /\ Ranged' /\ \A q : Due(q) => Due(q)'
  BY <1>1, <1>4, <1>6, RowsStay
<1>8. CallsInv'
  <2>1. \A c \in Owners : calls'[c] = l \/ calls'[c] = calls[c]
    BY <1>2
  <2>2. \A q \in {calls'[c] : c \in Owners} : Due(q)
    BY <2>1 DEF CallsInv
  <2> QED
    BY <1>7, <2>2 DEF CallsInv
<1> QED
  BY <1>4, <1>5, <1>7, <1>8

(* The list of the updates T of the rows S. *)
LEMMA ListOf ==
  ASSUME NEW S, IsFiniteSet(S), NEW T, NEW f \in Surjection(S, T), NEW l \in InOrder(T)
  PROVE  /\ IsFiniteSet(T) /\ Cardinality(T) \in Nat
         /\ l \in [1 .. Cardinality(T) -> T] /\ l \in Seq(T) /\ DOMAIN l = 1 .. Cardinality(T)
         /\ \A i, j \in DOMAIN l : i < j => l[i].id < l[j].id
<1>1. IsFiniteSet(T)
  BY FS_Surjection
<1>2. Cardinality(T) \in Nat
  BY <1>1, FS_CardinalityType
<1>3. l \in [1 .. Cardinality(T) -> T]
      /\ \A i, j \in DOMAIN l : i < j => l[i].id < l[j].id
  BY DEF InOrder, Lists
<1>4. l \in Seq(T)
  BY <1>2, <1>3
<1> QED
  BY <1>1, <1>2, <1>3, <1>4

LEMMA CallAuctionMintsInv ==
  ASSUME Inv, CallAuctionMints
  PROVE  Inv'
<1> USE DEF Inv
<1> DEFINE L == lastIrreversibleBlock
           Update(a) == [table |-> "auctions", id |-> a.id, range |-> RangeOf(a)]
<1>1. UNCHANGED <<chainVars, storeVars, readerVars>>
  BY DEF CallAuctionMints, Call
<1>2. PICK l \in AuctionUpdates(L) : calls' = [calls EXCEPT !["filler"] = l]
  BY DEF CallAuctionMints, Call
<1>3. PICK b : /\ b \subseteq {a \in auctions : a.range = Null /\ a.block <= L}
               /\ l \in InOrder({Update(a) : a \in {x \in b : Complete(x)}})
  BY <1>2 DEF AuctionUpdates
<1> DEFINE S == {x \in b : Complete(x)}
           T == {Update(a) : a \in S}
<1>4. l \in InOrder(T)
  BY <1>3
<1>5. S \in SUBSET auctions /\ IsFiniteSet(S)
  <2>1. S \in SUBSET auctions
    BY <1>3
  <2> QED
    BY <2>1, FS_Subset DEF TypesOK
<1>6. [a \in S |-> Update(a)] \in Surjection(S, T)
  <2> DEFINE f == [a \in S |-> Update(a)]
  <2>1. f \in [S -> T] /\ \A t \in T : \E a \in S : f[a] = t
    <3> HIDE DEF S
    <3> QED
      BY Zenon
  <2> QED
    BY <2>1 DEF Surjection
<1>7. l \in Seq(T) /\ DOMAIN l = 1 .. Cardinality(T) /\ l \in [1 .. Cardinality(T) -> T]
  <2> HIDE DEF S, T
  <2> QED
    BY <1>4, <1>5, <1>6, ListOf
<1>8. Due(l)
  <2> SUFFICES ASSUME NEW i \in DOMAIN l
               PROVE  l[i].table # "assets" /\ RangeDue(l[i])
    BY DEF Due
  <2>1. l[i] \in T
    <3> HIDE DEF T
    <3> QED
      BY <1>7
  <2>2. PICK a \in S : l[i] = Update(a)
    BY <2>1
  <2>3. a \in auctions /\ a.block <= L /\ Complete(a)
    BY <1>3
  <2>4. a.block <= lib
    <3>1. a.block \in Nat /\ L \in Nat /\ lib \in Nat /\ L <= lib
      BY <2>3 DEF TypesOK, ChainInv, LibInv
    <3> QED
      BY <2>3, <3>1
  <2>5. l[i].table = "auctions" /\ l[i].id = a.id /\ l[i].range = RangeOf(a)
    BY <2>2
  <2>6. l[i].table # "assets"
    BY <2>5
  <2> QED
    BY <2>3, <2>4, <2>5, <2>6 DEF RangeDue
<1> QED
  <2> HIDE DEF T
  <2> QED
    BY <1>1, <1>2, <1>7, <1>8, CallInv

(* Every update is in the list, and those of lower ids come before. *)
LEMMA EarlierInList ==
  ASSUME NEW T, NEW l \in [1 .. Cardinality(T) -> T], IsFiniteSet(T), Cardinality(T) \in Nat,
         \A t \in T : t.id \in Nat,
         \A i, j \in 1 .. Cardinality(T) : i < j => l[i].id < l[j].id,
         NEW i \in 1 .. Cardinality(T), NEW t \in T, t.id < l[i].id
  PROVE  \E j \in 1 .. i - 1 : j \in 1 .. Cardinality(T) /\ l[j] = t
<1> DEFINE D == 1 .. Cardinality(T)
<1>1. \A j \in D : l[j] \in T /\ l[j].id \in Nat /\ j \in Nat
  OBVIOUS
<1>2. IsFiniteSet(D) /\ Cardinality(D) = Cardinality(T)
  BY FS_Interval
<1>3. l \in Injection(D, T)
  <2>1. \A j, k \in D : l[j] = l[k] => j = k
    <3> SUFFICES ASSUME NEW j \in D, NEW k \in D, l[j] = l[k], j # k
                 PROVE  FALSE
      OBVIOUS
    <3>1. j < k \/ k < j
      BY <1>1
    <3>2. l[j].id < l[k].id \/ l[k].id < l[j].id
      BY <3>1
    <3> QED
      BY <1>1, <3>2
  <2> HIDE DEF D
  <2>2. l \in [D -> T]
    BY DEF D
  <2> QED
    BY <2>1, <2>2 DEF Injection, IsInjective
<1>4. l \in Surjection(D, T)
  <2> HIDE DEF D
  <2> QED
    BY <1>2, <1>3, FS_Injection
<1>5. PICK j \in D : l[j] = t
  <2> HIDE DEF D
  <2> QED
    BY <1>4 DEF Surjection
<1>6. j < i
  <2> SUFFICES ASSUME ~ (j < i)
               PROVE  FALSE
    OBVIOUS
  <2>1. j = i \/ i < j
    BY <1>1
  <2>2. l[j].id = l[i].id \/ l[i].id < l[j].id
    BY <2>1
  <2>3. l[j].id < l[i].id
    BY <1>5
  <2> QED
    BY <1>1, <2>2, <2>3
<1> QED
  BY <1>5, <1>6

(* What precedes a row of a batch is in the batch or has its number. *)
LEMMA BatchIsFirst ==
  ASSUME Inv, NEW L \in Int, NEW r \in AssetsToUpdate(L), NEW s \in assets,
         Before(s, r), s.mint = Null
  PROVE  s \in AssetsToUpdate(L)
<1> DEFINE Of(x) == {y \in Unnumbered(L) : Precedes(y, x)}
<1>1. r \in assets /\ r \in Unnumbered(L) /\ Cardinality(Of(r)) < BatchSize
  BY DEF AssetsToUpdate, Unnumbered
<1>2. s.block < r.block
  BY <1>1, AssetsById DEF Inv, RowsInv, Before
<1>3. s.block \in Nat /\ r.block \in Nat
  BY <1>1 DEF Inv, TypesOK, AssetRow
<1>4. s \in Unnumbered(L)
  BY <1>1, <1>2, <1>3 DEF Unnumbered, Before
<1>5. Of(s) \subseteq Of(r)
  <2> SUFFICES ASSUME NEW y \in Unnumbered(L), Precedes(y, s)
               PROVE  Precedes(y, r)
    OBVIOUS
  <2>1. y.id \in Nat /\ s.id \in Nat /\ r.id \in Nat
    BY <1>1 DEF Unnumbered, Inv, TypesOK, AssetRow
  <2> QED
    BY <2>1 DEF Precedes, Before
<1>6. IsFiniteSet(Of(r))
  <2>1. Of(r) \in SUBSET assets
    BY DEF Unnumbered
  <2> QED
    BY <2>1, FS_Subset DEF Inv, TypesOK
<1>7. Cardinality(Of(s)) <= Cardinality(Of(r)) /\ Cardinality(Of(r)) \in Nat /\ Cardinality(Of(s)) \in Nat
  <2> HIDE DEF Of
  <2> QED
    BY <1>5, <1>6, FS_Subset, FS_CardinalityType
<1>8. Cardinality(Of(s)) < BatchSize
  <2> DEFINE c == Cardinality(Of(s))
             d == Cardinality(Of(r))
  <2>1. c <= d /\ d \in Nat /\ c \in Nat /\ d < BatchSize /\ BatchSize \in Nat
    BY <1>1, <1>7, ConfigAssumption
  <2> HIDE DEF c, d
  <2>2. c < BatchSize
    BY <2>1
  <2> QED
    BY <2>2 DEF c
<1> QED
  BY <1>4, <1>8 DEF AssetsToUpdate

(* last_mint: the assets of a template that have numbers are numbered      *)
(* from one on.                                                            *)
LEMMA LastMintCounts ==
  ASSUME Inv, NEW r \in assets, r.mint = Null
  PROVE  LET N == {x \in assets : x.template = r.template /\ x.mint # Null}
         IN  /\ LastMint(r.template) = Cardinality(N)
             /\ \A x \in N : x.id < r.id
<1> USE DEF Inv
<1> DEFINE N == {x \in assets : x.template = r.template /\ x.mint # Null}
<1>1. \A x \in assets : x.id \in Nat
  BY DEF TypesOK, AssetRow
<1>2. \A x \in N : x.id < r.id
  <2> SUFFICES ASSUME NEW x \in N, ~ (x.id < r.id)
               PROVE  FALSE
    OBVIOUS
  <2>1. x # r /\ x \in assets /\ x.template = r.template /\ x.mint # Null
    OBVIOUS
  <2>2. x.id # r.id
    BY <2>1, AssetsById DEF RowsInv
  <2>3. Before(r, x)
    BY <1>1, <2>1, <2>2 DEF Before
  <2> QED
    BY <2>1, <2>3 DEF Numbered
<1>3. CASE N = {}
  <2>1. LastMint(r.template) = 0
    BY <1>3 DEF LastMint
  <2>2. Cardinality({}) = 0
    BY FS_EmptySet
  <2> QED
    BY <1>2, <1>3, <2>1, <2>2
<1>4. CASE N # {}
  <2> DEFINE Ids == {x.id : x \in N}
             Newest(x) == \A s \in N : s.id <= x.id
             m == CHOOSE x \in N : Newest(x)
  <2>1. \E x \in N : Newest(x)
    <3>1. Ids \in SUBSET Nat /\ Ids # {} /\ r.id \in Nat /\ \A y \in Ids : y <= r.id
      BY <1>1, <1>2, <1>4
    <3>2. \E y \in Ids : \A z \in Ids : z <= y
      <4> HIDE DEF Ids
      <4> QED
        BY <3>1, Greatest
    <3> QED
      BY <3>2
  <2>2. m \in N /\ Newest(m)
    <3> HIDE DEF Newest, N
    <3> QED
      BY <2>1
  <2> HIDE DEF m
  <2>3. m \in assets /\ m.template = r.template /\ m.mint # Null /\ \A s \in N : s.id <= m.id
    BY <2>2
  <2>4. m.mint = RowNumber(m) /\ \A s \in assets : Before(s, m) => s.mint # Null
    BY <2>3 DEF Numbered
  <2>5. {s \in assets : s.template = m.template /\ s.id <= m.id} = N
    <3>1. ASSUME NEW s \in assets, s.template = m.template, s.id <= m.id
          PROVE  s \in N
      <4>1. CASE s.id = m.id
        <5>1. s = m
          BY <2>3, <4>1, AssetsById DEF RowsInv
        <5> QED
          BY <2>2, <5>1
      <4>2. CASE s.id < m.id
        <5>1. s.mint # Null
          BY <2>4, <3>1, <4>2 DEF Before
        <5> QED
          BY <2>3, <3>1, <5>1
      <4> QED
        BY <1>1, <2>3, <3>1, <4>1, <4>2
    <3>2. ASSUME NEW s \in N
          PROVE  s \in assets /\ s.template = m.template /\ s.id <= m.id
      BY <2>3
    <3> HIDE DEF N
    <3> QED
      BY <3>1, <3>2
  <2>6. m.mint = Cardinality(N)
    BY <2>4, <2>5 DEF RowNumber
  <2>7. LastMint(r.template) = m.mint
    BY <1>4 DEF LastMint, m
  <2> QED
    BY <1>2, <2>6, <2>7
<1> QED
  BY <1>3, <1>4

(* A row that is updated in its place gets its row number. *)
LEMMA NewMintIsRowNumber ==
  ASSUME Inv, NEW L \in Int, NEW r \in AssetsToUpdate(L)
  PROVE  NewMint(AssetsToUpdate(L), r) = RowNumber(r)
<1> USE DEF Inv
<1> DEFINE N == {x \in assets : x.template = r.template /\ x.mint # Null}
           B == {s \in AssetsToUpdate(L) : s.template = r.template /\ s.id <= r.id}
           R == {s \in assets : s.template = r.template /\ s.id <= r.id}
<1>1. \A x \in AssetsToUpdate(L) : x \in assets /\ x.mint = Null
  BY DEF AssetsToUpdate, Unnumbered
<1>2. \A x \in assets : x.id \in Nat
  BY DEF TypesOK, AssetRow
<1>3. LastMint(r.template) = Cardinality(N) /\ \A x \in N : x.id < r.id
  BY <1>1, LastMintCounts
<1>4. R = N \cup B /\ N \cap B = {}
  <2>1. ASSUME NEW s \in R, s.mint = Null
        PROVE  s \in B
    <3>1. CASE s.id = r.id
      <4>1. s = r
        BY <1>1, <3>1, AssetsById DEF RowsInv
      <4> QED
        BY <2>1, <4>1
    <3>2. CASE s.id < r.id
      <4>1. s \in AssetsToUpdate(L)
        BY <2>1, <3>2, BatchIsFirst DEF Before
      <4> QED
        BY <2>1, <4>1
    <3> QED
      BY <1>1, <1>2, <2>1, <3>1, <3>2
  <2>2. \A s \in N : s.id <= r.id /\ s \in R
    BY <1>1, <1>2, <1>3
  <2>3. \A s \in B : s \in R /\ s \notin N
    BY <1>1
  <2>4. \A s \in R : s.mint # Null => s \in N
    OBVIOUS
  <2> HIDE DEF N, B, R
  <2> QED
    BY <2>1, <2>2, <2>3, <2>4
<1>5. IsFiniteSet(N) /\ IsFiniteSet(B)
  <2>1. N \in SUBSET assets /\ B \in SUBSET assets
    BY <1>1
  <2> QED
    BY <2>1, FS_Subset DEF TypesOK
<1>6. NewMint(AssetsToUpdate(L), r) = Cardinality(N) + Cardinality(B)
  BY <1>3 DEF NewMint
<1>7. RowNumber(r) = Cardinality(R)
  BY DEF RowNumber
<1> HIDE DEF N, B, R
<1>8. Cardinality(N \cup B) = Cardinality(N) + Cardinality(B) - Cardinality(N \cap B)
  BY <1>5, FS_Union
<1>9. Cardinality(N \cap B) = 0
  BY <1>4, FS_EmptySet
<1>10. Cardinality(N) \in Nat /\ Cardinality(B) \in Nat
  BY <1>5, FS_CardinalityType
<1> QED
  BY <1>4, <1>6, <1>7, <1>8, <1>9, <1>10

(* The list of a call within the irreversible rows is due. *)
LEMMA AssetUpdatesAreDue ==
  ASSUME Inv, NEW L \in Int, \A r \in assets : r.block <= L => r.block <= lib,
         NEW l \in AssetUpdates(L)
  PROVE  Due(l) /\ \E T : l \in Seq(T)
<1> USE DEF Inv
<1> DEFINE b == AssetsToUpdate(L)
           Update(r) == [table |-> "assets", id |-> r.id, mint |-> NewMint(b, r)]
           T == {Update(r) : r \in b}
<1>1. l \in InOrder(T)
  BY DEF AssetUpdates
<1>2. \A r \in b : /\ r \in assets /\ r.template # NoTemplate /\ r.block <= L
                   /\ r.mint = Null /\ r.id \in Nat
  BY DEF AssetsToUpdate, Unnumbered, TypesOK, AssetRow
<1>3. IsFiniteSet(b)
  <2>1. b \in SUBSET assets
    BY <1>2
  <2> QED
    BY <2>1, FS_Subset DEF TypesOK
<1>4. [r \in b |-> Update(r)] \in Surjection(b, T)
  <2> DEFINE f == [r \in b |-> Update(r)]
  <2>1. f \in [b -> T] /\ \A t \in T : \E r \in b : f[r] = t
    <3> HIDE DEF b
    <3> QED
      BY Zenon
  <2> QED
    BY <2>1 DEF Surjection
<1>5. /\ IsFiniteSet(T) /\ Cardinality(T) \in Nat
      /\ l \in [1 .. Cardinality(T) -> T] /\ l \in Seq(T) /\ DOMAIN l = 1 .. Cardinality(T)
      /\ \A i, j \in DOMAIN l : i < j => l[i].id < l[j].id
  <2> HIDE DEF b, T
  <2> QED
    BY <1>1, <1>3, <1>4, ListOf
<1>6. ASSUME NEW i \in DOMAIN l
      PROVE  l[i].table = "assets" /\ MintDue(l, i)
  <2>1. l[i] \in T
    <3> HIDE DEF T
    <3> QED
      BY <1>5, <1>6
  <2>2. PICK r \in b : l[i] = Update(r)
    <3> HIDE DEF b, Update
    <3> QED
      BY <2>1
  <2>3. l[i].table = "assets" /\ l[i].id = r.id /\ l[i].mint = NewMint(b, r)
    BY <2>2
  <2>4. r \in assets /\ r.template # NoTemplate /\ r.block <= lib
    BY <1>2
  <2>5. NewMint(b, r) = RowNumber(r)
    BY NewMintIsRowNumber
  <2>6. ASSUME NEW s \in assets, Before(s, r), s.mint = Null
        PROVE  \E j \in 1 .. i - 1 : l[j].table = "assets" /\ l[j].id = s.id
    <3>1. s \in b
      BY <2>6, BatchIsFirst
    <3> DEFINE t == Update(s)
    <3>2. t \in T /\ t.table = "assets" /\ t.id = s.id
      <4> HIDE DEF b
      <4> QED
        BY <3>1
    <3>3. t.id < l[i].id
      BY <2>3, <2>6, <3>2 DEF Before
    <3>4. \A u \in T : u.id \in Nat
      BY <1>2
    <3> HIDE DEF t, T
    <3>5. \E j \in 1 .. i - 1 : j \in 1 .. Cardinality(T) /\ l[j] = t
      BY <1>5, <1>6, <3>2, <3>3, <3>4, EarlierInList
    <3> QED
      BY <3>2, <3>5
  <2> HIDE DEF b, T
  <2> QED
    BY <2>3, <2>4, <2>5, <2>6 DEF MintDue
<1>7. Due(l)
  BY <1>6 DEF Due
<1> HIDE DEF T
<1> QED
  BY <1>5, <1>7

LEMMA CallAssetMintsInv ==
  ASSUME Inv, CallAssetMints
  PROVE  Inv'
<1> DEFINE L == lastIrreversibleBlock
<1>1. UNCHANGED <<chainVars, storeVars, readerVars>>
  BY DEF CallAssetMints, Call
<1>2. PICK l \in AssetUpdates(L) : calls' = [calls EXCEPT !["filler"] = l]
  BY DEF CallAssetMints, Call
<1>3. L \in Int
  BY DEF Inv, TypesOK
<1>4. \A r \in assets : r.block <= L => r.block <= lib
  <2>1. L \in Nat /\ lib \in Nat /\ L <= lib
    BY DEF Inv, TypesOK, ChainInv, LibInv
  <2>2. \A r \in assets : r.block \in Nat
    BY DEF Inv, TypesOK, AssetRow
  <2> QED
    BY <2>1, <2>2
<1>5. Due(l) /\ \E T : l \in Seq(T)
  BY <1>3, <1>4, AssetUpdatesAreDue
<1> QED
  BY <1>1, <1>2, <1>5, CallInv

(* A new process numbers the rows below the first reversible block. *)
LEMMA InitialMintsInv ==
  ASSUME Inv, InitialMints
  PROVE  Inv'
<1> DEFINE L == StartLimit
<1>1. UNCHANGED <<chainVars, storeVars, readerVars>>
  BY DEF InitialMints, Call
<1>2. PICK l \in AssetUpdates(L) : calls' = [calls EXCEPT !["filler"] = l]
  BY DEF InitialMints, Call
<1>t. lib \in Nat /\ revBlocks \in SUBSET Nat /\ \A r \in assets : r.block \in Nat
  BY DEF Inv, TypesOK, AssetRow
<1>3. L \in Int /\ \A r \in assets : r.block <= L => r.block <= lib
  <2>1. CASE revBlocks = {}
    BY <1>t, <2>1 DEF StartLimit
  <2>2. CASE revBlocks # {}
    <3>1. Min(revBlocks) \in Nat /\ \A n \in revBlocks : Min(revBlocks) <= n
      BY <1>t, <2>2, LeastIsMin
    <3>2. L = Min(revBlocks) - 1
      BY <2>2 DEF StartLimit
    <3>3. ASSUME NEW r \in assets, r.block <= L
          PROVE  r.block <= lib
      <4>1. r.block \in DOMAIN applied
        BY DEF Inv, RowsInv, AssetRows, MintsIn
      <4>2. r.block \notin revBlocks
        <5> DEFINE m == Min(revBlocks)
        <5>1. r.block \in Nat /\ m \in Nat /\ r.block <= m - 1 /\ \A n \in revBlocks : m <= n
          BY <1>t, <3>1, <3>2, <3>3
        <5> HIDE DEF m
        <5> QED
          BY <5>1
      <4> QED
        BY <4>1, <4>2 DEF Inv, ChainInv, TxInv
    <3> QED
      BY <3>1, <3>2, <3>3
  <2> QED
    BY <2>1, <2>2
<1>4. Due(l) /\ \E T : l \in Seq(T)
  BY <1>3, AssetUpdatesAreDue
<1> QED
  BY <1>1, <1>2, <1>4, CallInv

-----------------------------------------------------------------------------
(* A row gets its number or its range *)

(* Renumbered(g): g takes every asset to itself, but for its number. *)
Renumbered(old, new, g) ==
  /\ g \in [old -> new]
  /\ \A s \in new : \E r \in old : s = g[r]
  /\ \A r \in old : g[r].id = r.id /\ g[r].template = r.template /\ g[r].block = r.block
  /\ \A r \in old : r.mint # Null => g[r].mint # Null

LEMMA SameRowNumber ==
  ASSUME NEW old, IsFiniteSet(old), NEW new, NEW g, Renumbered(old, new, g),
         \A r, s \in old : r.id = s.id => r = s, NEW x
  PROVE  Cardinality({s \in new : s.template = x.template /\ s.id <= x.id}) =
         Cardinality({s \in old : s.template = x.template /\ s.id <= x.id})
<1> DEFINE S == {s \in old : s.template = x.template /\ s.id <= x.id}
           T == {s \in new : s.template = x.template /\ s.id <= x.id}
           f == [s \in S |-> g[s]]
<1>1. IsFiniteSet(S)
  <2>1. S \in SUBSET old
    OBVIOUS
  <2> QED
    BY <2>1, FS_Subset
<1>2. f \in [S -> T]
  BY DEF Renumbered
<1>3. \A t \in T : \E s \in S : f[s] = t
  <2> SUFFICES ASSUME NEW t \in T
               PROVE  \E s \in S : f[s] = t
    OBVIOUS
  <2>1. PICK s \in old : t = g[s]
    BY DEF Renumbered
  <2>2. s \in S
    BY <2>1 DEF Renumbered
  <2> QED
    BY <2>1, <2>2
<1>4. \A s, t \in S : f[s] = f[t] => s = t
  BY DEF Renumbered
<1> HIDE DEF S, T, f
<1>5. f \in Bijection(S, T)
  BY <1>2, <1>3, <1>4 DEF Bijection, Injection, Surjection, IsInjective
<1>6. Cardinality(T) = Cardinality(S)
  BY <1>1, <1>5, FS_Bijection DEF ExistsBijection
<1> QED
  BY <1>6 DEF S, T

(* The row of u, and what the update makes of the tables. *)
MintRow(u, r) ==
  /\ r \in assets /\ r.id = u.id /\ r.template # NoTemplate /\ r.block <= lib
  /\ u.mint = RowNumber(r)
  /\ \A s \in assets : Before(s, r) => s.mint # Null

LEMMA MintRowFacts ==
  ASSUME Inv, NEW u, NEW r0, MintRow(u, r0),
         assets' = {IF r.id = u.id THEN [r EXCEPT !.mint = u.mint] ELSE r : r \in assets}
  PROVE  /\ assets' \in SUBSET AssetRow /\ IsFiniteSet(assets')
         /\ \E g : /\ Renumbered(assets, assets', g)
                   /\ \A r \in assets : g[r].mint = IF r = r0 THEN RowNumber(r0) ELSE r.mint
                   /\ g[r0].mint # Null
         /\ \A x : RowNumber(x)' = RowNumber(x)
         /\ \A a : Complete(a) => Items(a)' = Items(a)
<1> USE DEF Inv
<1> DEFINE G(r) == IF r.id = u.id THEN [r EXCEPT !.mint = u.mint] ELSE r
           g == [r \in assets |-> G(r)]
<1>1. /\ r0 \in assets /\ r0.id = u.id /\ r0.template # NoTemplate
      /\ u.mint = RowNumber(r0) /\ u.mint \in Nat /\ u.mint # Null
  BY RowNumberFacts, ConfigAssumption DEF MintRow
<1>2. \A r \in assets : r.id = u.id <=> r = r0
  BY <1>1, AssetsById DEF RowsInv
<1>3. \A r \in assets : /\ G(r) \in AssetRow
                        /\ G(r).id = r.id /\ G(r).template = r.template /\ G(r).block = r.block
                        /\ G(r).mint = IF r = r0 THEN RowNumber(r0) ELSE r.mint
  <2> SUFFICES ASSUME NEW r \in assets
               PROVE  /\ G(r) \in AssetRow
                      /\ G(r).id = r.id /\ G(r).template = r.template /\ G(r).block = r.block
                      /\ G(r).mint = IF r = r0 THEN RowNumber(r0) ELSE r.mint
    OBVIOUS
  <2>1. r \in AssetRow
    BY DEF TypesOK
  <2>2. CASE r = r0
    <3>1. G(r) = [r EXCEPT !.mint = u.mint]
      BY <1>1, <2>2
    <3> QED
      BY <1>1, <2>1, <2>2, <3>1 DEF AssetRow
  <2>3. CASE r # r0
    <3>1. G(r) = r
      BY <1>2, <2>3
    <3> HIDE DEF G
    <3> QED
      BY <2>1, <2>3, <3>1 DEF AssetRow
  <2> QED
    BY <2>2, <2>3
<1>4. assets' = {G(r) : r \in assets}
  OBVIOUS
<1> HIDE DEF G
<1>5. g \in [assets -> assets'] /\ \A s \in assets' : \E r \in assets : s = g[r]
  BY <1>4
<1>6. \A r \in assets : g[r] = G(r)
  OBVIOUS
<1> HIDE DEF g
<1>7. Renumbered(assets, assets', g)
  <2>1. \A r \in assets : /\ g[r].id = r.id /\ g[r].template = r.template /\ g[r].block = r.block
                          /\ r.mint # Null => g[r].mint # Null
    <3> SUFFICES ASSUME NEW r \in assets
                 PROVE  /\ g[r].id = r.id /\ g[r].template = r.template /\ g[r].block = r.block
                        /\ r.mint # Null => g[r].mint # Null
      OBVIOUS
    <3>1. /\ g[r].id = r.id /\ g[r].template = r.template /\ g[r].block = r.block
          /\ g[r].mint = IF r = r0 THEN RowNumber(r0) ELSE r.mint
      BY <1>3, <1>6
    <3> QED
      BY <1>1, <3>1
  <2> QED
    BY <1>5, <2>1 DEF Renumbered
<1>8. assets' \in SUBSET AssetRow
  BY <1>3, <1>4
<1>9. IsFiniteSet(assets')
  <2>1. g \in Surjection(assets, assets')
    BY <1>5 DEF Surjection
  <2> QED
    BY <2>1, FS_Surjection DEF TypesOK
<1>10. \A r \in assets : g[r].mint = IF r = r0 THEN RowNumber(r0) ELSE r.mint
  BY <1>3, <1>6
<1>11. g[r0].mint # Null
  BY <1>1, <1>10
<1>12. \A x : RowNumber(x)' = RowNumber(x)
  <2> TAKE x
  <2>1. \A r, s \in assets : r.id = s.id => r = s
    BY AssetsById DEF RowsInv
  <2>2. IsFiniteSet(assets)
    BY DEF TypesOK
  <2>3. Cardinality({s \in assets' : s.template = x.template /\ s.id <= x.id}) =
        Cardinality({s \in assets : s.template = x.template /\ s.id <= x.id})
    <3> DEFINE new == assets'
    <3>1. Renumbered(assets, new, g)
      BY <1>7
    <3> HIDE DEF new
    <3>2. Cardinality({s \in new : s.template = x.template /\ s.id <= x.id}) =
          Cardinality({s \in assets : s.template = x.template /\ s.id <= x.id})
      BY <2>1, <2>2, <3>1, SameRowNumber
    <3> QED
      BY <3>2 DEF new
  <2> QED
    BY <2>3 DEF RowNumber
<1>13. \A a : Complete(a) => Items(a)' = Items(a)
  <2> SUFFICES ASSUME NEW a, Complete(a)
               PROVE  {r \in assets' : r.id \in a.items} = {r \in assets : r.id \in a.items}
    BY DEF Items
  <2>1. ASSUME NEW r \in assets, r.id \in a.items
        PROVE  G(r) = r
    <3>1. CASE r # r0
      BY <1>2, <3>1 DEF G
    <3>2. CASE r = r0
      <4>1. r.mint # Null
        BY <1>1, <2>1, <3>2 DEF Complete, Items
      <4>2. r.mint = u.mint /\ r \in AssetRow
        BY <1>1, <3>2, <4>1 DEF Numbered, TypesOK
      <4> QED
        BY <4>2 DEF G, AssetRow
    <3> QED
      BY <3>1, <3>2
  <2>2. \A r \in assets : G(r).id = r.id
    BY <1>3
  <2> QED
    BY <1>4, <2>1, <2>2
<1> QED
  BY <1>7, <1>8, <1>9, <1>10, <1>11, <1>12, <1>13

LEMMA MintUpdated ==
  ASSUME Inv, NEW u, NEW r0, MintRow(u, r0),
         assets' = {IF r.id = u.id THEN [r EXCEPT !.mint = u.mint] ELSE r : r \in assets},
         auctions' = auctions, applied' = applied, lib' = lib
  PROVE  /\ assets' \in SUBSET AssetRow /\ IsFiniteSet(assets')
         /\ RowsInv' /\ Numbered' /\ Ranged'
         /\ \A q : Due(q) => Due(q)'
         /\ \A U : \A q \in Seq(U) : q # <<>> /\ q[1].id = u.id /\ Due(q) => Due(Tail(q))'
<1> USE DEF Inv
<1>1. PICK g : /\ assets' \in SUBSET AssetRow /\ IsFiniteSet(assets')
               /\ Renumbered(assets, assets', g)
               /\ \A r \in assets : g[r].mint = IF r = r0 THEN RowNumber(r0) ELSE r.mint
               /\ g[r0].mint # Null
               /\ \A x : RowNumber(x)' = RowNumber(x)
               /\ \A a : Complete(a) => Items(a)' = Items(a)
  <2>1. /\ assets' \in SUBSET AssetRow /\ IsFiniteSet(assets')
        /\ \E g : /\ Renumbered(assets, assets', g)
                  /\ \A r \in assets : g[r].mint = IF r = r0 THEN RowNumber(r0) ELSE r.mint
                  /\ g[r0].mint # Null
        /\ \A x : RowNumber(x)' = RowNumber(x)
        /\ \A a : Complete(a) => Items(a)' = Items(a)
    BY ONLY MintRowFacts, Inv, MintRow(u, r0),
            assets' = {IF r.id = u.id THEN [r EXCEPT !.mint = u.mint] ELSE r : r \in assets}
  <2> QED
    BY ONLY <2>1, Zenon
<1>2. /\ \A s \in assets' : \E r \in assets : s = g[r]
      /\ \A r \in assets : g[r] \in assets'
      /\ \A r \in assets : g[r].id = r.id /\ g[r].template = r.template /\ g[r].block = r.block
      /\ \A r \in assets : r.mint # Null => g[r].mint # Null
  BY <1>1 DEF Renumbered
<1>3. r0 \in assets /\ r0.id = u.id /\ r0.template # NoTemplate /\ r0.block <= lib
      /\ \A s \in assets : Before(s, r0) => s.mint # Null
  BY DEF MintRow
<1>4. RowsInv'
  <2>1. AssetRows'
    <3>1. \A r \in assets : /\ r.block \in MintsIn(applied)
                            /\ r.id = IdIn(MintsIn(applied), r.block)
                            /\ r.template = applied[r.block].template
      BY DEF RowsInv, AssetRows
    <3>2. \A s \in assets' : /\ s.block \in MintsIn(applied)
                             /\ s.id = IdIn(MintsIn(applied), s.block)
                             /\ s.template = applied[s.block].template
      BY <1>2, <3>1
    <3>3. \A s, t \in assets' : s.block = t.block => s = t
      <4> SUFFICES ASSUME NEW s \in assets', NEW t \in assets', s.block = t.block
                   PROVE  s = t
        OBVIOUS
      <4>1. PICK r \in assets : s = g[r]
        BY <1>2
      <4>2. PICK v \in assets : t = g[v]
        BY <1>2
      <4>3. r.block = v.block
        BY <1>2, <4>1, <4>2
      <4>4. r = v
        BY <4>3 DEF RowsInv, AssetRows
      <4> QED
        BY <4>1, <4>2, <4>4
    <3> QED
      BY <3>2, <3>3 DEF AssetRows
  <2>2. AuctionRows'
    BY DEF RowsInv, AuctionRows
  <2> QED
    BY <2>1, <2>2 DEF RowsInv
<1>5. \A r \in assets : RowNumber(g[r]) = RowNumber(r)
  BY <1>2 DEF RowNumber
<1>6. Numbered'
  <2> SUFFICES ASSUME NEW s \in assets', s.mint # Null
               PROVE  /\ s.template # NoTemplate /\ s.block <= lib
                      /\ s.mint = RowNumber(s)'
                      /\ \A t \in assets' : Before(t, s) => t.mint # Null
    BY DEF Numbered, Before
  <2>1. PICK r \in assets : s = g[r]
    BY <1>2
  <2>2. r = r0 \/ r.mint # Null
    BY <1>1, <2>1
  <2>3. /\ r.template # NoTemplate /\ r.block <= lib
        /\ \A v \in assets : Before(v, r) => v.mint # Null
    BY <1>3, <2>2 DEF Numbered
  <2>4. s.mint = RowNumber(r)
    <3>1. CASE r = r0
      BY <1>1, <2>1, <3>1
    <3>2. CASE r # r0
      BY <1>1, <2>1, <2>2, <3>2 DEF Numbered
    <3> QED
      BY <3>1, <3>2
  <2>5. s.mint = RowNumber(s)'
    BY <1>1, <1>5, <2>1, <2>4
  <2>6. \A t \in assets' : Before(t, s) => t.mint # Null
    BY <1>2, <2>1, <2>3 DEF Before
  <2> QED
    BY <1>2, <2>1, <2>3, <2>5, <2>6
<1>7. \A a : Complete(a) => Complete(a)' /\ RangeOf(a)' = RangeOf(a)
  BY <1>1 DEF Complete, RangeOf
<1>8. Ranged'
  BY <1>7 DEF Ranged
<1>9. \A x : RangeDue(x) => RangeDue(x)'
  BY <1>7 DEF RangeDue
(* What was due stays due, and so does what is left of the list of u. *)
<1>10. ASSUME NEW q, NEW i, NEW p, NEW k, MintDue(q, i), q[i] = p[k],
              \A s \in assets : \A j \in 1 .. i - 1 : q[j].table = "assets" /\ q[j].id = s.id =>
                s.id = u.id \/ \E m \in 1 .. k - 1 : p[m].table = "assets" /\ p[m].id = s.id
       PROVE  MintDue(p, k)'
  <2>1. PICK r \in assets :
          /\ r.id = q[i].id /\ r.template # NoTemplate /\ r.block <= lib
          /\ q[i].mint = RowNumber(r)
          /\ \A s \in assets : Before(s, r) =>
               s.mint # Null \/ \E j \in 1 .. i - 1 : q[j].table = "assets" /\ q[j].id = s.id
    BY <1>10 DEF MintDue
  <2>2. /\ g[r] \in assets' /\ g[r].id = p[k].id /\ g[r].template # NoTemplate /\ g[r].block <= lib
        /\ p[k].mint = RowNumber(g[r])'
    BY <1>1, <1>2, <1>5, <1>10, <2>1
  <2>3. ASSUME NEW t \in assets', Before(t, g[r])
        PROVE  t.mint # Null \/ \E m \in 1 .. k - 1 : p[m].table = "assets" /\ p[m].id = t.id
    <3>1. PICK s \in assets : t = g[s]
      BY <1>2
    <3>2. Before(s, r)
      BY <1>2, <2>3, <3>1 DEF Before
    <3>3. CASE s.mint # Null
      BY <1>2, <3>1, <3>3
    <3>4. CASE \E j \in 1 .. i - 1 : q[j].table = "assets" /\ q[j].id = s.id
      <4>1. s.id = u.id \/ \E m \in 1 .. k - 1 : p[m].table = "assets" /\ p[m].id = s.id
        BY <1>10, <3>4
      <4>2. CASE s.id = u.id
        <5>1. s = r0
          BY <1>3, <4>2, AssetsById DEF RowsInv
        <5> QED
          BY <1>1, <3>1, <5>1
      <4>3. CASE \E m \in 1 .. k - 1 : p[m].table = "assets" /\ p[m].id = s.id
        BY <1>2, <3>1, <4>3
      <4> QED
        BY <4>1, <4>2, <4>3
    <3> QED
      BY <2>1, <3>2, <3>3, <3>4
  <2> QED
    BY <2>2, <2>3 DEF MintDue, Before
<1>11. ASSUME NEW q, Due(q)
       PROVE  Due(q)'
  <2>1. ASSUME NEW i \in DOMAIN q, q[i].table = "assets"
        PROVE  MintDue(q, i)'
    <3>1. MintDue(q, i)
      BY <1>11, <2>1 DEF Due
    <3> QED
      BY <1>10, <3>1
  <2>2. ASSUME NEW i \in DOMAIN q, q[i].table # "assets"
        PROVE  RangeDue(q[i])'
    BY <1>9, <1>11, <2>2 DEF Due
  <2> QED
    BY <2>1, <2>2 DEF Due
<1>12. ASSUME NEW U, NEW q \in Seq(U), q # <<>>, q[1].id = u.id, Due(q)
       PROVE  Due(Tail(q))'
  <2> DEFINE p == Tail(q)
  <2>1. /\ Len(q) \in Nat \ {0} /\ DOMAIN q = 1 .. Len(q) /\ DOMAIN p = 1 .. (Len(q) - 1)
        /\ \A k \in DOMAIN p : k + 1 \in DOMAIN q /\ p[k] = q[k + 1]
    BY <1>12, TailOf
  <2> HIDE DEF p
  <2>2. ASSUME NEW k \in DOMAIN p, p[k].table = "assets"
        PROVE  MintDue(p, k)'
    <3>1. k \in Nat \ {0} /\ k + 1 \in DOMAIN q /\ p[k] = q[k + 1]
      BY <2>1
    <3>2. MintDue(q, k + 1)
      BY <1>12, <2>2, <3>1 DEF Due
    <3>3. ASSUME NEW s \in assets, NEW j \in 1 .. (k + 1) - 1, q[j].table = "assets", q[j].id = s.id
          PROVE  s.id = u.id \/ \E m \in 1 .. k - 1 : p[m].table = "assets" /\ p[m].id = s.id
      <4>1. CASE j = 1
        BY <1>12, <3>3, <4>1
      <4>2. CASE j # 1
        <5>1. j - 1 \in 1 .. k - 1 /\ j - 1 \in DOMAIN p /\ (j - 1) + 1 = j
          BY <2>1, <3>1, <4>2
        <5>2. p[j - 1] = q[j]
          BY <2>1, <5>1
        <5> QED
          BY <3>3, <5>1, <5>2
      <4> QED
        BY <4>1, <4>2
    <3> DEFINE i == k + 1
    <3>4. \A s \in assets : \A j \in 1 .. i - 1 : q[j].table = "assets" /\ q[j].id = s.id =>
            s.id = u.id \/ \E m \in 1 .. k - 1 : p[m].table = "assets" /\ p[m].id = s.id
      BY <3>3
    <3>5. q[i] = p[k] /\ MintDue(q, i)
      BY <3>1, <3>2
    <3> HIDE DEF i
    <3> QED
      BY ONLY <1>10, <3>4, <3>5
  <2>3. ASSUME NEW k \in DOMAIN p, p[k].table # "assets"
        PROVE  RangeDue(p[k])'
    <3>1. RangeDue(q[k + 1])
      BY <1>12, <2>1, <2>3 DEF Due
    <3> QED
      BY <1>9, <2>1, <3>1
  <2> QED
    BY <2>2, <2>3 DEF Due, p
<1> QED
  BY <1>1, <1>4, <1>6, <1>8, <1>11, <1>12

LEMMA RangeUpdated ==
  ASSUME Inv, NEW u, RangeDue(u),
         auctions' = {IF r.id = u.id THEN [r EXCEPT !.range = u.range] ELSE r : r \in auctions},
         assets' = assets, applied' = applied, lib' = lib
  PROVE  /\ IsFiniteSet(auctions')
         /\ \A a \in auctions' :
              /\ a = [id |-> a.id, items |-> a.items, block |-> a.block, range |-> a.range]
              /\ a.id \in Nat /\ a.block \in Nat /\ a.items \in SUBSET Nat
         /\ RowsInv' /\ Numbered' /\ Ranged'
         /\ \A q : Due(q) => Due(q)'
<1> USE DEF Inv
<1> DEFINE H(a) == IF a.id = u.id THEN [a EXCEPT !.range = u.range] ELSE a
           h == [a \in auctions |-> H(a)]
<1>1. PICK a0 \in auctions : a0.id = u.id /\ a0.block <= lib /\ Complete(a0) /\ u.range = RangeOf(a0)
  BY DEF RangeDue
<1>2. \A a \in auctions : /\ a = [id |-> a.id, items |-> a.items, block |-> a.block, range |-> a.range]
                          /\ a.id \in Nat /\ a.block \in Nat /\ a.items \in SUBSET Nat
  BY DEF TypesOK
<1>3. \A a \in auctions : a.id = u.id <=> a = a0
  BY <1>1, AuctionsById DEF RowsInv
<1>4. \A a \in auctions :
        /\ H(a) = [id |-> a.id, items |-> a.items, block |-> a.block, range |-> H(a).range]
        /\ H(a).id = a.id /\ H(a).items = a.items /\ H(a).block = a.block
        /\ H(a).range = IF a = a0 THEN RangeOf(a0) ELSE a.range
  <2> SUFFICES ASSUME NEW a \in auctions
               PROVE  /\ H(a) = [id |-> a.id, items |-> a.items, block |-> a.block, range |-> H(a).range]
                      /\ H(a).id = a.id /\ H(a).items = a.items /\ H(a).block = a.block
                      /\ H(a).range = IF a = a0 THEN RangeOf(a0) ELSE a.range
    OBVIOUS
  <2>1. CASE a = a0
    <3>1. H(a) = [a EXCEPT !.range = u.range]
      BY <1>1, <2>1
    <3>2. H(a) = [id |-> a.id, items |-> a.items, block |-> a.block, range |-> u.range]
      <4> DEFINE b == [id |-> a.id, items |-> a.items, block |-> a.block, range |-> a.range]
      <4>1. a = b
        BY <1>2
      <4>2. [b EXCEPT !.range = u.range] =
              [id |-> a.id, items |-> a.items, block |-> a.block, range |-> u.range]
        OBVIOUS
      <4> HIDE DEF b, H
      <4> QED
        BY <3>1, <4>1, <4>2, Zenon
    <3> HIDE DEF H
    <3> QED
      BY <1>1, <2>1, <3>2
  <2>2. CASE a # a0
    <3>1. H(a) = a
      BY <1>3, <2>2
    <3> HIDE DEF H
    <3> QED
      BY <1>2, <2>2, <3>1
  <2> QED
    BY <2>1, <2>2
<1>5. auctions' = {H(a) : a \in auctions}
  OBVIOUS
<1> HIDE DEF H
<1>6. IsFiniteSet(auctions')
  <2>1. h \in [auctions -> auctions'] /\ \A b \in auctions' : \E a \in auctions : h[a] = b
    BY <1>5
  <2> HIDE DEF h
  <2>2. h \in Surjection(auctions, auctions')
    BY <2>1 DEF Surjection
  <2> QED
    BY <2>2, FS_Surjection DEF TypesOK
<1>7. \A b \in auctions' : \E a \in auctions :
        /\ b = [id |-> a.id, items |-> a.items, block |-> a.block, range |-> b.range]
        /\ b.id = a.id /\ b.items = a.items /\ b.block = a.block /\ b = H(a)
        /\ b.range = IF a = a0 THEN RangeOf(a0) ELSE a.range
  BY <1>4, <1>5
<1>8. \A a \in auctions : \E b \in auctions' :
        b.id = a.id /\ b.items = a.items /\ b.block = a.block
  BY <1>4, <1>5
<1>9. \A b \in auctions' : /\ b = [id |-> b.id, items |-> b.items, block |-> b.block, range |-> b.range]
                           /\ b.id \in Nat /\ b.block \in Nat /\ b.items \in SUBSET Nat
  BY <1>2, <1>7
<1>10. RowsInv'
  <2>1. AssetRows'
    BY DEF RowsInv, AssetRows
  <2>2. \A a \in auctions : /\ a.block \in AuctionsIn(applied)
                            /\ a.id = IdIn(AuctionsIn(applied), a.block)
                            /\ a.items = applied[a.block].items
    BY DEF RowsInv, AuctionRows
  <2>3. \A b \in auctions' : /\ b.block \in AuctionsIn(applied)
                             /\ b.id = IdIn(AuctionsIn(applied), b.block)
                             /\ b.items = applied[b.block].items
    BY <1>7, <2>2
  <2>4. \A b, c \in auctions' : b.block = c.block => b = c
    <3> SUFFICES ASSUME NEW b \in auctions', NEW c \in auctions', b.block = c.block
                 PROVE  b = c
      OBVIOUS
    <3>1. PICK a \in auctions : b.block = a.block /\ b = H(a)
      BY <1>7
    <3>2. PICK d \in auctions : c.block = d.block /\ c = H(d)
      BY <1>7
    <3>3. a = d
      BY <3>1, <3>2 DEF RowsInv, AuctionRows
    <3> QED
      BY <3>1, <3>2, <3>3
  <2>5. AuctionRows'
    BY <2>3, <2>4 DEF AuctionRows
  <2> QED
    BY <2>1, <2>5 DEF RowsInv
<1>11. \A r : RowNumber(r)' = RowNumber(r)
  BY DEF RowNumber
<1>12. Numbered'
  BY <1>11 DEF Numbered
<1>13. \A a, b : a.items = b.items =>
         (Complete(b)' <=> Complete(a)) /\ RangeOf(b)' = RangeOf(a)
  <2>1. \A a, b : a.items = b.items => Items(b)' = Items(a)
    BY DEF Items
  <2> QED
    BY <2>1 DEF Complete, RangeOf
<1>14. Ranged'
  <2> SUFFICES ASSUME NEW b \in auctions', b.range # Null
               PROVE  b.block <= lib /\ Complete(b)' /\ b.range = RangeOf(b)'
    BY DEF Ranged
  <2>1. PICK a \in auctions : /\ b.items = a.items /\ b.block = a.block
                              /\ b.range = IF a = a0 THEN RangeOf(a0) ELSE a.range
    BY <1>7
  <2>2. a.block <= lib /\ Complete(a) /\ b.range = RangeOf(a)
    <3>1. CASE a = a0
      BY <1>1, <2>1, <3>1
    <3>2. CASE a # a0
      BY <2>1, <3>2 DEF Ranged
    <3> QED
      BY <3>1, <3>2
  <2> QED
    BY <1>13, <2>1, <2>2
<1>15. \A x : RangeDue(x) => RangeDue(x)'
  <2> SUFFICES ASSUME NEW x, RangeDue(x)
               PROVE  RangeDue(x)'
    OBVIOUS
  <2>1. PICK a \in auctions : a.id = x.id /\ a.block <= lib /\ Complete(a) /\ x.range = RangeOf(a)
    BY DEF RangeDue
  <2>2. PICK b \in auctions' : b.id = a.id /\ b.items = a.items /\ b.block = a.block
    BY <1>8
  <2>3. Complete(b)' /\ RangeOf(b)' = RangeOf(a)
    BY <1>13, <2>1, <2>2
  <2> QED
    BY <2>1, <2>2, <2>3 DEF RangeDue
<1>16. \A q, i : MintDue(q, i) => MintDue(q, i)'
  BY <1>11 DEF MintDue
<1>17. \A q : Due(q) => Due(q)'
  BY <1>15, <1>16 DEF Due
<1> QED
  BY <1>6, <1>9, <1>10, <1>12, <1>14, <1>17

(* What is left of the list of a range that has been given. *)
LEMMA RangesLeft ==
  ASSUME NEW U, NEW q \in Seq(U), q # <<>>, q[1].table # "assets", Due(q)
  PROVE  Due(Tail(q))
<1> DEFINE p == Tail(q)
<1>1. /\ Len(q) \in Nat \ {0} /\ DOMAIN q = 1 .. Len(q) /\ DOMAIN p = 1 .. (Len(q) - 1)
      /\ \A k \in DOMAIN p : k + 1 \in DOMAIN q /\ p[k] = q[k + 1]
  BY TailOf
<1> HIDE DEF p
<1>2. ASSUME NEW k \in DOMAIN p, p[k].table = "assets"
      PROVE  MintDue(p, k)
  <2> DEFINE i == k + 1
  <2>1. k \in Nat \ {0} /\ i \in DOMAIN q /\ p[k] = q[i]
    BY <1>1
  <2>2. MintDue(q, i)
    BY <1>2, <2>1 DEF Due
  <2>3. ASSUME NEW s, NEW j \in 1 .. i - 1, q[j].table = "assets", q[j].id = s.id
        PROVE  \E m \in 1 .. k - 1 : p[m].table = "assets" /\ p[m].id = s.id
    <3>1. j # 1
      BY <2>3
    <3>2. j - 1 \in 1 .. k - 1 /\ j - 1 \in DOMAIN p /\ (j - 1) + 1 = j
      BY <1>1, <2>1, <3>1
    <3>3. p[j - 1] = q[j]
      BY <1>1, <3>2
    <3> QED
      BY <2>3, <3>2, <3>3
  <2> HIDE DEF i
  <2> QED
    BY <2>1, <2>2, <2>3 DEF MintDue
<1>3. ASSUME NEW k \in DOMAIN p, p[k].table # "assets"
      PROVE  RangeDue(p[k])
  <2>1. RangeDue(q[k + 1])
    BY <1>1, <1>3 DEF Due
  <2> QED
    BY <1>1, <2>1
<1> QED
  BY <1>2, <1>3 DEF Due, p

LEMMA UpdateRowInv ==
  ASSUME Inv, NEW c \in Owners, UpdateRow(c)
  PROVE  Inv'
<1> USE DEF Inv
<1> DEFINE q == calls[c]
           u == Head(q)
<1>1. /\ UNCHANGED <<chain, lib, forks, revBlocks, applied, running, seen, lastIrreversibleBlock, tx>>
      /\ q # <<>> /\ calls' = [calls EXCEPT ![c] = Tail(q)]
  BY DEF UpdateRow, chainVars, readerVars, Idle
<1>2. PICK U : calls \in [Owners -> Seq(U)]
  BY DEF TypesOK
<1>3. /\ q \in Seq(U) /\ DOMAIN q = 1 .. Len(q) /\ 1 \in DOMAIN q /\ u = q[1] /\ Tail(q) \in Seq(U)
  <2>1. q \in Seq(U)
    BY <1>2
  <2> HIDE DEF q
  <2>2. /\ Len(q) \in Nat \ {0} /\ DOMAIN q = 1 .. Len(q) /\ Head(q) = q[1] /\ Tail(q) \in Seq(U)
    BY <1>1, <2>1, TailOf
  <2> QED
    BY <2>1, <2>2
<1>4. Due(q) /\ \A d \in Owners : Due(calls[d])
  BY DEF CallsInv
<1>5. calls' \in [Owners -> Seq(U)] /\ \A d \in Owners : calls'[d] = Tail(q) \/ calls'[d] = calls[d]
  BY <1>1, <1>2, <1>3
<1>6. ChainInv'
  BY <1>1 DEF ChainInv, BranchInv, Branches, LibInv, TxInv
<1>7. /\ assets' \in SUBSET AssetRow /\ IsFiniteSet(assets') /\ IsFiniteSet(auctions')
      /\ \A a \in auctions' :
           /\ a = [id |-> a.id, items |-> a.items, block |-> a.block, range |-> a.range]
           /\ a.id \in Nat /\ a.block \in Nat /\ a.items \in SUBSET Nat
      /\ RowsInv' /\ Numbered' /\ Ranged'
      /\ \A p : Due(p) => Due(p)'
      /\ \A p : p = Tail(q) => Due(p)'
  <2>1. CASE u.table = "assets"
    <3>1. /\ assets' = {IF r.id = u.id THEN [r EXCEPT !.mint = u.mint] ELSE r : r \in assets}
          /\ auctions' = auctions
      BY <2>1 DEF UpdateRow
    <3>2. MintDue(q, 1)
      BY <1>3, <1>4, <2>1 DEF Due
    <3>3. PICK r0 : MintRow(u, r0)
      <4>1. 1 .. 1 - 1 = {}
        OBVIOUS
      <4> QED
        BY <1>3, <3>2, <4>1 DEF MintDue, MintRow
    <3> HIDE DEF u
    <3>4. /\ assets' \in SUBSET AssetRow /\ IsFiniteSet(assets')
          /\ RowsInv' /\ Numbered' /\ Ranged'
          /\ \A p : Due(p) => Due(p)'
          /\ \A V : \A p \in Seq(V) : p # <<>> /\ p[1].id = u.id /\ Due(p) => Due(Tail(p))'
      BY <1>1, <3>1, <3>3, MintUpdated
    <3>5. ASSUME NEW p, p = Tail(q)
          PROVE  Due(p)'
      <4>1. PICK s : s = q
        OBVIOUS
      <4>2. s \in Seq(U) /\ s # <<>> /\ s[1].id = u.id /\ Due(s)
        BY <1>1, <1>3, <1>4, <4>1 DEF u
      <4>3. Due(Tail(s))'
        BY <3>4, <4>2
      <4>4. Tail(s) = p
        BY <3>5, <4>1
      <4> QED
        BY <4>3, <4>4
    <3>6. /\ IsFiniteSet(auctions)
          /\ \A a \in auctions :
               /\ a = [id |-> a.id, items |-> a.items, block |-> a.block, range |-> a.range]
               /\ a.id \in Nat /\ a.block \in Nat /\ a.items \in SUBSET Nat
      BY DEF TypesOK
    <3> QED
      BY <3>1, <3>4, <3>5, <3>6
  <2>2. CASE u.table # "assets"
    <3>1. /\ auctions' = {IF r.id = u.id THEN [r EXCEPT !.range = u.range] ELSE r : r \in auctions}
          /\ assets' = assets
      BY <2>2 DEF UpdateRow
    <3>2. RangeDue(u)
      BY <1>3, <1>4, <2>2 DEF Due
    <3>3. Due(Tail(q))
      <4> HIDE DEF q
      <4> QED
        BY <1>1, <1>3, <1>4, <2>2, RangesLeft
    <3> HIDE DEF u
    <3>4. /\ IsFiniteSet(auctions')
          /\ \A a \in auctions' :
               /\ a = [id |-> a.id, items |-> a.items, block |-> a.block, range |-> a.range]
               /\ a.id \in Nat /\ a.block \in Nat /\ a.items \in SUBSET Nat
          /\ RowsInv' /\ Numbered' /\ Ranged'
          /\ \A p : Due(p) => Due(p)'
      BY <1>1, <3>1, <3>2, RangeUpdated
    <3>5. ASSUME NEW p, p = Tail(q)
          PROVE  Due(p)'
      <4>1. Due(p)
        BY <3>3, <3>5
      <4> QED
        BY <3>4, <4>1
    <3>6. assets \in SUBSET AssetRow /\ IsFiniteSet(assets)
      BY DEF TypesOK
    <3> QED
      BY <3>1, <3>4, <3>5, <3>6
  <2> QED
    BY <2>1, <2>2
<1>8. TypesOK'
  BY <1>1, <1>5, <1>7 DEF TypesOK
<1>9. CallsInv'
  <2>1. \A p \in {calls'[d] : d \in Owners} : p = Tail(q) \/ Due(p)
    BY <1>4, <1>5
  <2>2. \A p \in {calls'[d] : d \in Owners} : Due(p)'
    BY <1>7, <2>1
  <2> QED
    BY <2>2 DEF CallsInv
<1> QED
  BY <1>6, <1>7, <1>8, <1>9

-----------------------------------------------------------------------------
(* The end of a transaction *)

LEMMA CommitKeeps ==
  ASSUME Inv, tx.commit
  PROVE  /\ tx.from \in Nat \ {0} /\ tx.from \in 1 .. Len(seen)
         /\ \A n \in 1 .. tx.from - 1 : n \in DOMAIN applied /\ n \in DOMAIN seen /\ applied[n] = seen[n]
         /\ \A n \in DOMAIN applied : n <= lib => n < tx.from
<1> USE DEF Inv
<1>1. /\ Len(seen) \in Nat /\ DOMAIN seen = 1 .. Len(seen)
      /\ Len(applied) \in Nat /\ DOMAIN applied = 1 .. Len(applied)
      /\ Len(chain) \in Nat /\ DOMAIN chain = 1 .. Len(chain)
      /\ lib \in Nat /\ tx.from \in Nat
  BY Kinds DEF TypesOK
<1>2. /\ tx.from # 0 /\ tx.from <= Len(seen) /\ tx.from <= Len(applied) + 1
      /\ \A n \in 1 .. tx.from - 1 : applied[n] = seen[n]
      /\ tx.from \in DOMAIN applied /\ tx.from \in DOMAIN chain => applied[tx.from] # chain[tx.from]
  BY DEF ChainInv, TxInv
<1>3. \A n \in 1 .. tx.from - 1 : n \in DOMAIN applied /\ n \in DOMAIN seen
  BY <1>1, <1>2
<1>4. ASSUME NEW n \in DOMAIN applied, n <= lib, ~ (n < tx.from)
      PROVE  FALSE
  <2>1. tx.from <= lib /\ lib <= Len(chain) /\ tx.from \in 1 .. Len(applied)
    BY <1>1, <1>2, <1>4 DEF ChainInv, LibInv
  <2>2. tx.from \in DOMAIN applied /\ tx.from \in DOMAIN chain
    BY <1>1, <2>1
  <2>3. applied[tx.from] = chain[tx.from]
    BY <2>1, <2>2 DEF ChainInv, LibInv
  <2> QED
    BY <1>2, <2>2, <2>3
<1> QED
  BY <1>1, <1>2, <1>3, <1>4

LEMMA CommittedAssets ==
  ASSUME Inv, tx.commit, applied' = seen,
         assets' = Below(assets, tx.from) \cup NewAssets(seen, tx.from)
  PROVE  /\ assets' \in SUBSET AssetRow /\ IsFiniteSet(assets') /\ AssetRows'
         /\ \A s \in assets' : \/ s \in assets /\ s.block < tx.from
                               \/ s.mint = Null /\ s.block >= tx.from
         /\ \A r \in assets : r.block < tx.from =>
              /\ r \in assets' /\ RowNumber(r)' = RowNumber(r)
              /\ \A s \in assets' : s.id <= r.id => s \in assets
<1> USE DEF Inv
<1> DEFINE k  == tx.from
           ms == MintsIn(seen)
           as == MintsIn(applied)
           New(n) == [id |-> IdIn(ms, n), template |-> seen[n].template, block |-> n, mint |-> Null]
           ns == {n \in ms : n >= k}
<1>1. /\ k \in Nat \ {0} /\ k \in 1 .. Len(seen)
      /\ \A n \in 1 .. k - 1 : n \in DOMAIN applied /\ n \in DOMAIN seen /\ applied[n] = seen[n]
  BY CommitKeeps
<1>2. /\ Len(seen) \in Nat /\ DOMAIN seen = 1 .. Len(seen) /\ ms \in SUBSET (1 .. Len(seen))
      /\ \A n : n \in ms <=> n \in DOMAIN seen /\ seen[n].template # Null
      /\ \A n \in DOMAIN seen : seen[n] \in BlockRecord
      /\ Len(applied) \in Nat /\ DOMAIN applied = 1 .. Len(applied) /\ as \in SUBSET (1 .. Len(applied))
      /\ \A n : n \in as <=> n \in DOMAIN applied /\ applied[n].template # Null
  BY Kinds DEF TypesOK
<1>n. as \subseteq Nat /\ ms \subseteq Nat /\ 0 \notin as /\ 0 \notin ms
  BY ONLY <1>2
<1>3. NewAssets(seen, k) = {New(n) : n \in ns}
  BY DEF NewAssets
<1>4. \A r \in assets : /\ r \in AssetRow /\ r.block \in Nat /\ r.block \in as /\ r.id = IdIn(as, r.block)
                        /\ r.template = applied[r.block].template
  BY DEF TypesOK, RowsInv, AssetRows, AssetRow
<1> HIDE DEF k, ms, as, New
<1>5. \A n \in as : n < k => n \in ms /\ applied[n] = seen[n] /\ IdIn(as, n) = IdIn(ms, n)
  <2> SUFFICES ASSUME NEW n \in as, n < k
               PROVE  n \in ms /\ applied[n] = seen[n] /\ IdIn(as, n) = IdIn(ms, n)
    OBVIOUS
  <2>1. n \in 1 .. k - 1
    <3>1. n \in Nat /\ n # 0 /\ k \in Nat
      BY <1>1, <1>n
    <3> QED
      BY <3>1
  <2>2. \A j \in Nat : j <= n => (j \in as <=> j \in ms)
    <3> SUFFICES ASSUME NEW j \in Nat, j <= n
                 PROVE  j \in as <=> j \in ms
      OBVIOUS
    <3>1. CASE j = 0
      BY <1>n, <3>1
    <3>2. CASE j # 0
      <4>1. j \in 1 .. k - 1
        BY <1>1, <2>1, <3>2
      <4>2. j \in DOMAIN applied /\ j \in DOMAIN seen /\ applied[j] = seen[j]
        BY <1>1, <4>1
      <4> QED
        BY ONLY <1>2, <4>2
    <3> QED
      BY <3>1, <3>2
  <2>3. {j \in as : j <= n} = {j \in ms : j <= n}
    BY <1>n, <2>2
  <2> QED
    BY <1>1, <1>2, <2>1, <2>3 DEF IdIn
<1>6. \A n \in ns : /\ n \in ms /\ n \in Nat /\ n >= k
                    /\ New(n) \in AssetRow /\ New(n).block = n /\ New(n).mint = Null
                    /\ New(n).id = IdIn(ms, n) /\ New(n).template = seen[n].template
  <2> SUFFICES ASSUME NEW n \in ns
               PROVE  /\ n \in ms /\ n \in Nat /\ n >= k
                      /\ New(n) \in AssetRow /\ New(n).block = n /\ New(n).mint = Null
                      /\ New(n).id = IdIn(ms, n) /\ New(n).template = seen[n].template
    OBVIOUS
  <2>1. n \in ms /\ n \in Nat /\ n >= k
    BY <1>2
  <2>2. IdIn(ms, n) \in Nat
    BY <1>2, IdIsNat
  <2>3. seen[n].template \in Templates \cup {NoTemplate}
    BY <1>2, <2>1 DEF BlockRecord
  <2> QED
    BY <2>1, <2>2, <2>3 DEF New, AssetRow
<1>7. \A s : s \in assets' <=>
        (s \in assets /\ s.block < k) \/ \E n \in ns : s = New(n)
  BY <1>3 DEF Below, k
<1>8. IsFiniteSet(assets')
  <2>1. IsFiniteSet(ns)
    <3>1. ns \in SUBSET (1 .. Len(seen)) /\ IsFiniteSet(1 .. Len(seen))
      BY <1>2, FS_Interval
    <3> QED
      BY <3>1, FS_Subset
  <2> DEFINE T == {New(n) : n \in ns}
             f == [n \in ns |-> New(n)]
  <2>2. f \in [ns -> T] /\ \A t \in T : \E n \in ns : f[n] = t
    OBVIOUS
  <2> HIDE DEF T, f, ns
  <2>3. f \in Surjection(ns, T)
    BY <2>2 DEF Surjection
  <2>4. IsFiniteSet(T)
    BY <2>1, <2>3, FS_Surjection
  <2>5. Below(assets, k) \in SUBSET assets
    BY DEF Below
  <2>6. IsFiniteSet(Below(assets, k))
    BY <2>5, FS_Subset DEF TypesOK
  <2>7. assets' = Below(assets, k) \cup T
    BY <1>3 DEF T, k
  <2> QED
    BY <2>4, <2>6, <2>7, FS_Union
<1>9. assets' \in SUBSET AssetRow
  <2>1. \A s \in assets' : s \in AssetRow
    <3> SUFFICES ASSUME NEW s \in assets'
                 PROVE  s \in AssetRow
      OBVIOUS
    <3>1. CASE s \in assets
      BY <1>4, <3>1
    <3>2. CASE \E n \in ns : s = New(n)
      BY <1>6, <3>2
    <3> QED
      BY <1>7, <3>1, <3>2
  <2> QED
    BY <2>1
<1>10. AssetRows'
  <2>1. \A s \in assets' : s.block \in ms /\ s.id = IdIn(ms, s.block) /\ s.template = seen[s.block].template
    <3> SUFFICES ASSUME NEW s \in assets'
                 PROVE  s.block \in ms /\ s.id = IdIn(ms, s.block) /\ s.template = seen[s.block].template
      OBVIOUS
    <3>1. CASE s \in assets /\ s.block < k
      <4>1. s.block \in as /\ s.id = IdIn(as, s.block) /\ s.template = applied[s.block].template
        BY <1>4, <3>1
      <4>2. s.block \in ms /\ applied[s.block] = seen[s.block] /\ IdIn(as, s.block) = IdIn(ms, s.block)
        BY <1>5, <3>1, <4>1
      <4> QED
        BY <4>1, <4>2
    <3>2. CASE \E n \in ns : s = New(n)
      BY <1>6, <3>2
    <3> QED
      BY <1>7, <3>1, <3>2
  <2>2. \A s, t \in assets' : s.block = t.block => s = t
    <3> SUFFICES ASSUME NEW s \in assets', NEW t \in assets', s.block = t.block
                 PROVE  s = t
      OBVIOUS
    <3>1. CASE s \in assets /\ s.block < k
      <4>1. t \in assets
        BY <1>1, <1>4, <1>6, <1>7, <3>1
      <4> QED
        BY <3>1, <4>1 DEF RowsInv, AssetRows
    <3>2. CASE \E n \in ns : s = New(n)
      <4>1. PICK n \in ns : s = New(n)
        BY <3>2
      <4>2. s.block = n /\ n >= k /\ n \in Nat
        BY <1>6, <4>1
      <4>3. PICK m \in ns : t = New(m)
        <5>1. ~ (t.block < k)
          BY <1>1, <4>2
        <5> QED
          BY <1>7, <5>1
      <4> QED
        BY <1>6, <4>1, <4>2, <4>3
    <3> QED
      BY <1>7, <3>1, <3>2
  <2> QED
    BY <2>1, <2>2 DEF AssetRows, ms
<1>11. \A s \in assets' : \/ s \in assets /\ s.block < k
                          \/ s.mint = Null /\ s.block >= k
  BY <1>6, <1>7
<1>12. ASSUME NEW r \in assets, r.block < k
       PROVE  /\ r \in assets' /\ RowNumber(r)' = RowNumber(r)
              /\ \A s \in assets' : s.id <= r.id => s \in assets
  <2>1. r.block \in ms /\ r.block \in 1 .. Len(seen) /\ r.id = IdIn(ms, r.block)
    BY <1>2, <1>4, <1>5, <1>12
  <2>2. \A n \in ns : ~ (New(n).id <= r.id)
    <3> SUFFICES ASSUME NEW n \in ns
                 PROVE  ~ (New(n).id <= r.id)
      OBVIOUS
    <3>1. r.block < n /\ n \in ms
      BY <1>1, <1>6, <1>12, <2>1
    <3>2. IdIn(ms, r.block) < IdIn(ms, n)
      BY <1>2, <2>1, <3>1, IdsGrow
    <3>3. IdIn(ms, r.block) \in Nat /\ IdIn(ms, n) \in Nat
      BY <1>2, IdIsNat
    <3> QED
      BY <1>6, <2>1, <3>2, <3>3
  <2>3. \A s \in assets' : s.id <= r.id => s \in assets
    BY <1>7, <2>2
  <2>4. \A s \in assets : s.id <= r.id => s \in assets'
    <3> SUFFICES ASSUME NEW s \in assets, s.id <= r.id
                 PROVE  s.block < k
      BY <1>7
    <3>1. ~ (r.id < s.id)
      <4>1. s.id \in Nat /\ r.id \in Nat
        BY <1>4 DEF AssetRow
      <4> QED
        BY <4>1
    <3>2. ~ (r.block < s.block)
      BY <1>12, <3>1, AssetsById DEF RowsInv
    <3>3. s.block \in Nat /\ r.block \in Nat /\ k \in Nat
      BY <1>1, <1>4
    <3> QED
      BY <1>12, <3>2, <3>3
  <2>5. RowNumber(r)' = RowNumber(r)
    <3>1. {s \in assets' : s.template = r.template /\ s.id <= r.id}
            = {s \in assets : s.template = r.template /\ s.id <= r.id}
      BY <2>3, <2>4
    <3> QED
      BY <3>1 DEF RowNumber
  <2> QED
    BY <1>7, <1>12, <2>3, <2>5
<1> QED
  BY <1>8, <1>9, <1>10, <1>11, <1>12 DEF k

LEMMA CommittedAuctions ==
  ASSUME Inv, tx.commit, applied' = seen,
         assets' = Below(assets, tx.from) \cup NewAssets(seen, tx.from),
         auctions' = Below(auctions, tx.from) \cup NewAuctions(seen, tx.from)
  PROVE  /\ IsFiniteSet(auctions')
         /\ \A a \in auctions' :
              /\ a = [id |-> a.id, items |-> a.items, block |-> a.block, range |-> a.range]
              /\ a.id \in Nat /\ a.block \in Nat /\ a.items \in SUBSET Nat
         /\ AuctionRows'
         /\ \A b \in auctions' : (b \in auctions /\ b.block < tx.from) \/ b.range = Null
         /\ \A a \in auctions : a.block < tx.from => a \in auctions' /\ Items(a)' = Items(a)
<1> USE DEF Inv
<1> DEFINE k  == tx.from
           ms == AuctionsIn(seen)
           as == AuctionsIn(applied)
           New(n) == [id |-> IdIn(ms, n), items |-> seen[n].items, block |-> n, range |-> Null]
           ns == {n \in ms : n >= k}
<1>1. /\ k \in Nat \ {0} /\ k \in 1 .. Len(seen)
      /\ \A n \in 1 .. k - 1 : n \in DOMAIN applied /\ n \in DOMAIN seen /\ applied[n] = seen[n]
  BY CommitKeeps
<1>2. /\ Len(seen) \in Nat /\ DOMAIN seen = 1 .. Len(seen) /\ ms \in SUBSET (1 .. Len(seen))
      /\ \A n : n \in ms <=> n \in DOMAIN seen /\ seen[n].template = Null
      /\ \A n \in DOMAIN seen : seen[n] \in BlockRecord
      /\ Len(applied) \in Nat /\ DOMAIN applied = 1 .. Len(applied) /\ as \in SUBSET (1 .. Len(applied))
      /\ \A n : n \in as <=> n \in DOMAIN applied /\ applied[n].template = Null
  BY Kinds DEF TypesOK
<1>n. as \subseteq Nat /\ ms \subseteq Nat /\ 0 \notin as /\ 0 \notin ms
  BY ONLY <1>2
<1>3. NewAuctions(seen, k) = {New(n) : n \in ns}
  BY DEF NewAuctions
<1>4. \A a \in auctions :
        /\ a = [id |-> a.id, items |-> a.items, block |-> a.block, range |-> a.range]
        /\ a.id \in Nat /\ a.block \in Nat /\ a.items \in SUBSET Nat
        /\ a.block \in as /\ a.id = IdIn(as, a.block) /\ a.items = applied[a.block].items
  BY DEF TypesOK, RowsInv, AuctionRows
<1> HIDE DEF k, ms, as, New
<1>5. \A n \in as : n < k => n \in ms /\ applied[n] = seen[n] /\ IdIn(as, n) = IdIn(ms, n)
  <2> SUFFICES ASSUME NEW n \in as, n < k
               PROVE  n \in ms /\ applied[n] = seen[n] /\ IdIn(as, n) = IdIn(ms, n)
    OBVIOUS
  <2>1. n \in 1 .. k - 1
    <3>1. n \in Nat /\ n # 0 /\ k \in Nat
      BY <1>1, <1>n
    <3> QED
      BY <3>1
  <2>2. \A j \in Nat : j <= n => (j \in as <=> j \in ms)
    <3> SUFFICES ASSUME NEW j \in Nat, j <= n
                 PROVE  j \in as <=> j \in ms
      OBVIOUS
    <3>1. CASE j = 0
      BY <1>n, <3>1
    <3>2. CASE j # 0
      <4>1. j \in 1 .. k - 1
        BY <1>1, <2>1, <3>2
      <4>2. j \in DOMAIN applied /\ j \in DOMAIN seen /\ applied[j] = seen[j]
        BY <1>1, <4>1
      <4> QED
        BY ONLY <1>2, <4>2
    <3> QED
      BY <3>1, <3>2
  <2>3. {j \in as : j <= n} = {j \in ms : j <= n}
    BY <1>n, <2>2
  <2> QED
    BY <1>1, <1>2, <2>1, <2>3 DEF IdIn
<1>6. \A n \in ns : /\ n \in ms /\ n \in Nat /\ n >= k
                    /\ New(n) = [id |-> New(n).id, items |-> New(n).items, block |-> New(n).block,
                                 range |-> New(n).range]
                    /\ New(n).id \in Nat /\ New(n).items \in SUBSET Nat
                    /\ New(n).block = n /\ New(n).range = Null
                    /\ New(n).id = IdIn(ms, n) /\ New(n).items = seen[n].items
  <2> SUFFICES ASSUME NEW n \in ns
               PROVE  /\ n \in ms /\ n \in Nat /\ n >= k
                      /\ New(n) = [id |-> New(n).id, items |-> New(n).items, block |-> New(n).block,
                                   range |-> New(n).range]
                      /\ New(n).id \in Nat /\ New(n).items \in SUBSET Nat
                      /\ New(n).block = n /\ New(n).range = Null
                      /\ New(n).id = IdIn(ms, n) /\ New(n).items = seen[n].items
    OBVIOUS
  <2>1. n \in ms /\ n \in Nat /\ n >= k
    BY <1>2
  <2>2. IdIn(ms, n) \in Nat
    BY <1>2, IdIsNat
  <2>3. seen[n].items \in SUBSET Nat
    BY <1>2, <2>1 DEF BlockRecord
  <2> QED
    BY <2>1, <2>2, <2>3 DEF New
<1>7. \A b : b \in auctions' <=>
        (b \in auctions /\ b.block < k) \/ \E n \in ns : b = New(n)
  BY <1>3 DEF Below, k
<1>8. IsFiniteSet(auctions')
  <2>1. IsFiniteSet(ns)
    <3>1. ns \in SUBSET (1 .. Len(seen)) /\ IsFiniteSet(1 .. Len(seen))
      BY <1>2, FS_Interval
    <3> QED
      BY <3>1, FS_Subset
  <2> DEFINE T == {New(n) : n \in ns}
             f == [n \in ns |-> New(n)]
  <2>2. f \in [ns -> T] /\ \A t \in T : \E n \in ns : f[n] = t
    OBVIOUS
  <2> HIDE DEF T, f, ns
  <2>3. f \in Surjection(ns, T)
    BY <2>2 DEF Surjection
  <2>4. IsFiniteSet(T)
    BY <2>1, <2>3, FS_Surjection
  <2>5. Below(auctions, k) \in SUBSET auctions
    BY DEF Below
  <2>6. IsFiniteSet(Below(auctions, k))
    BY <2>5, FS_Subset DEF TypesOK
  <2>7. auctions' = Below(auctions, k) \cup T
    BY <1>3 DEF T, k
  <2> QED
    BY <2>4, <2>6, <2>7, FS_Union
<1>9. ASSUME NEW b \in auctions'
      PROVE  /\ b = [id |-> b.id, items |-> b.items, block |-> b.block, range |-> b.range]
             /\ b.id \in Nat /\ b.block \in Nat /\ b.items \in SUBSET Nat
             /\ b.block \in ms /\ b.id = IdIn(ms, b.block) /\ b.items = seen[b.block].items
  <2>1. CASE b \in auctions /\ b.block < k
    <3>1. /\ b = [id |-> b.id, items |-> b.items, block |-> b.block, range |-> b.range]
          /\ b.id \in Nat /\ b.block \in Nat /\ b.items \in SUBSET Nat
          /\ b.block \in as /\ b.id = IdIn(as, b.block) /\ b.items = applied[b.block].items
      BY <1>4, <2>1
    <3>2. b.block \in ms /\ applied[b.block] = seen[b.block] /\ IdIn(as, b.block) = IdIn(ms, b.block)
      BY <1>5, <2>1, <3>1
    <3> QED
      BY <3>1, <3>2
  <2>2. CASE \E n \in ns : b = New(n)
    <3>1. PICK n \in ns : b = New(n)
      BY <2>2
    <3> QED
      BY <1>6, <3>1
  <2> QED
    BY <1>7, <2>1, <2>2
<1>10. AuctionRows'
  <2>1. \A b, c \in auctions' : b.block = c.block => b = c
    <3> SUFFICES ASSUME NEW b \in auctions', NEW c \in auctions', b.block = c.block
                 PROVE  b = c
      OBVIOUS
    <3>1. CASE b \in auctions /\ b.block < k
      <4>1. c \in auctions
        BY <1>1, <1>4, <1>6, <1>7, <3>1
      <4> QED
        BY <3>1, <4>1 DEF RowsInv, AuctionRows
    <3>2. CASE \E n \in ns : b = New(n)
      <4>1. PICK n \in ns : b = New(n)
        BY <3>2
      <4>2. b.block = n /\ n >= k /\ n \in Nat
        BY <1>6, <4>1
      <4>3. PICK m \in ns : c = New(m)
        <5>1. ~ (c.block < k)
          BY <1>1, <4>2
        <5> QED
          BY <1>7, <5>1
      <4> QED
        BY <1>6, <4>1, <4>2, <4>3
    <3> QED
      BY <1>7, <3>1, <3>2
  <2> QED
    BY <1>9, <2>1 DEF AuctionRows, ms
<1>11. \A b \in auctions' : (b \in auctions /\ b.block < k) \/ b.range = Null
  BY <1>6, <1>7
(* The items of a row that stays were minted before it, on both branches. *)
<1>12. ASSUME NEW a \in auctions, a.block < k
       PROVE  a \in auctions' /\ Items(a)' = Items(a)
  <2>1. a \in auctions' /\ a.block \in Nat /\ k \in Nat
    BY <1>1, <1>4, <1>7, <1>12
  <2>2. a.block \in AuctionsIn(seen) /\ a.items = seen[a.block].items
    BY <1>9, <2>1 DEF ms
  <2>3. seen \in Seq(BlockRecord) /\ Known(seen)
    BY DEF TypesOK, ChainInv, BranchInv, Branches
  <2>4. /\ AssetRows'
        /\ \A s \in assets' : \/ s \in assets /\ s.block < k
                              \/ s.mint = Null /\ s.block >= k
        /\ \A r \in assets : r.block < k => r \in assets'
        /\ assets' \in SUBSET AssetRow
    BY CommittedAssets DEF k
  <2>5. ASSUME NEW s \in assets', s.id \in a.items
        PROVE  s \in assets
    <3>1. s.block \in MintsIn(seen) /\ s.id = IdIn(MintsIn(seen), s.block)
      BY <2>4 DEF AssetRows
    <3>2. s.block < a.block
      BY <2>2, <2>3, <2>5, <3>1, ItemIsEarlier
    <3>3. s.block \in Nat
      BY <2>4 DEF AssetRow
    <3>4. ~ (s.block >= k)
      BY <1>12, <2>1, <3>2, <3>3
    <3> QED
      BY <2>4, <3>4
  <2>6. ASSUME NEW r \in assets, r.id \in a.items
        PROVE  r \in assets'
    <3>1. r.block < a.block
      BY <2>6, ItemsAreEarlier DEF ChainInv
    <3>2. r.block \in Nat
      BY DEF TypesOK, AssetRow
    <3>3. r.block < k
      BY <1>12, <2>1, <3>1, <3>2
    <3> QED
      BY <2>4, <3>3
  <2> QED
    BY <2>1, <2>5, <2>6 DEF Items
<1> QED
  BY <1>8, <1>9, <1>10, <1>11, <1>12 DEF k

LEMMA CommitInv ==
  ASSUME Inv, Commit
  PROVE  Inv'
<1> USE DEF Inv
<1> DEFINE k == tx.from
<1>1. /\ UNCHANGED <<chain, lib, forks, running, seen, lastIrreversibleBlock>>
      /\ tx.commit /\ applied' = seen /\ tx' = NoTx /\ revBlocks' = ReversibleBlocks
      /\ assets' = Below(assets, k) \cup NewAssets(seen, k)
      /\ auctions' = Below(auctions, k) \cup NewAuctions(seen, k)
  BY DEF Commit, chainVars
<1>2. /\ k \in Nat \ {0} /\ k \in 1 .. Len(seen)
      /\ \A n \in 1 .. k - 1 : n \in DOMAIN applied /\ n \in DOMAIN seen /\ applied[n] = seen[n]
      /\ \A n \in DOMAIN applied : n <= lib => n < k
  BY <1>1, CommitKeeps
<1>3. /\ assets' \in SUBSET AssetRow /\ IsFiniteSet(assets') /\ AssetRows'
      /\ \A s \in assets' : \/ s \in assets /\ s.block < k
                            \/ s.mint = Null /\ s.block >= k
      /\ \A r \in assets : r.block < k =>
           /\ r \in assets' /\ RowNumber(r)' = RowNumber(r)
           /\ \A s \in assets' : s.id <= r.id => s \in assets
  BY <1>1, CommittedAssets
<1>4. /\ IsFiniteSet(auctions')
      /\ \A a \in auctions' :
           /\ a = [id |-> a.id, items |-> a.items, block |-> a.block, range |-> a.range]
           /\ a.id \in Nat /\ a.block \in Nat /\ a.items \in SUBSET Nat
      /\ AuctionRows'
      /\ \A b \in auctions' : (b \in auctions /\ b.block < k) \/ b.range = Null
      /\ \A a \in auctions : a.block < k => a \in auctions' /\ Items(a)' = Items(a)
  BY <1>1, CommittedAuctions
<1>t. /\ lib \in Nat /\ lastIrreversibleBlock \in Nat /\ lastIrreversibleBlock <= lib
      /\ DOMAIN seen = 1 .. Len(seen) /\ Len(seen) \in Nat
      /\ revBlocks \in SUBSET Nat /\ tx.reversible \in SUBSET Nat
  BY Kinds DEF TypesOK, ChainInv, LibInv
<1>5. /\ \A r \in assets : r.block \in Nat /\ r.block \in DOMAIN applied /\ (r.block <= lib => r.block < k)
      /\ \A a \in auctions : a.block \in Nat /\ a.block \in DOMAIN applied /\ (a.block <= lib => a.block < k)
  BY <1>2 DEF TypesOK, AssetRow, RowsInv, AssetRows, AuctionRows, MintsIn, AuctionsIn
(* No call waits for a row that is gone. *)
<1>6. calls' = calls
  <2>1. PICK waiting \in SUBSET {c \in Owners : calls[c] # Idle /\ Locked(Head(calls[c]))} :
          calls' = [c \in Owners |-> IF c \in waiting THEN Tail(calls[c]) ELSE calls[c]]
    BY DEF Commit
  <2>2. PICK U : calls \in [Owners -> Seq(U)]
    BY DEF TypesOK
  <2>3. ASSUME NEW c \in Owners, calls[c] # Idle
        PROVE  ~ Locked(Head(calls[c]))
    <3> DEFINE q == calls[c]
    <3>1. q \in Seq(U) /\ q # <<>> /\ Due(q)
      BY <2>2, <2>3 DEF CallsInv, Idle
    <3> HIDE DEF q
    <3>2. 1 \in DOMAIN q /\ Head(q) = q[1]
      BY <3>1, TailOf
    <3>3. CASE q[1].table = "assets"
      <4>1. MintDue(q, 1)
        BY <3>1, <3>2, <3>3 DEF Due
      <4>2. PICK r \in assets : r.id = q[1].id /\ r.block <= lib
        BY <4>1 DEF MintDue
      <4>3. \A s \in assets : s.id = q[1].id => s = r
        BY <4>2, AssetsById DEF RowsInv
      <4>4. ~ (r.block >= k)
        BY <1>2, <1>5, <4>2
      <4> QED
        BY <3>2, <3>3, <4>3, <4>4 DEF Locked, TableOf, q
    <3>4. CASE q[1].table # "assets"
      <4>1. RangeDue(q[1])
        BY <3>1, <3>2, <3>4 DEF Due
      <4>2. PICK a \in auctions : a.id = q[1].id /\ a.block <= lib
        BY <4>1 DEF RangeDue
      <4>3. \A b \in auctions : b.id = q[1].id => b = a
        BY <4>2, AuctionsById DEF RowsInv
      <4>4. ~ (a.block >= k)
        BY <1>2, <1>5, <4>2
      <4> QED
        BY <3>2, <3>4, <4>3, <4>4 DEF Locked, TableOf, q
    <3> QED
      BY <3>3, <3>4
  <2>4. waiting = {}
    BY <2>3
  <2> QED
    BY <2>1, <2>2, <2>4
<1>7. tx'.from = 0 /\ tx'.reversible = {} /\ tx'.commit = FALSE
      /\ tx' \in [from : Nat, reversible : SUBSET Nat, commit : BOOLEAN]
  BY <1>1 DEF NoTx
<1>8. TypesOK'
  <2>1. revBlocks' \in SUBSET Nat
    BY <1>1, <1>t DEF ReversibleBlocks
  <2> QED
    BY <1>1, <1>3, <1>4, <1>6, <1>7, <2>1 DEF TypesOK
<1>9. BranchInv'
  BY <1>1 DEF ChainInv, BranchInv, Branches
<1>10. LibInv'
  BY <1>1 DEF ChainInv, LibInv
<1>11. TxInv'
  <2>1. ASSUME NEW n \in DOMAIN seen, n \notin ReversibleBlocks, ~ (n <= lib)
        PROVE  FALSE
    <3>1. n \in Nat \ {0} /\ n > lastIrreversibleBlock
      BY <1>t, <2>1
    <3>2. CASE n >= k
      <4>1. n \in tx.reversible
        BY <1>1, <1>2, <2>1, <3>2 DEF ChainInv, TxInv
      <4> QED
        BY <2>1, <3>1, <4>1 DEF ReversibleBlocks
    <3>3. CASE n < k
      <4>1. n \in 1 .. k - 1
        BY <1>2, <3>1, <3>3
      <4>2. n \in revBlocks
        BY <1>2, <2>1, <4>1 DEF ChainInv, TxInv
      <4> QED
        BY <2>1, <3>1, <3>3, <4>2 DEF ReversibleBlocks
    <3> QED
      BY <1>2, <3>1, <3>2, <3>3
  <2> QED
    BY <1>1, <1>7, <2>1 DEF TxInv
<1>12. Numbered'
  <2> SUFFICES ASSUME NEW r \in assets', r.mint # Null
               PROVE  /\ r.template # NoTemplate /\ r.block <= lib'
                      /\ r.mint = RowNumber(r)'
                      /\ \A s \in assets' : Before(s, r) => s.mint # Null
    BY DEF Numbered, Before
  <2>1. r \in assets /\ r.block < k
    BY <1>3
  <2>2. /\ r.template # NoTemplate /\ r.block <= lib /\ r.mint = RowNumber(r)
        /\ \A s \in assets : Before(s, r) => s.mint # Null
    BY <2>1 DEF Numbered
  <2>3. \A s \in assets' : Before(s, r) => s \in assets
    <3>1. \A s \in assets' : s.id \in Nat /\ r.id \in Nat
      BY <1>3 DEF AssetRow
    <3> QED
      BY <1>3, <2>1, <3>1 DEF Before
  <2> QED
    BY <1>1, <1>3, <2>1, <2>2, <2>3
<1>13. \A a \in auctions : a.block < k =>
         a \in auctions' /\ (Complete(a) => Complete(a)') /\ RangeOf(a)' = RangeOf(a)
  BY <1>4 DEF Complete, RangeOf
<1>14. Ranged'
  <2> SUFFICES ASSUME NEW a \in auctions', a.range # Null
               PROVE  a.block <= lib' /\ Complete(a)' /\ a.range = RangeOf(a)'
    BY DEF Ranged
  <2>1. a \in auctions /\ a.block < k
    BY <1>4
  <2> QED
    BY <1>1, <1>13, <2>1 DEF Ranged
<1>15. ASSUME NEW q, Due(q)
       PROVE  Due(q)'
  <2>1. ASSUME NEW i \in DOMAIN q, q[i].table = "assets"
        PROVE  MintDue(q, i)'
    <3>1. MintDue(q, i)
      BY <1>15, <2>1 DEF Due
    <3>2. PICK r \in assets :
            /\ r.id = q[i].id /\ r.template # NoTemplate /\ r.block <= lib
            /\ q[i].mint = RowNumber(r)
            /\ \A s \in assets : Before(s, r) =>
                 s.mint # Null \/ \E j \in 1 .. i - 1 : q[j].table = "assets" /\ q[j].id = s.id
      BY <3>1 DEF MintDue
    <3>3. r.block < k
      BY <1>5, <3>2
    <3>4. r \in assets' /\ RowNumber(r)' = RowNumber(r) /\ \A s \in assets' : s.id <= r.id => s \in assets
      BY <1>3, <3>3
    <3>5. \A s \in assets' : Before(s, r) => s \in assets
      <4>1. \A s \in assets' : s.id \in Nat /\ r.id \in Nat
        BY <1>3, <3>4 DEF AssetRow
      <4> QED
        BY <3>4, <4>1 DEF Before
    <3> QED
      BY <1>1, <3>2, <3>4, <3>5 DEF MintDue, Before
  <2>2. ASSUME NEW i \in DOMAIN q, q[i].table # "assets"
        PROVE  RangeDue(q[i])'
    <3>1. RangeDue(q[i])
      BY <1>15, <2>2 DEF Due
    <3>2. PICK a \in auctions : /\ a.id = q[i].id /\ a.block <= lib
                                /\ Complete(a) /\ q[i].range = RangeOf(a)
      BY <3>1 DEF RangeDue
    <3>3. a \in auctions' /\ Complete(a)' /\ RangeOf(a)' = RangeOf(a)
      BY <1>5, <1>13, <3>2
    <3> QED
      BY <1>1, <3>2, <3>3 DEF RangeDue
  <2> QED
    BY <2>1, <2>2 DEF Due
<1>16. CallsInv'
  BY <1>6, <1>15 DEF CallsInv
<1> QED
  BY <1>3, <1>4, <1>8, <1>9, <1>10, <1>11, <1>12, <1>14, <1>16 DEF ChainInv, RowsInv

-----------------------------------------------------------------------------
(* The specification *)

LEMMA InitInv ==
  Init => Inv
<1> SUFFICES ASSUME Init
             PROVE  Inv
  OBVIOUS
<1>1. /\ chain = <<>> /\ seen = <<>> /\ applied = <<>> /\ assets = {} /\ auctions = {} /\ revBlocks = {}
      /\ lib = 0 /\ forks = 0 /\ lastIrreversibleBlock = 0 /\ tx = NoTx
      /\ calls = [c \in Owners |-> Idle]
  BY DEF Init
<1>2. <<>> \in Seq(BlockRecord) /\ Len(<<>>) = 0 /\ DOMAIN <<>> = {}
  BY Empty
<1>3. NoTx \in [from : Nat, reversible : SUBSET Nat, commit : BOOLEAN]
      /\ NoTx.from = 0 /\ NoTx.reversible = {} /\ NoTx.commit = FALSE
  BY DEF NoTx
<1>4. \E U : calls \in [Owners -> Seq(U)]
  <2>1. calls \in [Owners -> Seq(Nat)]
    BY <1>1, Empty DEF Idle
  <2> QED
    BY <2>1
<1>5. TypesOK
  <2>1. IsFiniteSet({})
    BY FS_EmptySet
  <2> QED
    BY <1>1, <1>2, <1>3, <1>4, <2>1 DEF TypesOK
<1>6. BranchInv
  <2>1. AuctionsIn(<<>>) = {}
    BY <1>2 DEF AuctionsIn
  <2>2. Known(<<>>)
    BY <2>1 DEF Known
  <2> QED
    BY <1>1, <1>2, <2>2 DEF BranchInv, Branches
<1>7. LibInv
  BY <1>1, <1>2 DEF LibInv
<1>8. TxInv
  BY <1>1, <1>2, <1>3 DEF TxInv
<1>9. RowsInv /\ Numbered /\ Ranged
  BY <1>1 DEF RowsInv, AssetRows, AuctionRows, Numbered, Ranged
<1>10. CallsInv
  BY <1>1, <1>2 DEF CallsInv, Due, Idle
<1> QED
  BY <1>5, <1>6, <1>7, <1>8, <1>9, <1>10 DEF Inv, ChainInv

LEMMA StutterInv ==
  ASSUME Inv, UNCHANGED vars
  PROVE  Inv'
<1>1. UNCHANGED <<chain, lib, forks, assets, auctions, revBlocks, applied, running, seen,
                  lastIrreversibleBlock, tx, calls>>
  BY DEF vars, chainVars, storeVars, readerVars, callVars
<1>2. TypesOK'
  BY <1>1 DEF Inv, TypesOK
<1>3. ChainInv'
  BY <1>1 DEF Inv, ChainInv, BranchInv, Branches, LibInv, TxInv
<1>4. lib <= lib'
  BY <1>1 DEF Inv, TypesOK
<1>5. RowsInv' /\ Numbered' /\ Ranged' /\ \A q : Due(q) => Due(q)'
  BY <1>1, <1>2, <1>4, RowsStay
<1>6. CallsInv'
  BY <1>1, <1>5 DEF Inv, CallsInv
<1> QED
  BY <1>2, <1>3, <1>5, <1>6 DEF Inv

LEMMA NextInv ==
  ASSUME ~ LateReader, Inv, [Next]_vars
  PROVE  Inv'
<1>1. CASE Produce
  BY <1>1, ProduceInv
<1>2. CASE Fork
  BY <1>2, ForkInv
<1>3. CASE AdvanceLib
  BY <1>3, AdvanceLibInv
<1>4. CASE ProcessBlock
  BY <1>4, ProcessBlockInv
<1>5. CASE Commit
  BY <1>5, CommitInv
<1>6. CASE Stop
  BY <1>6, StopInv
<1>7. CASE Start
  BY <1>7, StartInv
<1>8. CASE CallAssetMints
  BY <1>8, CallAssetMintsInv
<1>9. CASE CallAuctionMints
  BY <1>9, CallAuctionMintsInv
<1>10. CASE InitialMints
  BY <1>10, InitialMintsInv
<1>11. ASSUME NEW c \in Owners, UpdateRow(c)
       PROVE  Inv'
  BY <1>11, UpdateRowInv
<1>12. CASE UNCHANGED vars
  BY <1>12, StutterInv
<1> QED
  BY <1>1, <1>2, <1>3, <1>4, <1>5, <1>6, <1>7, <1>8, <1>9, <1>10, <1>11, <1>12 DEF Next

(* Where the reader leaves an abandoned branch before the blocks of the    *)
(* new one are irreversible, what is irreversible is the same on the chain *)
(* in the reader and in the tables, and numbers and ranges are given only  *)
(* to irreversible rows, from the first asset of each template on.         *)
THEOREM Invariance ==
  ~ LateReader => (Spec => []Inv)
<1> SUFFICES ASSUME ~ LateReader
             PROVE  Spec => []Inv
  OBVIOUS
<1>1. Init => Inv
  BY InitInv
<1>2. Inv /\ [Next]_vars => Inv'
  BY NextInv
<1> QED
  BY <1>1, <1>2, PTL DEF Spec

(* A mint number, once given, is the row number of the view, whatever the  *)
(* chain abandons, wherever a filler dies, and though the call of a dead   *)
(* one goes on beside the calls of the new one.                            *)
THEOREM MintsAreRowNumbersTheorem ==
  ~ LateReader => (Spec => []MintsAreRowNumbers)
<1>1. Inv => MintsAreRowNumbers
  BY DEF Inv, Numbered, MintsAreRowNumbers
<1> QED
  BY <1>1, Invariance, PTL

(* The range of a listing covers exactly the numbers of its assets, all of *)
(* which have theirs.                                                      *)
THEOREM RangesAreCompleteTheorem ==
  ~ LateReader => (Spec => []RangesAreComplete)
<1>1. Inv => RangesAreComplete
  BY DEF Inv, Ranged, RangesAreComplete
<1> QED
  BY <1>1, Invariance, PTL
=============================================================================
