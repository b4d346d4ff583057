--------------------------- MODULE HandlersProofs ---------------------------
(***************************************************************************)
(* Proofs about the handlers behind one Processor.                         *)
(*                                                                         *)
(* What the tables will be is known before the jobs have run: the jobs     *)
(* about a row lead, in the order of the queue, from what the tables have  *)
(* to what the contracts ask for.  A contract's action adds the last step  *)
(* of such a path, a job that runs takes the first one away, and a fork or *)
(* a stop goes back to tables and jobs the invariant has kept.             *)
(***************************************************************************)
EXTENDS FiniteSetTheorems, HandlersInvariant, TLAPS

----------------------------------------
(* Paths of jobs *)

(* The first job of a path can be taken away. *)
LEMMA PathFirst ==
  ASSUME NEW S, NEW h, NEW u, NEW v, Path(S, h, u, v), NEW j \in S,
         \A i \in S : i.index \in Nat,
         \A i \in S : j.index <= i.index,
         \A i, m \in S : i.index = m.index => i = m
  PROVE  h[j.index] = u /\ Path(S \ {j}, h, h[j.index + 1], v)
<1>1. h[j.index] = u
  BY DEF Path
<1>2. ASSUME S \ {j} = {} PROVE h[j.index + 1] = v
  BY <1>2 DEF Path
<1> DEFINE R == S \ {j}
<1>3. ASSUME NEW i \in R
      PROVE  /\ (\A m \in R : i.index <= m.index) => h[i.index] = h[j.index + 1]
             /\ (\A m \in R : m.index <= i.index) => h[i.index + 1] = v
             /\ \A l \in R : l.index < i.index
                  => h[l.index + 1] = h[i.index] \/ \E m \in R : l.index < m.index /\ m.index < i.index
  <2>1. j.index < i.index /\ i \in S
    BY <1>3
  <2>2. ASSUME \A m \in R : i.index <= m.index PROVE h[i.index] = h[j.index + 1]
    BY <2>1, <2>2 DEF Path
  <2>3. ASSUME \A m \in R : m.index <= i.index PROVE h[i.index + 1] = v
    <3>1. \A m \in S : m.index <= i.index
      BY <2>1, <2>3
    <3> QED BY <2>1, <3>1 DEF Path
  <2>4. ASSUME NEW l \in R, l.index < i.index
        PROVE  h[l.index + 1] = h[i.index] \/ \E m \in R : l.index < m.index /\ m.index < i.index
    BY <2>1, <2>4 DEF Path
  <2> QED BY <2>2, <2>3, <2>4
<1> QED BY <1>1, <1>2, <1>3 DEF Path

(* A job can be added after the last one. *)
LEMMA PathLast ==
  ASSUME NEW S, NEW h, NEW u, NEW v, NEW w, Path(S, h, u, v), NEW j, j.index \in Nat,
         \A i \in S : i.index \in Nat /\ i.index < j.index
  PROVE  \E g : Path(S \cup {j}, g, u, w) /\ Extends(g, h, S, j, v, w)
<1> DEFINE g == [n \in Nat |-> IF n = j.index THEN v ELSE IF n = j.index + 1 THEN w ELSE h[n]]
           R == S \cup {j}
<1>1. g[j.index] = v /\ g[j.index + 1] = w
  OBVIOUS
<1>2. ASSUME NEW i \in S PROVE g[i.index] = h[i.index] /\ g[i.index + 1] = h[i.index + 1]
  <2>1. CASE i.index + 1 = j.index
    <3>1. \A m \in S : m.index <= i.index
      BY <2>1
    <3>2. h[i.index + 1] = v
      BY <3>1 DEF Path
    <3> QED BY <2>1, <3>2
  <2>2. CASE i.index + 1 # j.index
    BY <2>2
  <2> QED BY <2>1, <2>2
<1> HIDE DEF g
<1>3. ASSUME NEW i \in R
      PROVE  /\ (\A m \in R : i.index <= m.index) => g[i.index] = u
             /\ (\A m \in R : m.index <= i.index) => g[i.index + 1] = w
             /\ \A l \in R : l.index < i.index
                  => g[l.index + 1] = g[i.index] \/ \E m \in R : l.index < m.index /\ m.index < i.index
  <2>1. ASSUME \A m \in R : i.index <= m.index PROVE g[i.index] = u
    <3>1. CASE i \in S
      BY <2>1, <3>1, <1>2 DEF Path
    <3>2. CASE i = j
      <4>1. S = {}
        BY <2>1, <3>2
      <4> QED BY <4>1, <3>2, <1>1 DEF Path
    <3> QED BY <3>1, <3>2
  <2>2. ASSUME \A m \in R : m.index <= i.index PROVE g[i.index + 1] = w
    <3>1. i = j
      BY <2>2
    <3> QED BY <3>1, <1>1
  <2>3. ASSUME NEW l \in R, l.index < i.index
        PROVE  g[l.index + 1] = g[i.index] \/ \E m \in R : l.index < m.index /\ m.index < i.index
    <3>1. l \in S
      BY <2>3
    <3>2. CASE i \in S
      BY <3>1, <3>2, <2>3, <1>2 DEF Path
    <3>3. CASE i = j
      <4>1. CASE \A m \in S : m.index <= l.index
        <5>1. h[l.index + 1] = v
          BY <3>1, <4>1 DEF Path
        <5> QED BY <5>1, <3>1, <3>3, <1>1, <1>2
      <4>2. CASE \E m \in S : ~ (m.index <= l.index)
        BY <3>1, <3>3, <4>2
      <4> QED BY <4>1, <4>2
    <3> QED BY <3>2, <3>3
  <2> QED BY <2>1, <2>2, <2>3
<1>4. Path(R, g, u, w)
  BY <1>3 DEF Path
<1> QED BY <1>1, <1>2, <1>4 DEF Extends

(* Executing the first of the jobs that lead from u to v. *)
LEMMA LeadsFirst ==
  ASSUME NEW k, NEW S, NEW u, NEW v, Leads(k, S, u, v), NEW j \in S,
         \A i \in S : i.index \in Nat,
         \A i \in S : j.index <= i.index,
         \A i, m \in S : i.index = m.index => i = m
  PROVE  Fits(j, k, u) /\ Leads(k, S \ {j}, Made(j, k, u), v)
<1>1. PICK h : /\ Path(S, h, u, v)
               /\ \A i \in S : Fits(i, k, h[i.index]) /\ h[i.index + 1] = Made(i, k, h[i.index])
  BY DEF Leads
<1>2. h[j.index] = u /\ Path(S \ {j}, h, h[j.index + 1], v)
  BY <1>1, PathFirst
<1> QED BY <1>1, <1>2 DEF Leads

(* A job is added that fits the row the others lead to. *)
LEMMA LeadsLast ==
  ASSUME NEW k, NEW S, NEW u, NEW v, Leads(k, S, u, v), NEW j, j.index \in Nat,
         \A i \in S : i.index \in Nat /\ i.index < j.index,
         Fits(j, k, v)
  PROVE  Leads(k, S \cup {j}, u, Made(j, k, v))
<1>1. PICK h : /\ Path(S, h, u, v)
               /\ \A i \in S : Fits(i, k, h[i.index]) /\ h[i.index + 1] = Made(i, k, h[i.index])
  BY DEF Leads
<1> DEFINE w == Made(j, k, v)
<1> HIDE DEF w
<1>2. PICK g : Path(S \cup {j}, g, u, w) /\ Extends(g, h, S, j, v, w)
  BY <1>1, PathLast
<1> QED BY <1>1, <1>2 DEF Leads, Extends, w

(* No jobs lead from a row to itself only. *)
LEMMA LeadsNowhere ==
  ASSUME NEW k, NEW u, NEW v
  PROVE  Leads(k, {}, u, v) <=> u = v
BY DEF Leads, Path

----------------------------------------
(* The jobs of a row *)

(* A job of a log processor is about no row. *)
LEMMA NoLogTouches ==
  ASSUME NEW j, j.callback = "log", NEW k \in Followed, NEW x
  PROVE  ~ Touches(j, k, x)
BY DEF Touches, CallbacksOf, Followed, DataKinds, Created, Written, Configs, Rows,
       SaleUpdates, AuctionUpdates, BuyofferUpdates, TemplateBuyofferUpdates, LinkUpdates,
       SimpleUpdates, AssetUpdates

(* Of the jobs of a row, the one that creates it has the least priority.   *)
LEMMA PrioritiesRise ==
  ASSUME NEW k \in Followed, NEW a \in CallbacksOf(k), NEW b \in CallbacksOf(k),
         k \in Created => b \notin Creating
  PROVE  PriorityOf(a) <= PriorityOf(b)
<1> USE DEF PriorityOf, CallbacksOf, Creating, Creates, Updates, Rows, SaleUpdates, AuctionUpdates, BuyofferUpdates,
            TemplateBuyofferUpdates, LinkUpdates, SimpleUpdates, AssetUpdates, ACTION_CREATE, ACTION_UPDATE,
            TABLE_AUCTIONS, TABLE_CONFIG, ACTION_CREATE_LINK, ACTION_UPDATE_LINK, TABLE_TOOLS_CONFIG,
            AA_ACTION_MINT_ASSET, AA_ACTION_UPDATE_ASSET, SA_TABLE_AUTHORS, SA_TABLE_CONFIG,
            AA_TABLE_CONFIG, AA_TABLE_BALANCES, TABLE_COLLECTIONS, TABLE_SCHEMAS, TABLE_TEMPLATES,
            ATOMICMARKET_BASE_PRIORITY, ATOMICTOOLS_BASE_PRIORITY, ATOMICASSETS_BASE_PRIORITY,
            SIMPLEASSETS_BASE_PRIORITY
<1>1. CASE k = "sales"
  BY <1>1 DEF Created
<1>2. CASE k = "auctions"
  BY <1>2 DEF Created
<1>3. CASE k = "ends"
  BY <1>3 DEF Created
<1>4. CASE k \in {"buyoffers", "templateBuyoffers"}
  BY <1>4 DEF Created
<1>5. CASE k = "links"
  BY <1>5 DEF Created
<1>6. CASE k \in {"simple", "minted"}
  BY <1>6 DEF Created
<1>7. CASE k \in Written \cup Configs
  BY <1>7 DEF Written, Configs
<1> QED BY <1>1, <1>2, <1>3, <1>4, <1>5, <1>6, <1>7 DEF Followed, DataKinds, Created

(* A row that exists is not created again. *)
LEMMA FitsCreates ==
  ASSUME NEW k \in Created, NEW j, j.callback \in CallbacksOf(k), NEW r, r # NoRow, Fits(j, k, r)
  PROVE  j.callback \notin Creating
BY DEF Created, Fits, CallbacksOf, Creating, Creates, SaleFits, AuctionFits, EndFits, BuyofferFits,
       TemplateBuyofferFits, LinkFits, SimpleFits, MintedFits, SaleUpdates, AuctionUpdates, BuyofferUpdates,
       TemplateBuyofferUpdates, LinkUpdates, SimpleUpdates, AssetUpdates, Configs

(* The jobs of a row: at most one for each trace, each of a callback of    *)
(* its kind.                                                               *)
LEMMA JobsOnOK ==
  ASSUME NEW Q, NEW n, JobsOK(Q, n), NEW k \in Followed, NEW x
  PROVE  LET S == JobsOn(k, x, Q)
         IN  /\ \A i \in S : /\ i.index \in Nat /\ i.index <= n /\ i \in Q
                             /\ i.callback \in CallbacksOf(k) /\ i.callback # "log"
                             /\ i.priority \in Nat /\ i.priority = PriorityOf(i.callback)
             /\ \A i, m \in S : i.index = m.index => i = m
<1>1. \A i \in JobsOn(k, x, Q) : i \in Q /\ i.callback \in CallbacksOf(k) /\ i.callback # "log"
  BY NoLogTouches DEF JobsOn, Touches
<1> QED BY <1>1 DEF JobsOK

(* The job that is next fits its rows in the tables. *)
LEMMA FollowsFits ==
  ASSUME NEW Q, NEW n, JobsOK(Q, n), NEW j, IsNextIn(j, Q), NEW k \in Followed, NEW x, NEW t, NEW c,
         Follows(k, x, t, Q, c), Touches(j, k, x)
  PROVE  /\ Fits(j, k, Cell(t, k, x))
         /\ Leads(k, JobsOn(k, x, Q) \ {j}, Made(j, k, Cell(t, k, x)), Due(c, k, x))
<1> DEFINE S == JobsOn(k, x, Q)
<1>1. j \in S
  BY DEF JobsOn, IsNextIn
<1>2. /\ \A i \in S : i.index \in Nat /\ i.priority \in Nat /\ i \in Q
      /\ \A i, m \in S : i.index = m.index => i = m
  BY JobsOnOK
<1>3. /\ Leads(k, S, Cell(t, k, x), Due(c, k, x))
      /\ \A i, m \in S : i.index < m.index => i.priority <= m.priority
  BY DEF Follows
<1>4. \A i \in S : j.index <= i.index
  BY <1>1, <1>2, <1>3 DEF IsNextIn, Before
<1> DEFINE u == Cell(t, k, x)
           v == Due(c, k, x)
<1>5. Leads(k, S, u, v)
  BY <1>3
<1> HIDE DEF S, u, v
<1>6. Fits(j, k, u) /\ Leads(k, S \ {j}, Made(j, k, u), v)
  BY <1>1, <1>2, <1>4, <1>5, LeadsFirst
<1> QED BY <1>6 DEF S, u, v

(* The job that is next is executed. *)
LEMMA FollowsRun ==
  ASSUME NEW Q, NEW n, JobsOK(Q, n), NEW j, IsNextIn(j, Q), NEW k \in Followed, NEW x, NEW t, NEW t2, NEW c,
         Follows(k, x, t, Q, c),
         Cell(t2, k, x) = IF Touches(j, k, x) THEN Made(j, k, Cell(t, k, x)) ELSE Cell(t, k, x)
  PROVE  Follows(k, x, t2, Q \ {j}, c)
<1>1. JobsOn(k, x, Q \ {j}) = IF Touches(j, k, x) THEN JobsOn(k, x, Q) \ {j} ELSE JobsOn(k, x, Q)
  BY DEF JobsOn
<1>2. Leads(k, JobsOn(k, x, Q \ {j}), Cell(t2, k, x), Due(c, k, x))
  <2>1. CASE Touches(j, k, x)
    BY <2>1, <1>1, FollowsFits
  <2>2. CASE ~ Touches(j, k, x)
    BY <2>2, <1>1 DEF Follows
  <2> QED BY <2>1, <2>2
<1> QED BY <1>1, <1>2 DEF Follows

(* Jobs of another trace come. *)
LEMMA FollowsTrace ==
  ASSUME NEW Q, NEW n, JobsOK(Q, n), NEW N, NEW m, m.index = n + 1,
         m.callback # "log" => m \in N /\ m.priority = PriorityOf(m.callback),
         \A q \in N : q = m \/ q.callback = "log",
         NEW k \in Followed, NEW x, NEW t, NEW c, NEW c2,
         Follows(k, x, t, Q, c),
         IF Touches(m, k, x)
         THEN /\ Fits(m, k, Due(c, k, x)) /\ Due(c2, k, x) = Made(m, k, Due(c, k, x))
              /\ k \in Created => Due(c2, k, x) # NoRow
         ELSE Due(c2, k, x) = Due(c, k, x)
  PROVE  Follows(k, x, t, Q \cup N, c2)
<1> DEFINE S == JobsOn(k, x, Q)
<1>1. JobsOn(k, x, Q \cup N) = IF Touches(m, k, x) THEN S \cup {m} ELSE S
  <2>1. \A q \in N : Touches(q, k, x) => q = m
    BY NoLogTouches
  <2>2. Touches(m, k, x) => m \in N
    BY NoLogTouches
  <2> QED BY <2>1, <2>2 DEF JobsOn
<1>2. CASE ~ Touches(m, k, x)
  BY <1>1, <1>2 DEF Follows
<1>3. CASE Touches(m, k, x)
  <2>1. m.callback # "log" /\ m.callback \in CallbacksOf(k) /\ m.priority = PriorityOf(m.callback)
    BY <1>3, NoLogTouches DEF Touches
  <2>2. /\ \A i \in S : /\ i.index \in Nat /\ i.index < m.index
                        /\ i.callback \in CallbacksOf(k) /\ i.priority = PriorityOf(i.callback)
        /\ m.index \in Nat
    BY JobsOnOK DEF JobsOK
  <2>3. /\ Leads(k, S, Cell(t, k, x), Due(c, k, x))
        /\ \A i, j \in S : i.index < j.index => i.priority <= j.priority
        /\ k \in Created /\ S # {} => Due(c, k, x) # NoRow
    BY DEF Follows
  <2>4. Leads(k, S \cup {m}, Cell(t, k, x), Due(c2, k, x))
    <3> DEFINE u == Cell(t, k, x)
               v == Due(c, k, x)
    <3>1. Leads(k, S, u, v) /\ Fits(m, k, v) /\ Due(c2, k, x) = Made(m, k, v)
      BY <2>3, <1>3
    <3> HIDE DEF S, u, v
    <3>2. Leads(k, S \cup {m}, u, Made(m, k, v))
      BY <3>1, <2>2, LeadsLast
    <3> QED BY <3>1, <3>2 DEF u
  <2>5. \A i \in S : i.priority <= m.priority
    <3>1. k \in Created /\ S # {} => m.callback \notin Creating
      BY <2>1, <2>3, <1>3, FitsCreates
    <3> QED BY <2>1, <2>2, <3>1, PrioritiesRise
  <2>6. \A i, j \in S \cup {m} : i.index < j.index => i.priority <= j.priority
    BY <2>2, <2>3, <2>5
  <2> QED BY <1>1, <1>3, <2>4, <2>6 DEF Follows
<1> QED BY <1>2, <1>3

----------------------------------------
(* All rows: a job is executed, the jobs of a trace are added *)

(* The log jobs are finitely many. *)
LEMMA LogsFinite ==
  ASSUME NEW Q, NEW n, JobsOK(Q, n)
  PROVE  IsFiniteSet(LogsOf(Q)) /\ Cardinality(LogsOf(Q)) \in Nat
<1>1. IsFiniteSet(LogsOf(Q))
  BY FS_Subset DEF JobsOK, LogsOf
<1> QED BY <1>1, FS_CardinalityType

(* The job that is next turns the tables T into T2: the other jobs still   *)
(* make them those of the contracts.                                       *)
LEMMA RestsRun ==
  ASSUME NEW Q, NEW n, JobsOK(Q, n), NEW j, IsNextIn(j, Q), NEW T, NEW T2, NEW c, Rests(T, Q, c),
         RowsRun(j, T, T2), ListsRun(j, T, T2), T.logs \in Nat
  PROVE  Rests(T2, Q \ {j}, c) /\ JobsOK(Q \ {j}, n)
<1>0. j \in Q
  BY DEF IsNextIn
<1>1. ASSUME NEW k \in Followed, NEW x \in KeysOf(k) PROVE Follows(k, x, T2, Q \ {j}, c)
  <2>1. Follows(k, x, T, Q, c)
    BY DEF Rests
  <2>2. Fits(j, k, Cell(T, k, x)) \/ ~ Touches(j, k, x)
    BY <2>1, FollowsFits
  <2>3. Cell(T2, k, x) = IF Touches(j, k, x) THEN Made(j, k, Cell(T, k, x)) ELSE Cell(T, k, x)
    BY <2>2 DEF RowsRun
  <2> QED BY <2>1, <2>3, FollowsRun
<1>2. StoredOf(Q) = StoredOf({j}) \cup StoredOf(Q \ {j})
  BY <1>0 DEF StoredOf
<1>3. SimpleStoredOf(Q) = SimpleStoredOf({j}) \cup SimpleStoredOf(Q \ {j})
  BY <1>0 DEF SimpleStoredOf
<1>4. T2.logs + Cardinality(LogsOf(Q \ {j})) = c.logs
  <2>1. T.logs + Cardinality(LogsOf(Q)) = c.logs
    BY DEF Rests
  <2>2. IsFiniteSet(LogsOf(Q)) /\ Cardinality(LogsOf(Q)) \in Nat
    BY LogsFinite
  <2>3. CASE j.callback = "log"
    <3>1. LogsOf(Q \ {j}) = LogsOf(Q) \ {j} /\ j \in LogsOf(Q)
      BY <1>0, <2>3 DEF LogsOf
    <3>2. Cardinality(LogsOf(Q) \ {j}) = Cardinality(LogsOf(Q)) - 1
      BY <3>1, <2>2, FS_RemoveElement
    <3>3. T2.logs = T.logs + 1
      BY <2>3 DEF ListsRun
    <3>4. Cardinality(LogsOf(Q \ {j})) = Cardinality(LogsOf(Q)) - 1
      BY <3>1, <3>2
    <3> QED BY <2>1, <2>2, <3>3, <3>4
  <2>4. CASE j.callback # "log"
    <3>1. LogsOf(Q \ {j}) = LogsOf(Q)
      BY <2>4 DEF LogsOf
    <3> QED BY <2>1, <2>2, <2>4, <3>1 DEF ListsRun
  <2> QED BY <2>3, <2>4
<1>5. JobsOK(Q \ {j}, n)
  <2>1. IsFiniteSet(Q \ {j})
    BY FS_RemoveElement, <1>0 DEF JobsOK
  <2> QED BY <2>1 DEF JobsOK
<1> QED BY <1>1, <1>2, <1>3, <1>4, <1>5 DEF Rests, ListsRun

(* The contracts change from c to c2 with one trace: its jobs are executed *)
(* after those there are.                                                  *)
LEMMA RestsTrace ==
  ASSUME NEW Q, NEW n, JobsOK(Q, n), NEW N, NEW m, NEW heard \in BOOLEAN, NEW l, NEW logged \in BOOLEAN,
         TraceJobs(N, m, heard, l, logged, n + 1),
         NEW T, NEW c, NEW c2, Rests(T, Q, c), T.logs \in Nat,
         RowsTrace(m, heard, c, c2), ListsTrace(m, heard, logged, c, c2)
  PROVE  Rests(T, Q \cup N, c2) /\ JobsOK(Q \cup N, n + 1)
<1>0. n \in Nat /\ \A q \in Q : q.index \in Nat /\ q.index <= n /\ q.index # n + 1
  BY DEF JobsOK
<1>1. ASSUME NEW k \in Followed, NEW x \in KeysOf(k) PROVE Follows(k, x, T, Q \cup N, c2)
  <2> DEFINE o == IF heard THEN m ELSE l
  <2>1. Follows(k, x, T, Q, c)
    BY DEF Rests
  <2>2. o.index = n + 1
    BY DEF TraceJobs
  <2>3. o.callback # "log" => o \in N /\ o.priority = PriorityOf(o.callback)
    BY DEF TraceJobs
  <2>4. \A q \in N : q = o \/ q.callback = "log"
    BY DEF TraceJobs
  <2>5. IF Touches(o, k, x)
        THEN /\ Fits(o, k, Due(c, k, x)) /\ Due(c2, k, x) = Made(o, k, Due(c, k, x))
             /\ k \in Created => Due(c2, k, x) # NoRow
        ELSE Due(c2, k, x) = Due(c, k, x)
    <3>1. CASE heard
      BY <3>1 DEF RowsTrace
    <3>2. CASE ~ heard
      <4>1. ~ Touches(l, k, x)
        BY NoLogTouches DEF TraceJobs
      <4> QED BY <3>2, <4>1 DEF RowsTrace
    <3> QED BY <3>1, <3>2
  <2> HIDE DEF o
  <2> QED BY <2>1, <2>2, <2>3, <2>4, <2>5, FollowsTrace
<1>2. StoredOf(Q \cup N) = StoredOf(Q) \cup (IF heard THEN StoredOf({m}) ELSE {})
  BY DEF TraceJobs, StoredOf
<1>3. SimpleStoredOf(Q \cup N) = SimpleStoredOf(Q) \cup (IF heard THEN SimpleStoredOf({m}) ELSE {})
  BY DEF TraceJobs, SimpleStoredOf
<1>4. T.logs + Cardinality(LogsOf(Q \cup N)) = c2.logs
  <2>1. T.logs + Cardinality(LogsOf(Q)) = c.logs
    BY DEF Rests
  <2>2. IsFiniteSet(LogsOf(Q)) /\ Cardinality(LogsOf(Q)) \in Nat
    BY LogsFinite
  <2>3. CASE logged
    <3>1. LogsOf(Q \cup N) = LogsOf(Q) \cup {l} /\ l \notin LogsOf(Q)
      BY <1>0, <2>3 DEF LogsOf, TraceJobs
    <3>2. Cardinality(LogsOf(Q) \cup {l}) = Cardinality(LogsOf(Q)) + 1
      BY <3>1, <2>2, FS_AddElement
    <3>3. c2.logs = c.logs + 1
      BY <2>3 DEF ListsTrace
    <3>4. Cardinality(LogsOf(Q \cup N)) = Cardinality(LogsOf(Q)) + 1
      BY <3>1, <3>2
    <3> QED BY <2>1, <2>2, <3>3, <3>4
  <2>4. CASE ~ logged
    <3>1. LogsOf(Q \cup N) = LogsOf(Q)
      BY <2>4 DEF LogsOf, TraceJobs
    <3> QED BY <2>1, <2>2, <2>4, <3>1 DEF ListsTrace
  <2> QED BY <2>3, <2>4
<1>5. JobsOK(Q \cup N, n + 1)
  <2>1. IsFiniteSet(N)
    <3>1. IsFiniteSet({m} \cup {l})
      BY FS_Singleton, FS_Union
    <3> QED BY <3>1, FS_Subset DEF TraceJobs
  <2>2. IsFiniteSet(Q \cup N)
    BY <2>1, FS_Union DEF JobsOK
  <2>3. \A q \in N : /\ q.index = n + 1 /\ q.priority \in Nat
                     /\ q.callback # "log" => q = m /\ q.priority = PriorityOf(q.callback)
    BY DEF TraceJobs
  <2>4. \A i, q \in Q \cup N : i.index = q.index /\ i.callback # "log" /\ q.callback # "log" => i = q
    BY <1>0, <2>3 DEF JobsOK
  <2>5. \A q \in Q \cup N : /\ q.index \in 1 .. (n + 1)
                            /\ q.priority \in Nat
                            /\ q.callback # "log" => q.priority = PriorityOf(q.callback)
    BY <1>0, <2>3 DEF JobsOK
  <2> QED BY <1>0, <2>2, <2>4, <2>5 DEF JobsOK
<1> QED BY <1>1, <1>2, <1>3, <1>4, <1>5 DEF Rests, ListsTrace

----------------------------------------
(* Listeners: what a trace becomes *)

(* Priorities are numbers. *)
LEMMA PriorityIsNumber ==
  ASSUME NEW a PROVE PriorityOf(a) \in Nat
BY DEF PriorityOf, ACTION_CREATE, ACTION_UPDATE,
            TABLE_AUCTIONS, TABLE_CONFIG, ACTION_CREATE_LINK, ACTION_UPDATE_LINK, TABLE_TOOLS_CONFIG,
            AA_ACTION_MINT_ASSET, AA_ACTION_UPDATE_ASSET, SA_TABLE_AUTHORS, SA_TABLE_CONFIG,
            AA_TABLE_CONFIG, AA_TABLE_BALANCES, TABLE_COLLECTIONS, TABLE_SCHEMAS, TABLE_TEMPLATES,
            TABLE_PAIRS, TABLE_DATAPOINTS, DELPHIORACLE_BASE_PRIORITY,
            ATOMICMARKET_BASE_PRIORITY, ATOMICTOOLS_BASE_PRIORITY, ATOMICASSETS_BASE_PRIORITY,
            SIMPLEASSETS_BASE_PRIORITY

(* A trace becomes one job for each listener: of its own callback, and of  *)
(* the log processor.                                                      *)
LEMMA JobsOfTrace ==
  ASSUME NEW L, NEW p, Regular(L, p), NEW t, t.action # "log", NEW i
  PROVE  TraceJobs(JobsOf(L, t, i), MainOf(t, i), Heard(L, t.action), LogOf(t, i, p),
                   LoggedBy(L, t.action), i)
<1> DEFINE N == JobsOf(L, t, i)
           A == {l \in Active(L) : l.action = t.action}
<1>1. \A l \in A : Job(l, t, i) = IF l.callback = "log" THEN LogOf(t, i, p) ELSE MainOf(t, i)
  BY DEF Job, MainOf, LogOf, Regular, Active
<1>2. Heard(L, t.action) <=> \E l \in A : l.callback # "log"
  BY DEF Heard
<1>3. LoggedBy(L, t.action) <=> \E l \in A : l.callback = "log"
  BY DEF LoggedBy, Active, Regular
<1>4. \A q : q \in N <=> \E l \in A : q = Job(l, t, i)
  BY DEF JobsOf
<1>5. N = (IF Heard(L, t.action) THEN {MainOf(t, i)} ELSE {})
            \cup (IF LoggedBy(L, t.action) THEN {LogOf(t, i, p)} ELSE {})
  <2> HIDE DEF N, A
  <2>1. CASE Heard(L, t.action) /\ LoggedBy(L, t.action)
    BY <2>1, <1>1, <1>2, <1>3, <1>4
  <2>2. CASE Heard(L, t.action) /\ ~ LoggedBy(L, t.action)
    BY <2>2, <1>1, <1>2, <1>3, <1>4
  <2>3. CASE ~ Heard(L, t.action) /\ LoggedBy(L, t.action)
    BY <2>3, <1>1, <1>2, <1>3, <1>4
  <2>4. CASE ~ Heard(L, t.action) /\ ~ LoggedBy(L, t.action)
    BY <2>4, <1>1, <1>2, <1>3, <1>4
  <2> QED BY <2>1, <2>2, <2>3, <2>4
<1>6. MainCallback(t.action) # "log"
  BY DEF MainCallback
<1> QED BY <1>5, <1>6, PriorityIsNumber DEF TraceJobs, MainOf, LogOf, Regular

(* Listeners as the handlers register them. *)
LEMMA OnGood ==
  ASSUME NEW a, NEW b, NEW q, b # "log", b = MainCallback(a), q = PriorityOf(b), NEW p
  PROVE  Good(On(a, b, q), p) /\ Good(OnHead(a, b, q), p)
BY DEF Good, On, OnHead

LEMMA OnEachGood ==
  ASSUME NEW S, NEW q, \A a \in S : a # "log" /\ a = MainCallback(a) /\ q = PriorityOf(a), NEW p
  PROVE  \A l \in OnEach(S, q) : Good(l, p)
BY OnGood DEF OnEach

LEMMA LogsGood ==
  ASSUME NEW S, NEW p
  PROVE  \A l \in Logs(S, p) : Good(l, p)
BY DEF Logs, Good, On

(* What is registered is heard before the head of the chain, too. *)
LEMMA OnHeard ==
  ASSUME NEW L, NEW a, NEW b, NEW q, On(a, b, q) \in L, b # "log"
  PROVE  Heard(L, a)
BY DEF Heard, Active, On

LEMMA EachHeard ==
  ASSUME NEW L, NEW S, NEW q, OnEach(S, q) \subseteq L, NEW a \in S, a # "log"
  PROVE  Heard(L, a)
BY OnHeard DEF OnEach

(* The listeners of each handler are regular. *)
LEMMA MarketRegular == Regular(MarketListeners, LOGS)
<1> USE DEF Creates, Updates, Rows, SaleUpdates, AuctionUpdates, BuyofferUpdates, TemplateBuyofferUpdates,
            LinkUpdates, SimpleUpdates, AssetUpdates
<1>1. \A l \in OnEach(Creates, ACTION_CREATE) : Good(l, LOGS)
  <2>1. \A a \in Creates : a # "log" /\ a = MainCallback(a) /\ ACTION_CREATE = PriorityOf(a)
    BY DEF MainCallback, PriorityOf
  <2> QED BY <2>1, OnEachGood
<1>2. \A l \in OnEach(Updates, ACTION_UPDATE) : Good(l, LOGS)
  <2>1. \A a \in Updates : a # "log" /\ a = MainCallback(a) /\ ACTION_UPDATE = PriorityOf(a)
    BY DEF MainCallback, PriorityOf
  <2> QED BY <2>1, OnEachGood
<1>3. \A l \in OnEach(Rows, TABLE_CONFIG) : Good(l, LOGS)
  <2>1. \A a \in Rows : a # "log" /\ a = MainCallback(a) /\ TABLE_CONFIG = PriorityOf(a)
    BY DEF MainCallback, PriorityOf
  <2> QED BY <2>1, OnEachGood
<1>4. Good(On("auctions", "auctions", TABLE_AUCTIONS), LOGS) /\ Good(On("config", "config", TABLE_CONFIG), LOGS)
  <2>1. MainCallback("auctions") = "auctions" /\ PriorityOf("auctions") = TABLE_AUCTIONS
    BY DEF MainCallback, PriorityOf
  <2>2. MainCallback("config") = "config" /\ PriorityOf("config") = TABLE_CONFIG
    BY DEF MainCallback, PriorityOf
  <2> QED BY <2>1, <2>2, OnGood
<1>5. \A l \in MarketLogs : Good(l, LOGS)
  BY LogsGood DEF MarketLogs
<1>6. \A l \in MarketListeners : Good(l, LOGS)
  BY <1>1, <1>2, <1>3, <1>4, <1>5 DEF MarketListeners
<1>7. LOGS \in Nat
  BY DEF LOGS, ATOMICMARKET_BASE_PRIORITY
<1> QED BY <1>6, <1>7 DEF Regular, Good

LEMMA OracleRegular == Regular(OracleListeners, 0)
BY DEF Regular, OracleListeners, OnHead, MainCallback, PriorityOf, Creates, Updates, Rows, SaleUpdates,
       AuctionUpdates, BuyofferUpdates, TemplateBuyofferUpdates, LinkUpdates, SimpleUpdates, AssetUpdates

LEMMA ToolsRegular == Regular(ToolsListeners, TOOLS_LOGS)
<1> USE DEF Creates, Updates, Rows, SaleUpdates, AuctionUpdates, BuyofferUpdates, TemplateBuyofferUpdates,
            LinkUpdates, SimpleUpdates, AssetUpdates
<1>1. \A l \in OnEach(LinkUpdates, ACTION_UPDATE_LINK) : Good(l, TOOLS_LOGS)
  <2>1. \A a \in LinkUpdates : a # "log" /\ a = MainCallback(a) /\ ACTION_UPDATE_LINK = PriorityOf(a)
    BY DEF MainCallback, PriorityOf
  <2> QED BY <2>1, OnEachGood
<1>2. /\ Good(On("lognewlink", "lognewlink", ACTION_CREATE_LINK), TOOLS_LOGS)
      /\ Good(On("toolsconfig", "toolsconfig", TABLE_TOOLS_CONFIG), TOOLS_LOGS)
  <2>1. MainCallback("lognewlink") = "lognewlink" /\ PriorityOf("lognewlink") = ACTION_CREATE_LINK
    BY DEF MainCallback, PriorityOf
  <2>2. MainCallback("toolsconfig") = "toolsconfig" /\ PriorityOf("toolsconfig") = TABLE_TOOLS_CONFIG
    BY DEF MainCallback, PriorityOf
  <2> QED BY <2>1, <2>2, OnGood
<1>3. \A l \in ToolsLogs : Good(l, TOOLS_LOGS)
  BY LogsGood DEF ToolsLogs
<1>4. \A l \in ToolsListeners : Good(l, TOOLS_LOGS)
  BY <1>1, <1>2, <1>3 DEF ToolsListeners
<1>5. TOOLS_LOGS \in Nat
  BY DEF TOOLS_LOGS, ATOMICTOOLS_BASE_PRIORITY
<1> QED BY <1>4, <1>5 DEF Regular, Good

LEMMA SimpleRegular == Regular(SimpleListeners, 0)
<1> USE DEF Creates, Updates, Rows, SaleUpdates, AuctionUpdates, BuyofferUpdates, TemplateBuyofferUpdates,
            LinkUpdates, SimpleUpdates, AssetUpdates
<1>1. \A l \in OnEach(SimpleUpdates, SA_ACTION_UPDATE_ASSET) : Good(l, 0)
  <2>1. \A a \in SimpleUpdates : a # "log" /\ a = MainCallback(a) /\ SA_ACTION_UPDATE_ASSET = PriorityOf(a)
    BY DEF MainCallback, PriorityOf, SA_ACTION_UPDATE_ASSET, AA_ACTION_UPDATE_ASSET,
           ATOMICASSETS_BASE_PRIORITY, SIMPLEASSETS_BASE_PRIORITY
  <2> QED BY <2>1, OnEachGood
<1>2. /\ MainCallback("createlog") = "createlog" /\ PriorityOf("createlog") = SA_ACTION_MINT_ASSET
      /\ MainCallback("authors") = "authors" /\ PriorityOf("authors") = SA_TABLE_AUTHORS
      /\ MainCallback("simpleconfig") = "simpleconfig" /\ PriorityOf("simpleconfig") = SA_TABLE_CONFIG
  BY DEF MainCallback, PriorityOf, SA_ACTION_MINT_ASSET, AA_ACTION_MINT_ASSET,
         ATOMICASSETS_BASE_PRIORITY, SIMPLEASSETS_BASE_PRIORITY
<1>3. /\ Good(On("createlog", "createlog", SA_ACTION_MINT_ASSET), 0)
      /\ Good(On("authors", "authors", SA_TABLE_AUTHORS), 0)
      /\ Good(On("simpleconfig", "simpleconfig", SA_TABLE_CONFIG), 0)
  BY <1>2, OnGood
<1>4. \A l \in SimpleListeners : Good(l, 0)
  BY <1>1, <1>3 DEF SimpleListeners
<1> QED BY <1>4 DEF Regular, Good

LEMMA AssetsRegular == Regular(AssetListeners, AA_LOGS)
<1> USE DEF Creates, Updates, Rows, SaleUpdates, AuctionUpdates, BuyofferUpdates, TemplateBuyofferUpdates,
            LinkUpdates, SimpleUpdates, AssetUpdates
<1>1. \A l \in OnEach(AssetUpdates, AA_ACTION_UPDATE_ASSET) : Good(l, AA_LOGS)
  <2>1. \A a \in AssetUpdates : a # "log" /\ a = MainCallback(a) /\ AA_ACTION_UPDATE_ASSET = PriorityOf(a)
    BY DEF MainCallback, PriorityOf
  <2> QED BY <2>1, OnEachGood
<1>2. \A l \in {On("logmint", "minted", AA_ACTION_MINT_ASSET),
                On("logtransfer", "stored", AA_ACTION_UPDATE_ASSET),
                On("aaconfig", "aaconfig", AA_TABLE_CONFIG), On("aatokens", "aatokens", AA_TABLE_CONFIG),
                On("aabalances", "aabalances", AA_TABLE_BALANCES),
                On("collections", "collections", TABLE_COLLECTIONS),
                On("schemas", "schemas", TABLE_SCHEMAS), On("templates", "templates", TABLE_TEMPLATES)} :
          Good(l, AA_LOGS)
  BY DEF Good, On, MainCallback, PriorityOf
<1>3. \A l \in AssetLogs : Good(l, AA_LOGS)
  BY LogsGood DEF AssetLogs
<1>4. \A l \in AssetListeners : Good(l, AA_LOGS)
  BY <1>1, <1>2, <1>3 DEF AssetListeners
<1> QED BY <1>4 DEF Regular, Good, AA_LOGS

(* What handlers have a callback for. *)
LEMMA MarketHears ==
  \A a \in Creates \cup Updates \cup Rows \cup {"auctions", "config"} : Heard(MarketListeners, a)
<1>1. /\ OnEach(Creates, ACTION_CREATE) \subseteq MarketListeners
      /\ OnEach(Updates, ACTION_UPDATE) \subseteq MarketListeners
      /\ OnEach(Rows, TABLE_CONFIG) \subseteq MarketListeners
      /\ On("auctions", "auctions", TABLE_AUCTIONS) \in MarketListeners
      /\ On("config", "config", TABLE_CONFIG) \in MarketListeners
  BY DEF MarketListeners
<1>2. "log" \notin Creates \cup Updates \cup Rows
  BY DEF Creates, Updates, Rows, SaleUpdates, AuctionUpdates, BuyofferUpdates, TemplateBuyofferUpdates
<1> QED BY <1>1, <1>2, OnHeard, EachHeard

LEMMA ToolsHear == \A a \in LinkUpdates \cup {"lognewlink", "toolsconfig"} : Heard(ToolsListeners, a)
<1>1. /\ OnEach(LinkUpdates, ACTION_UPDATE_LINK) \subseteq ToolsListeners
      /\ On("lognewlink", "lognewlink", ACTION_CREATE_LINK) \in ToolsListeners
      /\ On("toolsconfig", "toolsconfig", TABLE_TOOLS_CONFIG) \in ToolsListeners
  BY DEF ToolsListeners
<1>2. "log" \notin LinkUpdates
  BY DEF LinkUpdates
<1> QED BY <1>1, <1>2, OnHeard, EachHeard

LEMMA SimpleHears ==
  \A a \in SimpleUpdates \cup {"createlog", "authors", "simpleconfig"} : Heard(SimpleListeners, a)
<1>1. /\ OnEach(SimpleUpdates, SA_ACTION_UPDATE_ASSET) \subseteq SimpleListeners
      /\ On("createlog", "createlog", SA_ACTION_MINT_ASSET) \in SimpleListeners
      /\ On("authors", "authors", SA_TABLE_AUTHORS) \in SimpleListeners
      /\ On("simpleconfig", "simpleconfig", SA_TABLE_CONFIG) \in SimpleListeners
  BY DEF SimpleListeners
<1>2. "log" \notin SimpleUpdates
  BY DEF SimpleUpdates
<1> QED BY <1>1, <1>2, OnHeard, EachHeard

LEMMA AssetsHear ==
  /\ \A a \in AssetUpdates \cup {"logmint", "logtransfer", "aaconfig", "aatokens", "aabalances",
                                 "collections", "schemas", "templates"} : Heard(AssetListeners, a)
  /\ \A a \in DefinitionLogs : ~ Heard(AssetListeners, a)
<1>1. /\ OnEach(AssetUpdates, AA_ACTION_UPDATE_ASSET) \subseteq AssetListeners
      /\ On("logmint", "minted", AA_ACTION_MINT_ASSET) \in AssetListeners
      /\ On("logtransfer", "stored", AA_ACTION_UPDATE_ASSET) \in AssetListeners
      /\ On("aaconfig", "aaconfig", AA_TABLE_CONFIG) \in AssetListeners
      /\ On("aatokens", "aatokens", AA_TABLE_CONFIG) \in AssetListeners
      /\ On("aabalances", "aabalances", AA_TABLE_BALANCES) \in AssetListeners
      /\ On("collections", "collections", TABLE_COLLECTIONS) \in AssetListeners
      /\ On("schemas", "schemas", TABLE_SCHEMAS) \in AssetListeners
      /\ On("templates", "templates", TABLE_TEMPLATES) \in AssetListeners
  BY DEF AssetListeners
<1>2. "log" \notin AssetUpdates
  BY DEF AssetUpdates
<1>3. \A l \in AssetListeners : l.callback = "log" \/ l.action \notin DefinitionLogs
  <2>1. \A l \in OnEach(AssetUpdates, AA_ACTION_UPDATE_ASSET) : l.action \in AssetUpdates
    BY DEF OnEach, On
  <2>2. \A l \in AssetLogs : l.callback = "log"
    BY DEF AssetLogs, Logs, On
  <2>3. AssetUpdates \cap DefinitionLogs = {}
    BY DEF AssetUpdates, DefinitionLogs, CollectionLogs
  <2> QED BY <2>1, <2>2, <2>3 DEF AssetListeners, On, DefinitionLogs, CollectionLogs
<1>4. ASSUME NEW a \in DefinitionLogs PROVE ~ Heard(AssetListeners, a)
  BY <1>3 DEF Heard, Active
<1>5. ASSUME NEW a \in AssetUpdates PROVE Heard(AssetListeners, a)
  BY <1>1, <1>2, EachHeard
<1>6. /\ Heard(AssetListeners, "logmint") /\ Heard(AssetListeners, "logtransfer")
      /\ Heard(AssetListeners, "aaconfig") /\ Heard(AssetListeners, "aatokens")
      /\ Heard(AssetListeners, "aabalances") /\ Heard(AssetListeners, "collections")
      /\ Heard(AssetListeners, "schemas") /\ Heard(AssetListeners, "templates")
  BY <1>1, OnHeard
<1> QED BY <1>4, <1>5, <1>6

----------------------------------------
(* What a contract sends *)

(* What one trace changes. *)
LEMMA SentOne ==
  ASSUME NEW nc, NEW t, NEW L, Send(nc, <<t>>, L)
  PROVE  /\ chain' = [nc EXCEPT !.logs = @ + OneIf(LoggedBy(L, t.action))]
         /\ liveQueue' = liveQueue \cup JobsOf(L, t, traces + 1) /\ traces' = traces + 1
         /\ ~ executing
         /\ UNCHANGED <<executing, queue, lastPriority, tables, memory, historyVars, readerVars, forks, stops>>
<1> DEFINE ts == <<t>>
<1>1. DOMAIN ts = {1} /\ ts[1] = t
  OBVIOUS
<1> HIDE DEF ts
<1>2. Send(nc, ts, L)
  BY DEF ts
<1>3. Logged(ts, L) = IF LoggedBy(L, t.action) THEN {1} ELSE {}
  BY <1>1 DEF Logged, LoggedBy
<1>4. Cardinality(Logged(ts, L)) = OneIf(LoggedBy(L, t.action))
  BY <1>3, FS_EmptySet, FS_Singleton DEF OneIf
<1>5. Cardinality(DOMAIN ts) = 1
  BY <1>1, FS_Singleton
<1>6. liveQueue' = liveQueue \cup JobsOf(L, t, traces + 1)
  BY <1>1, <1>2 DEF Send, ProcessTraces, JobsOf
<1> QED BY <1>2, <1>4, <1>5, <1>6 DEF Send, ProcessTraces

(* What two traces change. *)
LEMMA SentTwo ==
  ASSUME NEW nc, NEW t, NEW s, NEW L, Send(nc, <<t, s>>, L), traces \in Nat
  PROVE  /\ chain' = [nc EXCEPT !.logs = @ + (OneIf(LoggedBy(L, t.action)) + OneIf(LoggedBy(L, s.action)))]
         /\ liveQueue' = (liveQueue \cup JobsOf(L, t, traces + 1)) \cup JobsOf(L, s, traces + 1 + 1)
         /\ traces' = traces + 1 + 1
         /\ ~ executing
         /\ UNCHANGED <<executing, queue, lastPriority, tables, memory, historyVars, readerVars, forks, stops>>
<1> DEFINE ts == <<t, s>>
<1>1. DOMAIN ts = {1, 2} /\ ts[1] = t /\ ts[2] = s
  OBVIOUS
<1> HIDE DEF ts
<1>2. Send(nc, ts, L)
  BY DEF ts
<1>3. Cardinality({1, 2}) = 2
  <2>1. IsFiniteSet({1}) /\ Cardinality({1}) = 1
    BY FS_Singleton
  <2>2. Cardinality({1} \cup {2}) = Cardinality({1}) + 1
    BY <2>1, FS_AddElement
  <2>3. {1} \cup {2} = {1, 2} OBVIOUS
  <2> QED BY <2>1, <2>2, <2>3
<1>4. Cardinality(Logged(ts, L)) = OneIf(LoggedBy(L, t.action)) + OneIf(LoggedBy(L, s.action))
  <2>1. \A i : i \in Logged(ts, L) <=> (i = 1 /\ LoggedBy(L, t.action)) \/ (i = 2 /\ LoggedBy(L, s.action))
    BY <1>1 DEF Logged, LoggedBy
  <2>2. CASE LoggedBy(L, t.action) /\ LoggedBy(L, s.action)
    <3>1. Logged(ts, L) = {1, 2}
      BY <2>1, <2>2
    <3> QED BY <3>1, <2>2, <1>3 DEF OneIf
  <2>3. CASE LoggedBy(L, t.action) /\ ~ LoggedBy(L, s.action)
    <3>1. Logged(ts, L) = {1}
      BY <2>1, <2>3
    <3> QED BY <3>1, <2>3, FS_Singleton DEF OneIf
  <2>4. CASE ~ LoggedBy(L, t.action) /\ LoggedBy(L, s.action)
    <3>1. Logged(ts, L) = {2}
      BY <2>1, <2>4
    <3>2. Cardinality({2}) = 1
      BY FS_Singleton
    <3> QED BY <3>1, <3>2, <2>4 DEF OneIf
  <2>5. CASE ~ LoggedBy(L, t.action) /\ ~ LoggedBy(L, s.action)
    <3>1. Logged(ts, L) = {}
      BY <2>1, <2>5
    <3> QED BY <3>1, <2>5, FS_EmptySet DEF OneIf
  <2> QED BY <2>2, <2>3, <2>4, <2>5
<1>5. Cardinality(DOMAIN ts) = 2
  BY <1>1, <1>3
<1>6. liveQueue' = (liveQueue \cup JobsOf(L, t, traces + 1)) \cup JobsOf(L, s, traces + 1 + 1)
  <2>1. traces + 1 + 1 = traces + 2 OBVIOUS
  <2>2. liveQueue' = liveQueue \cup UNION {JobsOf(L, ts[i], traces + i) : i \in DOMAIN ts}
    BY <1>2 DEF Send, ProcessTraces, JobsOf
  <2> QED BY <2>1, <2>2, <1>1
<1>7. traces' = traces + 1 + 1
  BY <1>2, <1>5 DEF Send, ProcessTraces
<1> QED BY <1>2, <1>4, <1>6, <1>7 DEF Send, ProcessTraces

(* The rows the contracts ask for do not depend on the number of logs. *)
LEMMA DueSame ==
  ASSUME NEW c, NEW d, \A f \in Fields : f # "logs" => d[f] = c[f], NEW k \in Followed, NEW x
  PROVE  Due(d, k, x) = Due(c, k, x)
BY DEF Due, Cell, Fields, Followed, DataKinds, Created, Written, Configs, Rows

(* Neither does the shape. *)
LEMMA WithLogs ==
  ASSUME NEW c, ChainShape(c), NEW n \in Nat
  PROVE  LET d == [c EXCEPT !.logs = n]
         IN  /\ ChainShape(d) /\ d.logs = n
             /\ \A f \in Fields : f # "logs" => d[f] = c[f]
<1> DEFINE d == [c EXCEPT !.logs = n]
<1>1. c = [f \in Fields |-> c[f]]
  BY DEF ChainShape, Shape, IsMap
<1>2. d = [f \in Fields |-> d[f]] /\ d.logs = n /\ \A f \in Fields : f # "logs" => d[f] = c[f]
  BY <1>1 DEF Fields
<1> HIDE DEF d
<1>3. /\ \A f \in IdTables : d[f] = c[f]
      /\ d.auctions = c.auctions /\ d.rows = c.rows /\ d.oracle = c.oracle /\ d.simple = c.simple
      /\ d.authors = c.authors /\ d.assetBalances = c.assetBalances /\ d.market = c.market
      /\ d.assetConfig = c.assetConfig /\ d.buyoffers = c.buyoffers
      /\ d.templateBuyoffers = c.templateBuyoffers /\ d.templates = c.templates
      /\ d.minted = c.minted /\ d.tools = c.tools /\ d.simpleVersion = c.simpleVersion
  BY <1>2 DEF Fields, IdTables
<1>4. Shape(d)
  <2>1. IsMap(d, Fields) /\ d.logs \in Nat
    BY <1>2 DEF IsMap
  <2>2. \A f \in IdTables : IsMap(d[f], Ids)
    BY <1>3 DEF ChainShape, Shape
  <2> QED BY <2>1, <2>2, <1>3 DEF ChainShape, Shape
<1>5. ChainShape(d)
  BY <1>3, <1>4 DEF ChainShape
<1> QED BY <1>2, <1>5 DEF d

----------------------------------------
(* An action of a contract keeps the invariant *)

(* Everything else stays when a contract acts. *)
LEMMA StepOne ==
  ASSUME Inv, NEW nc, NEW t, NEW L, NEW p, Send(nc, <<t>>, L), Regular(L, p), t.action # "log",
         ChainShape(nc), nc.logs = chain.logs,
         RowsTrace(MainOf(t, traces + 1), Heard(L, t.action), chain, nc),
         ListsTrace(MainOf(t, traces + 1), Heard(L, t.action), FALSE, chain, nc)
  PROVE  Inv'
<1> DEFINE b == LoggedBy(L, t.action)
           N == JobsOf(L, t, traces + 1)
           m == MainOf(t, traces + 1)
           h == Heard(L, t.action)
<1>1. /\ chain' = [nc EXCEPT !.logs = @ + OneIf(b)]
      /\ liveQueue' = liveQueue \cup N /\ traces' = traces + 1
      /\ ~ executing
      /\ UNCHANGED <<executing, queue, lastPriority, tables, memory, historyVars, readerVars, forks, stops>>
  BY SentOne
<1>2. b \in BOOLEAN /\ h \in BOOLEAN
  BY DEF LoggedBy, Heard
<1>3. traces \in Nat /\ JobsOK(liveQueue, traces) /\ Rests(Origin, liveQueue, chain)
  BY <1>1 DEF Inv, ReaderInv, RestsInv, Pending, JobsOK
<1>4. /\ ChainShape(chain') /\ chain'.logs = nc.logs + OneIf(b)
      /\ \A f \in Fields : f # "logs" => chain'[f] = nc[f]
  <2>1. nc.logs \in Nat
    BY DEF ChainShape, Shape
  <2>2. nc.logs + OneIf(b) \in Nat
    BY <2>1 DEF OneIf
  <2> QED BY <1>1, <2>2, WithLogs
<1>5. RowsTrace(m, h, chain, chain')
  <2>1. \A k \in Followed : \A x : Due(chain', k, x) = Due(nc, k, x)
    BY <1>4, DueSame
  <2> HIDE DEF m, h
  <2> QED BY <2>1 DEF RowsTrace, m, h
<1>6. ListsTrace(m, h, b, chain, chain')
  <2>1. chain'.transfers = nc.transfers /\ chain'.simpleTransfers = nc.simpleTransfers
    BY <1>4 DEF Fields
  <2> QED BY <2>1, <1>4 DEF ListsTrace, OneIf
<1>7. TraceJobs(N, m, h, LogOf(t, traces + 1, p), b, traces + 1)
  BY JobsOfTrace
<1>8. Origin.logs \in Nat
  BY DEF Inv, ShapesInv, Shape, Origin
<1>9. Rests(Origin, liveQueue \cup N, chain') /\ JobsOK(liveQueue \cup N, traces + 1)
  <2> DEFINE c2 == chain'
             T == Origin
             l == LogOf(t, traces + 1, p)
  <2>1. /\ RowsTrace(m, h, chain, c2) /\ ListsTrace(m, h, b, chain, c2)
        /\ TraceJobs(N, m, h, l, b, traces + 1) /\ T.logs \in Nat /\ Rests(T, liveQueue, chain)
    BY <1>3, <1>5, <1>6, <1>7, <1>8
  <2> HIDE DEF c2, T, N, m, h, b, l
  <2>2. Rests(T, liveQueue \cup N, c2) /\ JobsOK(liveQueue \cup N, traces + 1)
    BY <2>1, <1>2, <1>3, RestsTrace
  <2> QED BY <2>2 DEF c2, T
<1>10. Origin' = Origin /\ Pending' = liveQueue \cup N
  BY <1>1 DEF Origin, Pending, historyVars, readerVars
<1>11. ShapesInv'
  BY <1>1, <1>4 DEF Inv, ShapesInv, historyVars
<1>12. ReaderInv'
  BY <1>1, <1>9, <1>10 DEF Inv, ReaderInv, readerVars
<1>13. CollectedInv'
  BY <1>1 DEF Inv, CollectedInv, readerVars
<1>14. MemoryInv'
  BY <1>1 DEF Inv, MemoryInv, readerVars, historyVars, Remembered
<1>15. RestsInv'
  BY <1>1, <1>9, <1>10 DEF Inv, RestsInv, historyVars
<1> QED BY <1>11, <1>12, <1>13, <1>14, <1>15 DEF Inv

(* The jobs of one trace after those of another. *)
LEMMA StepTwo ==
  ASSUME Inv, NEW nc, NEW mc, NEW t, NEW s, NEW L, NEW p, Send(nc, <<t, s>>, L), Regular(L, p),
         t.action # "log", s.action # "log",
         ChainShape(nc), nc.logs = chain.logs, ChainShape(mc), mc.logs = chain.logs,
         RowsTrace(MainOf(t, traces + 1), Heard(L, t.action), chain, mc),
         ListsTrace(MainOf(t, traces + 1), Heard(L, t.action), FALSE, chain, mc),
         RowsTrace(MainOf(s, traces + 1 + 1), Heard(L, s.action), mc, nc),
         ListsTrace(MainOf(s, traces + 1 + 1), Heard(L, s.action), FALSE, mc, nc)
  PROVE  Inv'
<1> DEFINE b == LoggedBy(L, t.action)
           d == LoggedBy(L, s.action)
           N == JobsOf(L, t, traces + 1)
           M == JobsOf(L, s, traces + 1 + 1)
           m == MainOf(t, traces + 1)
           o == MainOf(s, traces + 1 + 1)
           h == Heard(L, t.action)
           g == Heard(L, s.action)
           mc2 == [mc EXCEPT !.logs = @ + OneIf(b)]
<1>1. /\ traces \in Nat /\ JobsOK(liveQueue, traces)
  BY DEF Inv, ReaderInv, JobsOK
<1>2. /\ chain' = [nc EXCEPT !.logs = @ + (OneIf(b) + OneIf(d))]
      /\ liveQueue' = (liveQueue \cup N) \cup M /\ traces' = traces + 1 + 1
      /\ ~ executing
      /\ UNCHANGED <<executing, queue, lastPriority, tables, memory, historyVars, readerVars, forks, stops>>
  BY <1>1, SentTwo
<1>3. b \in BOOLEAN /\ h \in BOOLEAN /\ d \in BOOLEAN /\ g \in BOOLEAN
  BY DEF LoggedBy, Heard
<1>4. /\ Rests(Origin, liveQueue, chain)
  BY <1>2 DEF Inv, RestsInv, Pending
<1>5. chain.logs \in Nat
  BY Zenon DEF Inv, ShapesInv, ChainShape, Shape
<1>6. /\ ChainShape(chain') /\ chain'.logs = nc.logs + (OneIf(b) + OneIf(d))
      /\ \A f \in Fields : f # "logs" => chain'[f] = nc[f]
  <2>1. nc.logs + (OneIf(b) + OneIf(d)) \in Nat
    BY <1>5 DEF OneIf
  <2> QED BY <1>2, <2>1, WithLogs
<1>7. /\ ChainShape(mc2) /\ mc2.logs = mc.logs + OneIf(b)
      /\ \A f \in Fields : f # "logs" => mc2[f] = mc[f]
  <2>1. mc.logs + OneIf(b) \in Nat
    BY <1>5 DEF OneIf
  <2> QED BY <2>1, WithLogs
<1>8. /\ \A k \in Followed : \A x : Due(chain', k, x) = Due(nc, k, x)
      /\ \A k \in Followed : \A x : Due(mc2, k, x) = Due(mc, k, x)
  <2> HIDE DEF mc2
  <2> QED BY <1>6, <1>7, DueSame
<1>9. /\ chain'.transfers = nc.transfers /\ chain'.simpleTransfers = nc.simpleTransfers
      /\ mc2.transfers = mc.transfers /\ mc2.simpleTransfers = mc.simpleTransfers
  <2> HIDE DEF mc2
  <2> QED BY <1>6, <1>7 DEF Fields
<1>10. RowsTrace(m, h, chain, mc2) /\ RowsTrace(o, g, mc2, chain')
  <2> DEFINE c2 == chain'
  <2>1. /\ \A k \in Followed : \A x : Due(c2, k, x) = Due(nc, k, x)
        /\ \A k \in Followed : \A x : Due(mc2, k, x) = Due(mc, k, x)
        /\ RowsTrace(m, h, chain, mc) /\ RowsTrace(o, g, mc, nc)
    BY <1>8
  <2> HIDE DEF m, h, o, g, mc2, c2
  <2>2. RowsTrace(m, h, chain, mc2)
    BY <2>1 DEF RowsTrace
  <2>3. RowsTrace(o, g, mc2, c2)
    BY <2>1 DEF RowsTrace
  <2> QED BY <2>2, <2>3 DEF c2
<1>11. ListsTrace(m, h, b, chain, mc2) /\ ListsTrace(o, g, d, mc2, chain')
  <2>1. mc2.logs = chain.logs + OneIf(b) /\ chain'.logs = (chain.logs + OneIf(b)) + OneIf(d)
    BY <1>5, <1>6, <1>7 DEF OneIf
  <2>2. /\ ListsTrace(m, h, FALSE, chain, mc) /\ ListsTrace(o, g, FALSE, mc, nc)
    OBVIOUS
  <2> HIDE DEF m, h, b, o, g, d, mc2
  <2> QED BY <1>9, <2>1, <2>2 DEF ListsTrace, OneIf
<1>12. /\ TraceJobs(N, m, h, LogOf(t, traces + 1, p), b, traces + 1)
       /\ TraceJobs(M, o, g, LogOf(s, traces + 1 + 1, p), d, traces + 1 + 1)
  BY JobsOfTrace
<1>13. Origin.logs \in Nat
  BY DEF Inv, ShapesInv, Shape, Origin
<1>14. Rests(Origin, (liveQueue \cup N) \cup M, chain') /\ JobsOK((liveQueue \cup N) \cup M, traces + 1 + 1)
  <2> DEFINE c2 == chain'
             T == Origin
             l == LogOf(t, traces + 1, p)
             r == LogOf(s, traces + 1 + 1, p)
  <2>1. /\ RowsTrace(m, h, chain, mc2) /\ ListsTrace(m, h, b, chain, mc2)
        /\ RowsTrace(o, g, mc2, c2) /\ ListsTrace(o, g, d, mc2, c2)
        /\ TraceJobs(N, m, h, l, b, traces + 1) /\ T.logs \in Nat /\ Rests(T, liveQueue, chain)
        /\ TraceJobs(M, o, g, r, d, traces + 1 + 1)
    BY <1>4, <1>10, <1>11, <1>12, <1>13
  <2> HIDE DEF c2, T, N, M, m, h, b, l, o, g, d, r, mc2
  <2>2. Rests(T, liveQueue \cup N, mc2) /\ JobsOK(liveQueue \cup N, traces + 1)
    BY <2>1, <1>1, <1>3, RestsTrace
  <2>3. Rests(T, (liveQueue \cup N) \cup M, c2) /\ JobsOK((liveQueue \cup N) \cup M, traces + 1 + 1)
    BY <2>1, <2>2, <1>3, RestsTrace
  <2> QED BY <2>3 DEF c2, T
<1>15. Origin' = Origin /\ Pending' = (liveQueue \cup N) \cup M
  BY <1>2 DEF Origin, Pending, historyVars, readerVars
<1>16. ShapesInv'
  BY <1>2, <1>6 DEF Inv, ShapesInv, historyVars
<1>17. ReaderInv'
  BY <1>2, <1>14, <1>15 DEF Inv, ReaderInv, readerVars
<1>18. CollectedInv'
  BY <1>2 DEF Inv, CollectedInv, readerVars
<1>19. MemoryInv'
  BY <1>2 DEF Inv, MemoryInv, readerVars, historyVars, Remembered
<1>20. RestsInv'
  BY <1>2, <1>14, <1>15 DEF Inv, RestsInv, historyVars
<1> QED BY <1>16, <1>17, <1>18, <1>19, <1>20 DEF Inv

----------------------------------------
(* Fields and rows of tables and contracts *)

(* A field is replaced. *)
LEMMA PutFields ==
  ASSUME NEW c, NEW f \in Fields, NEW v
  PROVE  /\ IsMap(Put(c, f, v), Fields) /\ Put(c, f, v)[f] = v
         /\ \A g \in Fields : g # f => Put(c, f, v)[g] = c[g]
BY DEF Put, IsMap

(* A callback belongs to one kind of rows. *)
LEMMA KindOfCallback ==
  ASSUME NEW k \in Followed \cup Configs, NEW a \in CallbacksOf(k)
  PROVE  KindOf(a) = IF k = "ends" THEN "auctions" ELSE k
<1>1. CASE k \in Created
  BY <1>1 DEF Created, KindOf, CallbacksOf, Rows, SaleUpdates, AuctionUpdates, BuyofferUpdates,
              TemplateBuyofferUpdates, LinkUpdates, SimpleUpdates, AssetUpdates
<1>2. CASE k \in Written \cup Configs
  BY <1>2 DEF Written, Configs, KindOf, CallbacksOf, Rows, SaleUpdates, AuctionUpdates,
              BuyofferUpdates, TemplateBuyofferUpdates, LinkUpdates, SimpleUpdates, AssetUpdates
<1>3. k \in Created \cup Written \cup Configs
  BY DEF Followed, DataKinds
<1> QED BY <1>1, <1>2, <1>3

(* What a job of a kind does not touch. *)
LEMMA OtherKinds ==
  ASSUME NEW k \in Followed \cup Configs, NEW j, j.callback \in CallbacksOf(k),
         NEW l \in Followed, l # k, k \in {"auctions", "ends"} => l \notin {"auctions", "ends"}, NEW x
  PROVE  ~ Touches(j, l, x)
BY KindOfCallback DEF Touches

(* The rows of other fields stay. *)
LEMMA OtherFields ==
  ASSUME NEW c, NEW d, NEW f \in Fields, NEW k \in Followed, FieldOf(k) # f, NEW x,
         \A g \in Fields : g # f => d[g] = c[g]
  PROVE  Due(d, k, x) = Due(c, k, x) /\ Cell(d, k, x) = Cell(c, k, x)
<1>1. CASE k \in {"auctions", "ends"}
  <2>1. d.auctions = c.auctions
    BY <1>1 DEF FieldOf, Fields, Rows
  <2> QED BY <1>1, <2>1 DEF Due, Cell, Configs, Rows
<1>2. CASE k \in Rows
  <2>1. d.rows = c.rows
    BY <1>2 DEF FieldOf, Fields, Rows
  <2> QED BY <1>2, <2>1 DEF Due, Cell, Configs, Rows
<1>3. CASE k \notin {"auctions", "ends"} \cup Rows
  <2>1. d[k] = c[k] /\ FieldOf(k) = k
    <3>1. FieldOf(k) = k
      BY <1>3 DEF FieldOf
    <3>2. k \in Fields
      BY <1>3 DEF Fields, Followed, DataKinds, Created, Written, Configs
    <3> QED BY <3>1, <3>2
  <2> QED BY <1>3, <2>1 DEF Due, Cell, Configs, Rows
<1> QED BY <1>1, <1>2, <1>3

(* So do the lists. *)
LEMMA OtherLists ==
  ASSUME NEW c, NEW d, NEW f \in Fields \ {"transfers", "simpleTransfers", "logs"},
         \A g \in Fields : g # f => d[g] = c[g]
  PROVE  d.transfers = c.transfers /\ d.simpleTransfers = c.simpleTransfers /\ d.logs = c.logs
BY DEF Fields

(* Kinds whose rows the tables have as the contracts have them. *)
LEMMA PlainKind ==
  ASSUME NEW k \in PlainKinds, NEW c, NEW x
  PROVE  /\ k \in Followed /\ FieldOf(k) = k /\ k \in IdTables /\ k \in Fields /\ KeysOf(k) = Ids
         /\ Cell(c, k, x) = c[k][x] /\ Due(c, k, x) = c[k][x]
         /\ k \notin {"auctions", "ends", "transfers", "simpleTransfers", "logs"}
         /\ \A l \in Followed : FieldOf(l) = k => l = k
<1>1. /\ k \in Followed /\ FieldOf(k) = k /\ k \in IdTables /\ k \in Fields /\ KeysOf(k) = Ids
      /\ k \notin {"auctions", "ends", "rows", "transfers", "simpleTransfers", "logs"} /\ k \notin Rows
  <2>1. k \in DataKinds /\ k \in IdTables /\ k \in Fields
    BY DEF PlainKinds, Fields, DataKinds, Created, Written, IdTables
  <2>2. KeysOf(k) = Ids /\ k \notin Rows /\ k \notin {"auctions", "ends", "rows", "transfers", "simpleTransfers", "logs"}
    BY DEF PlainKinds, KeysOf, Configs, Rows
  <2> QED BY <2>1, <2>2 DEF FieldOf, Followed
<1>2. Cell(c, k, x) = c[k][x]
  BY DEF PlainKinds, Cell, Configs, Rows
<1>3. Due(c, k, x) = c[k][x]
  BY <1>2 DEF PlainKinds, Due
<1> QED BY <1>1, <1>2, <1>3 DEF FieldOf

(* A row is replaced. *)
LEMMA PutRowShape ==
  ASSUME NEW c, Shape(c), NEW k \in IdTables, NEW i, NEW r, k = "auctions" => AuctionShape(r)
  PROVE  LET d == PutRow(c, k, i, r)
         IN  /\ Shape(d) /\ d[k] = [x \in Ids |-> IF x = i THEN r ELSE c[k][x]]
             /\ \A g \in Fields : g # k => d[g] = c[g]
<1> DEFINE d == PutRow(c, k, i, r)
           v == [x \in Ids |-> IF x = i THEN r ELSE c[k][x]]
<1>0. k \in Fields
  BY DEF IdTables, Fields
<1>1. IsMap(d, Fields) /\ d[k] = v /\ \A g \in Fields : g # k => d[g] = c[g]
  BY <1>0, PutFields DEF PutRow
<1>2. IsMap(v, Ids)
  BY DEF IsMap
<1> HIDE DEF d
<1>3. \A f \in IdTables : IsMap(d[f], Ids)
  <2>1. \A f \in IdTables : f # k => d[f] = c[f]
    BY <1>1 DEF IdTables, Fields
  <2> HIDE DEF v
  <2> QED BY <1>1, <1>2, <2>1 DEF Shape
<1>4. \A x \in Ids : AuctionShape(d.auctions[x])
  <2>1. CASE k = "auctions"
    BY <2>1, <1>1 DEF Shape
  <2>2. CASE k # "auctions"
    BY <2>2, <1>1 DEF Shape, Fields
  <2> QED BY <2>1, <2>2
<1>5. /\ d.rows = c.rows /\ d.oracle = c.oracle /\ d.simple = c.simple /\ d.authors = c.authors
      /\ d.assetBalances = c.assetBalances /\ d.market = c.market /\ d.assetConfig = c.assetConfig
      /\ d.logs = c.logs
  BY <1>1 DEF IdTables, Fields
<1>6. Shape(d)
  BY <1>1, <1>3, <1>4, <1>5 DEF Shape
<1> QED BY <1>1, <1>6 DEF d

LEMMA PutRowChain ==
  ASSUME NEW c, ChainShape(c), NEW k \in IdTables, NEW i, NEW r, RowShape(k, r)
  PROVE  ChainShape(PutRow(c, k, i, r))
<1> DEFINE d == PutRow(c, k, i, r)
<1>1. /\ Shape(d) /\ d[k] = [x \in Ids |-> IF x = i THEN r ELSE c[k][x]]
      /\ \A g \in Fields : g # k => d[g] = c[g]
  BY PutRowShape DEF ChainShape, RowShape
<1> HIDE DEF d
<1>2. /\ d.simple = c.simple /\ d.market = c.market /\ d.assetConfig = c.assetConfig
      /\ d.tools = c.tools /\ d.simpleVersion = c.simpleVersion
  BY <1>1 DEF IdTables, Fields
<1>3. \A x \in Ids : d.buyoffers[x] = [state |-> d.buyoffers[x].state]
  <2>1. CASE k = "buyoffers"
    BY <2>1, <1>1 DEF ChainShape, RowShape
  <2>2. CASE k # "buyoffers"
    <3>1. d.buyoffers = c.buyoffers
      BY <2>2, <1>1 DEF Fields
    <3> QED BY <3>1 DEF ChainShape
  <2> QED BY <2>1, <2>2
<1>4. \A x \in Ids : d.templateBuyoffers[x].state = "LISTED"
                       => d.templateBuyoffers[x] = [state |-> "LISTED", seller |-> Nobody]
  <2>1. CASE k = "templateBuyoffers"
    BY <2>1, <1>1 DEF ChainShape, RowShape
  <2>2. CASE k # "templateBuyoffers"
    <3>1. d.templateBuyoffers = c.templateBuyoffers
      BY <2>2, <1>1 DEF Fields
    <3> QED BY <3>1 DEF ChainShape
  <2> QED BY <2>1, <2>2
<1>5. \A x \in Ids : d.templates[x] # NoRow =>
        d.templates[x] = [state |-> d.templates[x].state, max_supply |-> d.templates[x].max_supply]
  <2>1. CASE k = "templates"
    BY <2>1, <1>1 DEF ChainShape, RowShape
  <2>2. CASE k # "templates"
    <3>1. d.templates = c.templates
      BY <2>2, <1>1 DEF Fields
    <3> QED BY <3>1 DEF ChainShape
  <2> QED BY <2>1, <2>2
<1>6. \A x \in Ids : d.minted[x] # NoRow => "mutable_data" \in DOMAIN d.minted[x]
  <2>1. CASE k = "minted"
    BY ZenonT(40), <2>1, <1>1 DEF ChainShape, RowShape
  <2>2. CASE k # "minted"
    <3>1. d.minted = c.minted
      BY <2>2, <1>1 DEF Fields
    <3> QED BY <3>1 DEF ChainShape
  <2> QED BY <2>1, <2>2
<1>7. ChainShape(d)
  BY <1>1, <1>2, <1>3, <1>4, <1>5, <1>6 DEF ChainShape
<1> QED BY <1>7 DEF d

(* Most callbacks store no transfer. *)
LEMMA NothingStored ==
  ASSUME NEW j, j.callback \notin {"stored", "transfer", "claim"}
  PROVE  StoredOf({j}) = {} /\ SimpleStoredOf({j}) = {}
BY DEF StoredOf, SimpleStoredOf

(* They leave the lists as they are. *)
LEMMA NoLists ==
  ASSUME NEW m, NEW c, NEW d, c.logs \in Nat, StoredOf({m}) = {}, SimpleStoredOf({m}) = {},
         d.transfers = c.transfers, d.simpleTransfers = c.simpleTransfers, d.logs = c.logs
  PROVE  ListsTrace(m, TRUE, FALSE, c, d)
<1>1. d.transfers = c.transfers \cup (IF TRUE THEN StoredOf({m}) ELSE {})
  OBVIOUS
<1>2. d.simpleTransfers = c.simpleTransfers \cup (IF TRUE THEN SimpleStoredOf({m}) ELSE {})
  OBVIOUS
<1>3. d.logs = c.logs + (IF FALSE THEN 1 ELSE 0)
  OBVIOUS
<1> QED BY <1>1, <1>2, <1>3 DEF ListsTrace

(* A contract's row of a plain kind gets the value its job makes. *)
LEMMA PlainSent ==
  ASSUME NEW c, ChainShape(c), NEW k \in PlainKinds, NEW i, NEW r, RowShape(k, r),
         NEW m, m.callback \in CallbacksOf(k), Named(k, m) = {i},
         i \in Ids => /\ Fits(m, k, c[k][i]) /\ r = Made(m, k, c[k][i])
                      /\ k \in Created => r # NoRow
  PROVE  Sends(m, c, PutRow(c, k, i, r))
<1> DEFINE d == PutRow(c, k, i, r)
<1>1. /\ ChainShape(d) /\ d[k] = [x \in Ids |-> IF x = i THEN r ELSE c[k][x]]
      /\ \A g \in Fields : g # k => d[g] = c[g]
  BY SMTT(30), PutRowShape, PutRowChain, PlainKind DEF ChainShape, RowShape
<1> HIDE DEF d
<1>2. ASSUME NEW l \in Followed, NEW x \in KeysOf(l), l # k
      PROVE  ~ Touches(m, l, x) /\ Due(d, l, x) = Due(c, l, x)
  <2>1. k \in Followed /\ FieldOf(l) # k /\ k \notin {"auctions", "ends"}
    <3>1. k \in Followed /\ k \notin {"auctions", "ends"} /\ (FieldOf(l) = k => l = k)
      BY PlainKind
    <3> QED BY <1>2, <3>1
  <2>4. k \in Fields /\ \A g \in Fields : g # k => d[g] = c[g]
    BY <1>1, PlainKind
  <2>2. ~ Touches(m, l, x)
    BY <1>2, <2>1, OtherKinds
  <2> QED
    <3>1. Due(d, l, x) = Due(c, l, x)
      BY <2>1, <2>4, OtherFields
    <3> QED BY <2>2, <3>1
<1>3. ASSUME NEW x \in KeysOf(k)
      PROVE  /\ x \in Ids /\ (Touches(m, k, x) <=> x = i)
             /\ Due(c, k, x) = c[k][x] /\ Due(d, k, x) = IF x = i THEN r ELSE c[k][x]
  BY <1>1, PlainKind DEF Touches
<1>4. RowsTrace(m, TRUE, c, d)
  BY <1>2, <1>3 DEF RowsTrace
<1>5. d.transfers = c.transfers /\ d.simpleTransfers = c.simpleTransfers /\ d.logs = c.logs
  BY <1>1, PlainKind, OtherLists
<1>6. m.callback \notin {"stored", "transfer", "claim"}
  BY DEF PlainKinds, CallbacksOf, Configs, SaleUpdates, BuyofferUpdates, TemplateBuyofferUpdates,
         LinkUpdates, AssetUpdates
<1>7. ListsTrace(m, TRUE, FALSE, c, d)
  <2>1. StoredOf({m}) = {} /\ SimpleStoredOf({m}) = {}
    BY <1>6, NothingStored
  <2>2. c.logs \in Nat
    BY DEF ChainShape, Shape
  <2> QED BY <1>5, <2>1, <2>2, NoLists
<1> QED BY <1>1, <1>4, <1>5, <1>7 DEF Sends, d

----------------------------------------
(* Sales *)

(* An action with one trace the handlers hear of. *)
LEMMA StepHeard ==
  ASSUME Inv, NEW nc, NEW t, NEW L, NEW p, Send(nc, <<t>>, L), Regular(L, p), Heard(L, t.action),
         t.action # "log", Sends(MainOf(t, traces + 1), chain, nc)
  PROVE  Inv'
<1>1. Heard(L, t.action) = TRUE
  BY DEF Heard
<1> DEFINE m == MainOf(t, traces + 1)
           h == Heard(L, t.action)
<1>2. ChainShape(nc) /\ nc.logs = chain.logs /\ RowsTrace(m, h, chain, nc) /\ ListsTrace(m, h, FALSE, chain, nc)
  <2>1. /\ ChainShape(nc) /\ nc.logs = chain.logs
        /\ RowsTrace(m, TRUE, chain, nc) /\ ListsTrace(m, TRUE, FALSE, chain, nc)
    BY DEF Sends
  <2> HIDE DEF m
  <2> QED BY <1>1, <2>1
<1> QED BY <1>2, StepOne

(* No action is called log. *)
LEMMA NotLog ==
  ASSUME NEW t, NEW k \in Followed \cup Configs, MainCallback(t.action) \in CallbacksOf(k)
  PROVE  t.action # "log"
BY DEF MainCallback, CallbacksOf, Followed, DataKinds, Created, Written, Configs, Rows,
       SaleUpdates, AuctionUpdates, BuyofferUpdates, TemplateBuyofferUpdates, LinkUpdates,
       SimpleUpdates, AssetUpdates

(* An action that changes one row of a plain kind. *)
LEMMA PlainStep ==
  ASSUME Inv, NEW k \in PlainKinds, NEW i, NEW r, NEW nc, nc = PutRow(chain, k, i, r), RowShape(k, r),
         NEW t, NEW L, NEW p, Send(nc, <<t>>, L), Regular(L, p), Heard(L, t.action),
         MainCallback(t.action) \in CallbacksOf(k),
         NEW m, m = MainOf(t, traces + 1), Named(k, m) = {i}, Fits(m, k, chain[k][i]), r = Made(m, k, chain[k][i]),
         k \in Created => r # NoRow
  PROVE  Inv'
<1>1. m.callback = MainCallback(t.action) /\ m.trace = t
  BY DEF MainOf
<1>2. ChainShape(chain)
  BY DEF Inv, ShapesInv
<1>3. Sends(m, chain, nc)
  BY <1>1, <1>2, PlainSent
<1>4. t.action # "log"
  BY PlainKind, NotLog
<1> QED BY <1>3, <1>4, StepHeard

(* The data of traces. *)
LEMMA WithData ==
  ASSUME NEW f, NEW g
  PROVE  /\ \A x \in DOMAIN f \ DOMAIN g : With(f, g)[x] = f[x]
         /\ \A x \in DOMAIN g : With(f, g)[x] = g[x]
         /\ DOMAIN With(f, g) = DOMAIN f \cup DOMAIN g
BY DEF With

(* A trace without more data. *)
LEMMA WithOne ==
  ASSUME NEW a, NEW i, NEW g, "action" \notin DOMAIN g, "id" \notin DOMAIN g
  PROVE  LET t == With(Trace(a, i), g)
         IN  t.action = a /\ t.id = i /\ \A x \in DOMAIN g : t[x] = g[x]
<1> DEFINE f == Trace(a, i)
<1>1. f.action = a /\ f.id = i /\ DOMAIN f = {"action", "id"}
  BY DEF Trace
<1> HIDE DEF f
<1>2. \A x \in DOMAIN f \ DOMAIN g : With(f, g)[x] = f[x]
  BY DEF With
<1>3. \A x \in DOMAIN g : With(f, g)[x] = g[x]
  BY DEF With
<1>4. With(f, g).action = a /\ With(f, g).id = i
  BY <1>1, <1>2
<1> QED BY <1>3, <1>4 DEF f

(* An id of the table k gets the row r. *)
LEMMA RowPut ==
  ASSUME NEW c, Shape(c), NEW i, NEW r
  PROVE  /\ [c EXCEPT !.sales[i] = r] = PutRow(c, "sales", i, r)
         /\ [c EXCEPT !.auctions[i] = r] = PutRow(c, "auctions", i, r)
         /\ [c EXCEPT !.buyoffers[i] = r] = PutRow(c, "buyoffers", i, r)
         /\ [c EXCEPT !.templateBuyoffers[i] = r] = PutRow(c, "templateBuyoffers", i, r)
         /\ [c EXCEPT !.links[i] = r] = PutRow(c, "links", i, r)
         /\ [c EXCEPT !.minted[i] = r] = PutRow(c, "minted", i, r)
         /\ [c EXCEPT !.collections[i] = r] = PutRow(c, "collections", i, r)
         /\ [c EXCEPT !.schemas[i] = r] = PutRow(c, "schemas", i, r)
         /\ [c EXCEPT !.templates[i] = r] = PutRow(c, "templates", i, r)
<1>1. IsMap(c, Fields) /\ \A f \in IdTables : IsMap(c[f], Ids)
  BY DEF Shape
<1>2. IsMap(c, Fields) /\ IsMap(c.sales, Ids) /\ IsMap(c.auctions, Ids) /\ IsMap(c.buyoffers, Ids)
      /\ IsMap(c.templateBuyoffers, Ids) /\ IsMap(c.links, Ids) /\ IsMap(c.minted, Ids)
      /\ IsMap(c.collections, Ids) /\ IsMap(c.schemas, Ids) /\ IsMap(c.templates, Ids)
  BY <1>1 DEF IdTables
<1>3. [c EXCEPT !.sales[i] = r] = PutRow(c, "sales", i, r)
  BY <1>2 DEF IsMap, PutRow, Put, Fields
<1>4. [c EXCEPT !.auctions[i] = r] = PutRow(c, "auctions", i, r)
  BY <1>2 DEF IsMap, PutRow, Put, Fields
<1>5. [c EXCEPT !.buyoffers[i] = r] = PutRow(c, "buyoffers", i, r)
  BY <1>2 DEF IsMap, PutRow, Put, Fields
<1>6. [c EXCEPT !.templateBuyoffers[i] = r] = PutRow(c, "templateBuyoffers", i, r)
  BY <1>2 DEF IsMap, PutRow, Put, Fields
<1>7. [c EXCEPT !.links[i] = r] = PutRow(c, "links", i, r)
  BY <1>2 DEF IsMap, PutRow, Put, Fields
<1>8. [c EXCEPT !.minted[i] = r] = PutRow(c, "minted", i, r)
  BY <1>2 DEF IsMap, PutRow, Put, Fields
<1>9. [c EXCEPT !.collections[i] = r] = PutRow(c, "collections", i, r)
  BY <1>2 DEF IsMap, PutRow, Put, Fields
<1>10. [c EXCEPT !.schemas[i] = r] = PutRow(c, "schemas", i, r)
  BY <1>2 DEF IsMap, PutRow, Put, Fields
<1>11. [c EXCEPT !.templates[i] = r] = PutRow(c, "templates", i, r)
  BY <1>2 DEF IsMap, PutRow, Put, Fields
<1> QED BY <1>3, <1>4, <1>5, <1>6, <1>7, <1>8, <1>9, <1>10, <1>11

(* An id of the contract's table k gets the row r. *)
LEMMA ChainRow ==
  ASSUME NEW i, NEW r, Inv
  PROVE  /\ [chain EXCEPT !.sales[i] = r] = PutRow(chain, "sales", i, r)
         /\ [chain EXCEPT !.auctions[i] = r] = PutRow(chain, "auctions", i, r)
         /\ [chain EXCEPT !.buyoffers[i] = r] = PutRow(chain, "buyoffers", i, r)
         /\ [chain EXCEPT !.templateBuyoffers[i] = r] = PutRow(chain, "templateBuyoffers", i, r)
         /\ [chain EXCEPT !.links[i] = r] = PutRow(chain, "links", i, r)
         /\ [chain EXCEPT !.minted[i] = r] = PutRow(chain, "minted", i, r)
         /\ [chain EXCEPT !.collections[i] = r] = PutRow(chain, "collections", i, r)
         /\ [chain EXCEPT !.schemas[i] = r] = PutRow(chain, "schemas", i, r)
         /\ [chain EXCEPT !.templates[i] = r] = PutRow(chain, "templates", i, r)
BY RowPut DEF Inv, ShapesInv, ChainShape

(* An action on a plain row whose trace carries the data g. *)
LEMMA PlainAction ==
  ASSUME Inv, NEW k \in PlainKinds \ {"buyoffers", "templateBuyoffers"}, NEW i, NEW r, NEW nc,
         nc = PutRow(chain, k, i, r), RowShape(k, r),
         NEW a, NEW g, "action" \notin DOMAIN g, "id" \notin DOMAIN g,
         NEW L, NEW p, Send(nc, <<With(Trace(a, i), g)>>, L), Regular(L, p), Heard(L, a),
         MainCallback(a) \in CallbacksOf(k),
         \A m : Carries(m, MainCallback(a), g) => Takes(m, k, chain[k][i], r)
  PROVE  Inv'
<1> DEFINE t == With(Trace(a, i), g)
           m == MainOf(t, traces + 1)
<1>1. t.action = a /\ t.id = i /\ \A x \in DOMAIN g : t[x] = g[x]
  BY WithOne
<1>2. Send(nc, <<t>>, L) OBVIOUS
<1> HIDE DEF t
<1>3. m.callback = MainCallback(a) /\ m.trace = t
  BY <1>1 DEF MainOf
<1> HIDE DEF m
<1>4. Takes(m, k, chain[k][i], r)
  BY <1>1, <1>3 DEF Carries
<1>5. Named(k, m) = {i}
  BY <1>1, <1>3 DEF Named, PlainKinds, Configs
<1>6. m = MainOf(t, traces + 1)
  BY DEF m
<1> QED BY <1>1, <1>2, <1>4, <1>5, <1>6, PlainStep DEF Takes

(* A sale. *)
LEMMA SaleStep ==
  ASSUME Inv, NEW i \in Ids, NEW a \in {"lognewsale"} \cup SaleUpdates, NEW g, NEW r,
         "action" \notin DOMAIN g, "id" \notin DOMAIN g, SaleAction(i, a, g, r),
         \A m : Carries(m, a, g) => SaleFits(m, chain.sales[i]) /\ r = SaleMade(m, chain.sales[i]) /\ r # NoRow
  PROVE  Inv'
<1>1. Send([chain EXCEPT !.sales[i] = r], <<With(Trace(a, i), g)>>, MarketListeners)
  BY DEF SaleAction, Emit
<1>2. [chain EXCEPT !.sales[i] = r] = PutRow(chain, "sales", i, r)
  BY ChainRow
<1>3. Heard(MarketListeners, a)
  BY MarketHears DEF Creates, Updates
<1>4. MainCallback(a) = a /\ a \in CallbacksOf("sales")
  BY DEF MainCallback, CallbacksOf, SaleUpdates, Configs
<1>5. "sales" \in PlainKinds /\ RowShape("sales", r)
  BY DEF PlainKinds, RowShape
<1>6. ASSUME NEW m, Carries(m, a, g) PROVE Takes(m, "sales", chain["sales"][i], r)
  BY <1>6 DEF Takes, Fits, Made, Configs
<1> QED BY <1>1, <1>2, <1>3, <1>4, <1>5, <1>6, MarketRegular, PlainAction

(* Every action of the market on a sale. *)
LEMMA SaleActions ==
  ASSUME Inv, NEW i \in Ids, NewSale(i) \/ Sale(i)
  PROVE  Inv'
<1> DEFINE row == chain.sales[i]
<1>1. ASSUME NewSale(i) PROVE Inv'
  <2>1. PICK pair : SaleAction(i, "lognewsale", [pair |-> pair], NewSaleRow(pair)) /\ row = NoRow
    BY <1>1 DEF NewSale, NewSaleRow
  <2>2. ASSUME NEW m, Carries(m, "lognewsale", [pair |-> pair])
        PROVE  SaleFits(m, row) /\ NewSaleRow(pair) = SaleMade(m, row) /\ NewSaleRow(pair) # NoRow
    BY Zenon, <2>1, <2>2 DEF Carries, SaleFits, SaleMade, NewSaleRow, NoRow
  <2> QED BY <2>1, <2>2, SaleStep
<1>2. ASSUME row.state = "WAITING",
             SaleAction(i, "logsalestart", [offer_id |-> "offer"],
                        [row EXCEPT !.state = "LISTED", !.offer_id = "offer"])
      PROVE  Inv'
  <2> DEFINE r == [row EXCEPT !.state = "LISTED", !.offer_id = "offer"]
  <2>1. ASSUME NEW m, Carries(m, "logsalestart", [offer_id |-> "offer"])
        PROVE  SaleFits(m, row) /\ r = SaleMade(m, row) /\ r # NoRow
    BY Zenon, <1>2, <2>1 DEF Carries, SaleFits, SaleMade, NoRow
  <2> QED BY <1>2, <2>1, SaleStep DEF SaleUpdates
<1>3. ASSUME row.state \in {"WAITING", "LISTED"},
             SaleAction(i, "cancelsale", <<>>, [row EXCEPT !.state = "CANCELED"])
      PROVE  Inv'
  <2> DEFINE r == [row EXCEPT !.state = "CANCELED"]
  <2>1. ASSUME NEW m, Carries(m, "cancelsale", <<>>)
        PROVE  SaleFits(m, row) /\ r = SaleMade(m, row) /\ r # NoRow
    BY Zenon, <1>3, <2>1 DEF Carries, SaleFits, SaleMade, NoRow
  <2> QED BY <1>3, <2>1, SaleStep DEF SaleUpdates
<1>4. ASSUME row.state = "LISTED", NEW b,
             SaleAction(i, "purchasesale", [buyer |-> b, median |-> row.pair # "none"],
                [row EXCEPT !.state = "SOLD", !.buyer = b,
                   !.final_price = IF row.pair = "none" THEN "listing price" ELSE "by median"])
      PROVE  Inv'
  <2> DEFINE r == [row EXCEPT !.state = "SOLD", !.buyer = b,
                    !.final_price = IF row.pair = "none" THEN "listing price" ELSE "by median"]
             g == [buyer |-> b, median |-> row.pair # "none"]
  <2>1. ASSUME NEW m, Carries(m, "purchasesale", g)
        PROVE  SaleFits(m, row) /\ r = SaleMade(m, row) /\ r # NoRow
    BY Zenon, <1>4, <2>1 DEF Carries, SaleFits, SaleMade, NoRow
  <2> QED BY <1>4, <2>1, SaleStep DEF SaleUpdates
<1> QED BY Zenon, <1>1, <1>2, <1>3, <1>4 DEF Sale

----------------------------------------
(* Links, assets that are minted, and transfers *)

(* An action about a link is one way to the row of the link. *)
LEMMA LinkStep ==
  ASSUME Inv, NEW i \in Ids, NEW a \in {"lognewlink"} \cup LinkUpdates, NEW g, NEW r,
         "action" \notin DOMAIN g, "id" \notin DOMAIN g, LinkAction(i, a, g, r),
         \A m : Carries(m, a, g) => LinkFits(m, chain.links[i]) /\ r = LinkMade(m, chain.links[i]) /\ r # NoRow
  PROVE  Inv'
<1>1. Send([chain EXCEPT !.links[i] = r], <<With(Trace(a, i), g)>>, ToolsListeners)
  BY DEF LinkAction, Trace
<1>2. [chain EXCEPT !.links[i] = r] = PutRow(chain, "links", i, r)
  BY ChainRow
<1>3. Heard(ToolsListeners, a)
  BY ToolsHear
<1>4. MainCallback(a) = a /\ a \in CallbacksOf("links")
  BY DEF MainCallback, CallbacksOf, LinkUpdates, Configs
<1>5. "links" \in PlainKinds /\ RowShape("links", r)
  BY DEF PlainKinds, RowShape
<1>6. ASSUME NEW m, Carries(m, a, g) PROVE Takes(m, "links", chain["links"][i], r)
  BY <1>6 DEF Takes, Fits, Made, Configs
<1> QED BY <1>1, <1>2, <1>3, <1>4, <1>5, <1>6, ToolsRegular, PlainAction

(* Every action of the tools on a link. *)
LEMMA LinkActions ==
  ASSUME Inv, NEW i \in Ids, Link(i)
  PROVE  Inv'
<1> DEFINE row == chain.links[i]
<1>1. ASSUME row = NoRow, LinkAction(i, "lognewlink", <<>>, [state |-> "WAITING", claimer |-> "null"])
      PROVE  Inv'
  <2> DEFINE r == [state |-> "WAITING", claimer |-> "null"]
  <2>1. ASSUME NEW m, Carries(m, "lognewlink", <<>>)
        PROVE  LinkFits(m, row) /\ r = LinkMade(m, row) /\ r # NoRow
    BY Zenon, <1>1, <2>1 DEF Carries, LinkFits, LinkMade, NoRow
  <2> QED BY <1>1, <2>1, LinkStep
<1>2. ASSUME row.state = "WAITING", LinkAction(i, "loglinkstart", <<>>, [row EXCEPT !.state = "CREATED"])
      PROVE  Inv'
  <2> DEFINE r == [row EXCEPT !.state = "CREATED"]
  <2>1. ASSUME NEW m, Carries(m, "loglinkstart", <<>>)
        PROVE  LinkFits(m, row) /\ r = LinkMade(m, row) /\ r # NoRow
    BY Zenon, <1>2, <2>1 DEF Carries, LinkFits, LinkMade, NoRow
  <2> QED BY <1>2, <2>1, LinkStep DEF LinkUpdates
<1>3. ASSUME row.state \in {"WAITING", "CREATED"},
             LinkAction(i, "cancellink", <<>>, [row EXCEPT !.state = "CANCELED"])
      PROVE  Inv'
  <2> DEFINE r == [row EXCEPT !.state = "CANCELED"]
  <2>1. ASSUME NEW m, Carries(m, "cancellink", <<>>)
        PROVE  LinkFits(m, row) /\ r = LinkMade(m, row) /\ r # NoRow
    BY Zenon, <1>3, <2>1 DEF Carries, LinkFits, LinkMade, NoRow
  <2> QED BY <1>3, <2>1, LinkStep DEF LinkUpdates
<1>4. ASSUME row.state = "CREATED", NEW b,
             LinkAction(i, "claimlink", [claimer |-> b], [state |-> "CLAIMED", claimer |-> b])
      PROVE  Inv'
  <2> DEFINE r == [state |-> "CLAIMED", claimer |-> b]
  <2>1. ASSUME NEW m, Carries(m, "claimlink", [claimer |-> b])
        PROVE  LinkFits(m, row) /\ r = LinkMade(m, row) /\ r # NoRow
    BY Zenon, <1>4, <2>1 DEF Carries, LinkFits, LinkMade, NoRow
  <2> QED BY <1>4, <2>1, LinkStep DEF LinkUpdates
<1> QED BY <1>1, <1>2, <1>3, <1>4 DEF Link

(* An action on an asset of atomicassets. *)
LEMMA MintedStep ==
  ASSUME Inv, NEW i \in Ids, NEW a \in {"logmint"} \cup AssetUpdates, NEW g, NEW r,
         "action" \notin DOMAIN g, "id" \notin DOMAIN g,
         MintedAction(i, a, g, r),
         "mutable_data" \in DOMAIN r,
         \A m : Carries(m, MainCallback(a), g)
                  => MintedFits(m, chain.minted[i]) /\ r = MintedMade(m, chain.minted[i])
  PROVE  Inv'
<1>1. Send([chain EXCEPT !.minted[i] = r], <<With(Trace(a, i), g)>>, AssetListeners)
  BY DEF MintedAction, AssetsAction, Trace
<1>2. [chain EXCEPT !.minted[i] = r] = PutRow(chain, "minted", i, r)
  BY ChainRow
<1>3. Heard(AssetListeners, a)
  BY AssetsHear
<1>4. MainCallback(a) \in CallbacksOf("minted")
  BY DEF MainCallback, CallbacksOf, AssetUpdates, Configs
<1>5. "minted" \in PlainKinds \ {"buyoffers", "templateBuyoffers"} /\ RowShape("minted", r) /\ r # NoRow
  <2>1. "minted" \in PlainKinds \ {"buyoffers", "templateBuyoffers"} /\ RowShape("minted", r)
    BY DEF PlainKinds, RowShape
  <2>2. DOMAIN NoRow = {"state"}
    BY DEF NoRow
  <2> QED BY <2>1, <2>2
<1>6. ASSUME NEW m, Carries(m, MainCallback(a), g) PROVE Takes(m, "minted", chain["minted"][i], r)
  <2>1. MintedFits(m, chain.minted[i]) /\ r = MintedMade(m, chain.minted[i])
    BY <1>6
  <2> QED BY <1>5, <2>1 DEF Takes, Fits, Made, Configs
<1> QED BY <1>1, <1>2, <1>3, <1>4, <1>5, <1>6, AssetsRegular, PlainAction

(* A trace that changes nothing the tables follow. *)
LEMMA QuietSends ==
  ASSUME NEW m, NEW c, NEW d, Quiet(m, c, d)
  PROVE  Sends(m, c, d)
BY DEF Quiet, Sends, RowsTrace

(* An action no handler has a callback for. *)
LEMMA StepUnheard ==
  ASSUME Inv, NEW nc, NEW t, NEW L, NEW p, Send(nc, <<t>>, L), Regular(L, p), t.action # "log",
         Quiet(MainOf(t, traces + 1), chain, nc),
         StoredOf({MainOf(t, traces + 1)}) = {}, SimpleStoredOf({MainOf(t, traces + 1)}) = {}
  PROVE  Inv'
<1> DEFINE m == MainOf(t, traces + 1)
           h == Heard(L, t.action)
<1>1. /\ ChainShape(nc) /\ nc.logs = chain.logs
      /\ \A k \in Followed : \A x \in KeysOf(k) :
           ~ Touches(m, k, x) /\ Due(nc, k, x) = Due(chain, k, x)
      /\ ListsTrace(m, TRUE, FALSE, chain, nc) /\ StoredOf({m}) = {} /\ SimpleStoredOf({m}) = {}
  BY DEF Quiet
<1> HIDE DEF m, h
<1>2. RowsTrace(m, h, chain, nc)
  BY <1>1 DEF RowsTrace
<1>3. ListsTrace(m, h, FALSE, chain, nc)
  <2>1. /\ nc.transfers = chain.transfers \cup (IF TRUE THEN StoredOf({m}) ELSE {})
        /\ nc.simpleTransfers = chain.simpleTransfers \cup (IF TRUE THEN SimpleStoredOf({m}) ELSE {})
        /\ nc.logs = chain.logs + (IF FALSE THEN 1 ELSE 0)
    BY <1>1 DEF ListsTrace
  <2>2. /\ (IF h THEN StoredOf({m}) ELSE {}) = StoredOf({m})
        /\ (IF h THEN SimpleStoredOf({m}) ELSE {}) = SimpleStoredOf({m})
    BY <1>1
  <2> QED BY <2>1, <2>2 DEF ListsTrace
<1> QED BY <1>1, <1>2, <1>3, StepOne DEF m, h

(* Lists have no shape. *)
LEMMA TransfersShape ==
  ASSUME NEW c, NEW d, ChainShape(c), IsMap(d, Fields), NEW f \in {"transfers", "simpleTransfers", "block"},
         \A g \in Fields : g # f => d[g] = c[g]
  PROVE  ChainShape(d)
<1>1. \A g \in Fields \ {"transfers", "simpleTransfers", "block"} : d[g] = c[g]
  OBVIOUS
<1>2. /\ d.logs = c.logs /\ d.rows = c.rows /\ d.oracle = c.oracle /\ d.authors = c.authors
      /\ d.assetBalances = c.assetBalances /\ \A g \in IdTables : d[g] = c[g]
  BY <1>1 DEF Fields, IdTables
<1>3. /\ d.auctions = c.auctions /\ d.buyoffers = c.buyoffers /\ d.templateBuyoffers = c.templateBuyoffers
      /\ d.templates = c.templates /\ d.minted = c.minted
  BY <1>2 DEF IdTables
<1>4. /\ d.simple = c.simple /\ d.market = c.market /\ d.assetConfig = c.assetConfig
      /\ d.tools = c.tools /\ d.simpleVersion = c.simpleVersion
  BY <1>1 DEF Fields
<1>5. Shape(d)
  BY <1>2, <1>3, <1>4 DEF ChainShape, Shape
<1> QED BY <1>3, <1>4, <1>5 DEF ChainShape

(* Stored transfers of assets. *)
LEMMA TransferStored ==
  ASSUME Inv, NEW v,
         AssetsAction([chain EXCEPT !.transfers = @ \cup {v}], <<[action |-> "logtransfer", transfer |-> v]>>)
  PROVE  Inv'
<1> DEFINE t  == [action |-> "logtransfer", transfer |-> v]
           nc == [chain EXCEPT !.transfers = @ \cup {v}]
           m  == MainOf(t, traces + 1)
           c  == chain
<1>1. Send(nc, <<t>>, AssetListeners) /\ t.action = "logtransfer" /\ t.transfer = v
  BY DEF AssetsAction
<1>2. ChainShape(c)
  BY DEF Inv, ShapesInv
<1>3. nc = Put(c, "transfers", c.transfers \cup {v})
  <2>1. IsMap(c, Fields)
    BY <1>2 DEF ChainShape, Shape
  <2> HIDE DEF c
  <2>2. [c EXCEPT !.transfers = @ \cup {v}] = Put(c, "transfers", c.transfers \cup {v})
    BY <2>1 DEF IsMap, Put, Fields
  <2> QED BY <2>2 DEF c
<1> HIDE DEF t, nc, c
<1>4. m.callback = "stored" /\ m.trace = t
  BY <1>1 DEF MainOf, MainCallback
<1>5. IsMap(nc, Fields) /\ nc.transfers = c.transfers \cup {v} /\ \A g \in Fields : g # "transfers" => nc[g] = c[g]
  BY <1>3, PutFields DEF Fields
<1> HIDE DEF m
<1>6. ChainShape(nc)
  BY <1>2, <1>5, TransfersShape
<1>7. \A k \in Followed : \A x \in KeysOf(k) : ~ Touches(m, k, x) /\ Due(nc, k, x) = Due(c, k, x)
  <2>1. \A k \in Followed : "stored" \notin CallbacksOf(k) /\ FieldOf(k) # "transfers"
    BY DEF CallbacksOf, FieldOf, Followed, DataKinds, Created, Written, Configs, Rows,
       SaleUpdates, AuctionUpdates, BuyofferUpdates, TemplateBuyofferUpdates, LinkUpdates,
       SimpleUpdates, AssetUpdates
  <2>2. ASSUME NEW k \in Followed, NEW x \in KeysOf(k)
        PROVE  ~ Touches(m, k, x) /\ Due(nc, k, x) = Due(c, k, x)
    <3>1. ~ Touches(m, k, x)
      BY <1>4, <2>1 DEF Touches
    <3>2. /\ "transfers" \in Fields /\ FieldOf(k) # "transfers"
          /\ \A g \in Fields : g # "transfers" => nc[g] = c[g]
      BY <1>5, <2>1 DEF Fields
    <3>3. Due(nc, k, x) = Due(c, k, x)
      BY <3>2, OtherFields
    <3> QED BY <3>1, <3>3
  <2> QED BY <2>2
<1>8. ListsTrace(m, TRUE, FALSE, c, nc)
  <2>1. StoredOf({m}) = {v} /\ SimpleStoredOf({m}) = {}
    BY <1>1, <1>4 DEF StoredOf, SimpleStoredOf
  <2>2. c.logs \in Nat
    BY <1>2 DEF ChainShape, Shape
  <2>3. nc.simpleTransfers = c.simpleTransfers /\ nc.logs = c.logs
    BY <1>5 DEF Fields
  <2>4. nc.transfers = c.transfers \cup (IF TRUE THEN StoredOf({m}) ELSE {})
    BY <1>5, <2>1
  <2>5. nc.simpleTransfers = c.simpleTransfers \cup (IF TRUE THEN SimpleStoredOf({m}) ELSE {})
    BY <2>3, <2>1
  <2>6. nc.logs = c.logs + (IF FALSE THEN 1 ELSE 0)
    BY <2>3, <2>2
  <2> QED BY <2>4, <2>5, <2>6 DEF ListsTrace
<1>9. Sends(m, c, nc)
  <2>1. nc.logs = c.logs
    BY <1>5 DEF Fields
  <2> QED BY <1>6, <1>7, <1>8, <2>1, QuietSends DEF Quiet
<1>10. Heard(AssetListeners, t.action) /\ t.action # "log"
  BY <1>1, AssetsHear
<1> QED BY <1>1, <1>9, <1>10, AssetsRegular, StepHeard DEF c, m

(* Every action on an asset of atomicassets, a transfer included. *)
LEMMA MintedActions ==
  ASSUME Inv, NEW i \in Ids, MintedAsset(i)
  PROVE  Inv'
<1> DEFINE row == chain.minted[i]
<1>0. row # NoRow => "mutable_data" \in DOMAIN row
  BY DEF Inv, ShapesInv, ChainShape
<1>1. ASSUME row = NoRow, NEW b,
             MintedAction(i, "logmint", [minter |-> b],
                          [state |-> "row", minter |-> b, mutable_data |-> "x", backed |-> 0])
      PROVE  Inv'
  <2> DEFINE r == [state |-> "row", minter |-> b, mutable_data |-> "x", backed |-> 0]
  <2>1. ASSUME NEW m, Carries(m, MainCallback("logmint"), [minter |-> b])
        PROVE  MintedFits(m, row) /\ r = MintedMade(m, row)
    BY <1>1, <2>1 DEF Carries, MainCallback, MintedFits, MintedMade
  <2> QED BY <1>1, <2>1, MintedStep
<1>2. ASSUME row # NoRow, NEW v,
             MintedAction(i, "logsetdata", [new_data |-> v], [row EXCEPT !.mutable_data = v])
      PROVE  Inv'
  <2> DEFINE r == [row EXCEPT !.mutable_data = v]
  <2>1. ASSUME NEW m, Carries(m, MainCallback("logsetdata"), [new_data |-> v])
        PROVE  MintedFits(m, row) /\ r = MintedMade(m, row)
    BY <1>2, <2>1 DEF Carries, MainCallback, MintedFits, MintedMade
  <2>2. "mutable_data" \in DOMAIN r
    BY <1>0, <1>2
  <2> QED BY <1>2, <2>1, <2>2, MintedStep DEF AssetUpdates
<1>3. ASSUME row # NoRow,
             MintedAction(i, "logbackasset", [amount |-> 1], [row EXCEPT !.backed = @ + 1])
      PROVE  Inv'
  <2> DEFINE r == [row EXCEPT !.backed = @ + 1]
  <2>1. ASSUME NEW m, Carries(m, MainCallback("logbackasset"), [amount |-> 1])
        PROVE  MintedFits(m, row) /\ r = MintedMade(m, row)
    BY <1>3, <2>1 DEF Carries, MainCallback, MintedFits, MintedMade
  <2>2. "mutable_data" \in DOMAIN r
    BY <1>0, <1>3
  <2> QED BY <1>3, <2>1, <2>2, MintedStep DEF AssetUpdates
<1> QED BY <1>1, <1>2, <1>3, TransferStored DEF MintedAsset, MintedAction

----------------------------------------
(* Buyoffers *)

(* Data is added to a trace. *)
LEMMA WithTrace ==
  ASSUME NEW f, NEW g, NEW a, NEW i, IsTrace(f, a, i), {"action", "id"} \subseteq DOMAIN f,
         "action" \notin DOMAIN g, "id" \notin DOMAIN g
  PROVE  IsTrace(With(f, g), a, i)
BY DEF With, IsTrace

(* A trace of the contract itself, and one of somebody else. *)
LEMMA AuthorizedTrace ==
  ASSUME NEW a, NEW i
  PROVE  LET t == Authorized(Trace(a, i), TRUE)
         IN  IsTrace(t, a, i) /\ t.authorized /\ DOMAIN t = {"action", "id", "authorized"}
<1> DEFINE g == [authorized |-> TRUE]
           t == With(Trace(a, i), g)
<1>1. DOMAIN g = {"authorized"} /\ g.authorized
  OBVIOUS
<1> HIDE DEF g
<1>2. IsTrace(Trace(a, i), a, i) /\ DOMAIN Trace(a, i) = {"action", "id"}
  BY DEF Trace, IsTrace
<1>3. IsTrace(t, a, i)
  BY <1>1, <1>2, WithTrace
<1>4. t.authorized /\ DOMAIN t = {"action", "id", "authorized"}
  <2>1. t["authorized"] = g["authorized"]
    BY <1>1 DEF With
  <2>2. DOMAIN t = {"action", "id", "authorized"}
    BY <1>1, <1>2 DEF With
  <2> HIDE DEF t
  <2> QED BY <1>1, <2>1, <2>2
<1> HIDE DEF t
<1> QED BY <1>3, <1>4 DEF t, g, Authorized

LEMMA UnauthorizedTrace ==
  ASSUME NEW a, NEW i
  PROVE  LET t == Authorized(Trace(a, i), FALSE)
         IN  IsTrace(t, a, i) /\ ~ t.authorized
<1> DEFINE g == [authorized |-> FALSE]
           t == With(Trace(a, i), g)
<1>1. DOMAIN g = {"authorized"} /\ ~ g.authorized
  OBVIOUS
<1> HIDE DEF g
<1>2. IsTrace(Trace(a, i), a, i) /\ DOMAIN Trace(a, i) = {"action", "id"}
  BY DEF Trace, IsTrace
<1>3. IsTrace(t, a, i)
  BY <1>1, <1>2, WithTrace
<1>4. ~ t.authorized
  <2>1. t["authorized"] = g["authorized"]
    BY <1>1 DEF With
  <2> HIDE DEF t
  <2> QED BY <1>1, <2>1
<1> HIDE DEF t
<1> QED BY <1>3, <1>4 DEF t, g, Authorized

(* An action on a buyoffer. *)
LEMMA BuyofferStep ==
  ASSUME Inv, NEW i \in Ids, NEW a \in {"lognewbuyo"} \cup BuyofferUpdates, NEW s,
         BuyofferAction(i, a, s), s \in {"PENDING", "CANCELED", "ACCEPTED", "DECLINED"},
         \A m : m.callback = a => /\ BuyofferFits(m, chain.buyoffers[i])
                                  /\ [state |-> s] = BuyofferMade(m, chain.buyoffers[i])
  PROVE  Inv'
<1> DEFINE r == [state |-> s]
           nc == [chain EXCEPT !.buyoffers[i] = r]
           t == Authorized(Trace(a, i), TRUE)
           m == MainOf(t, traces + 1)
<1>1. Send(nc, <<t>>, MarketListeners)
  BY DEF BuyofferAction, Emit
<1>2. nc = PutRow(chain, "buyoffers", i, r)
  BY ChainRow
<1>3. t.action = a /\ t.id = i /\ t.authorized
  BY ZenonT(40), AuthorizedTrace DEF IsTrace
<1>4. r # NoRow /\ RowShape("buyoffers", r)
  BY Zenon DEF RowShape, NoRow
<1> HIDE DEF t, nc, r
<1>5. m.callback = a
  BY <1>3 DEF MainOf, MainCallback, BuyofferUpdates
<1>6. BuyofferFits(m, chain.buyoffers[i]) /\ r = BuyofferMade(m, chain.buyoffers[i])
  BY <1>5 DEF r
<1> DEFINE mm == m
<1>7. mm = MainOf(t, traces + 1) OBVIOUS
<1>8. Fits(mm, "buyoffers", chain["buyoffers"][i]) /\ r = Made(mm, "buyoffers", chain["buyoffers"][i])
  BY <1>6 DEF Fits, Made, Configs
<1> HIDE DEF mm
<1>9. Named("buyoffers", mm) = {i}
  BY <1>3, <1>7 DEF Named, Configs, MainOf
<1>10. Heard(MarketListeners, t.action) /\ MainCallback(t.action) \in CallbacksOf("buyoffers")
  BY <1>3, MarketHears DEF Creates, Updates, MainCallback, CallbacksOf, BuyofferUpdates, Configs
<1>11. "buyoffers" \in PlainKinds
  BY DEF PlainKinds
<1> QED BY <1>1, <1>2, <1>4, <1>7, <1>8, <1>9, <1>10, <1>11, MarketRegular, PlainStep

(* Somebody else logs a buyoffer. *)
LEMMA Unauthorized ==
  ASSUME Inv, NEW i, NEW a \in {"lognewbuyo", "lognewtbuyo"},
         Emit(chain, <<Authorized(Trace(a, i), FALSE)>>)
  PROVE  Inv'
<1> DEFINE c == chain
           t == Authorized(Trace(a, i), FALSE)
           m == MainOf(t, traces + 1)
<1>1. Send(c, <<t>>, MarketListeners)
  BY DEF Emit
<1>2. t.action = a /\ ~ t.authorized
  BY UnauthorizedTrace DEF IsTrace
<1>3. ChainShape(c)
  BY DEF Inv, ShapesInv
<1> HIDE DEF t, c
<1>4. m.callback = a /\ m.trace = t
  BY <1>2 DEF MainOf, MainCallback
<1>5. \A k \in Followed : \A x \in KeysOf(k) : ~ Touches(m, k, x)
  <2> HIDE DEF m
  <2>1. ASSUME NEW k \in Followed, a \in CallbacksOf(k)
        PROVE  k \in {"buyoffers", "templateBuyoffers"}
    BY <2>1, KindOfCallback DEF KindOf, SaleUpdates, AuctionUpdates, BuyofferUpdates,
            TemplateBuyofferUpdates, LinkUpdates, SimpleUpdates, AssetUpdates
  <2>2. \A k \in {"buyoffers", "templateBuyoffers"} : Named(k, m) = {}
    BY <1>2, <1>4 DEF Named, Configs, Creates
  <2> QED BY <1>4, <2>1, <2>2 DEF Touches
<1>6. StoredOf({m}) = {} /\ SimpleStoredOf({m}) = {}
  BY <1>4, NothingStored
<1> HIDE DEF m
<1>7. ListsTrace(m, TRUE, FALSE, c, c)
  BY <1>3, <1>6, NoLists DEF ChainShape, Shape
<1>8. Quiet(m, c, c)
  BY <1>3, <1>5, <1>7 DEF Quiet
<1> QED BY <1>1, <1>2, <1>6, <1>8, MarketRegular, StepUnheard DEF m, c

(* Every action on a buyoffer, and logs that imitate it. *)
LEMMA BuyofferActions ==
  ASSUME Inv, NEW i \in Ids, Buyoffer(i)
  PROVE  Inv'
<1> DEFINE row == chain.buyoffers[i]
<1>0. row = [state |-> row.state]
  BY DEF Inv, ShapesInv, ChainShape
<1>1. ASSUME row = NoRow, BuyofferAction(i, "lognewbuyo", "PENDING") PROVE Inv'
  <2>1. ASSUME NEW m, m.callback = "lognewbuyo"
        PROVE  BuyofferFits(m, row) /\ [state |-> "PENDING"] = BuyofferMade(m, row)
    BY <1>1, <2>1 DEF BuyofferFits, BuyofferMade
  <2> QED BY <1>1, <2>1, BuyofferStep
<1>2. ASSUME row.state = "PENDING", BuyofferAction(i, "cancelbuyo", "CANCELED") PROVE Inv'
  <2>1. ASSUME NEW m, m.callback = "cancelbuyo"
        PROVE  BuyofferFits(m, row) /\ [state |-> "CANCELED"] = BuyofferMade(m, row)
    BY <1>0, <1>2, <2>1 DEF BuyofferFits, BuyofferMade
  <2> QED BY <1>2, <2>1, BuyofferStep DEF BuyofferUpdates
<1>3. ASSUME row.state = "PENDING", BuyofferAction(i, "acceptbuyo", "ACCEPTED") PROVE Inv'
  <2>1. ASSUME NEW m, m.callback = "acceptbuyo"
        PROVE  BuyofferFits(m, row) /\ [state |-> "ACCEPTED"] = BuyofferMade(m, row)
    BY <1>0, <1>3, <2>1 DEF BuyofferFits, BuyofferMade
  <2> QED BY <1>3, <2>1, BuyofferStep DEF BuyofferUpdates
<1>4. ASSUME row.state = "PENDING", BuyofferAction(i, "declinebuyo", "DECLINED") PROVE Inv'
  <2>1. ASSUME NEW m, m.callback = "declinebuyo"
        PROVE  BuyofferFits(m, row) /\ [state |-> "DECLINED"] = BuyofferMade(m, row)
    BY <1>0, <1>4, <2>1 DEF BuyofferFits, BuyofferMade
  <2> QED BY <1>4, <2>1, BuyofferStep DEF BuyofferUpdates
<1> QED BY <1>1, <1>2, <1>3, <1>4, Unauthorized DEF Buyoffer, BuyofferAction

(* An action on a template buyoffer. *)
LEMMA TemplateBuyofferStep ==
  ASSUME Inv, NEW i \in Ids, NEW a \in {"lognewtbuyo"} \cup TemplateBuyofferUpdates, NEW s, NEW b,
         TemplateBuyofferAction(i, a, s, b), s \in {"LISTED", "CANCELED", "SOLD"}, s = "LISTED" => b = Nobody,
         \A m : m.callback = a /\ m.trace.seller = b =>
                  /\ TemplateBuyofferFits(m, chain.templateBuyoffers[i])
                  /\ [state |-> s, seller |-> b] = TemplateBuyofferMade(m, chain.templateBuyoffers[i])
  PROVE  Inv'
<1> DEFINE r == [state |-> s, seller |-> b]
           nc == [chain EXCEPT !.templateBuyoffers[i] = r]
           f == Authorized(Trace(a, i), TRUE)
           g == [seller |-> b]
           t == With(f, g)
           m == MainOf(t, traces + 1)
<1>1. Send(nc, <<t>>, MarketListeners)
  BY DEF TemplateBuyofferAction, Emit
<1>2. nc = PutRow(chain, "templateBuyoffers", i, r)
  BY ChainRow
<1>3. t.action = a /\ t.id = i /\ t.authorized /\ t.seller = b
  <2>1. f.action = a /\ f.id = i /\ f.authorized /\ DOMAIN f = {"action", "id", "authorized"}
    BY AuthorizedTrace DEF IsTrace
  <2>2. DOMAIN g = {"seller"} /\ g.seller = b
    OBVIOUS
  <2> HIDE DEF f, g
  <2>3. /\ \A x \in DOMAIN f \ DOMAIN g : With(f, g)[x] = f[x]
        /\ \A x \in DOMAIN g : With(f, g)[x] = g[x]
    BY DEF With
  <2> QED BY <2>1, <2>2, <2>3
<1>4. r # NoRow /\ RowShape("templateBuyoffers", r)
  BY Zenon DEF RowShape, NoRow
<1> HIDE DEF t, nc, r
<1>5. m.callback = a /\ m.trace.seller = b
  BY <1>3 DEF MainOf, MainCallback, TemplateBuyofferUpdates
<1>6. TemplateBuyofferFits(m, chain.templateBuyoffers[i]) /\ r = TemplateBuyofferMade(m, chain.templateBuyoffers[i])
  BY <1>5 DEF r
<1> DEFINE mm == m
<1>7. mm = MainOf(t, traces + 1) OBVIOUS
<1>8. /\ Fits(mm, "templateBuyoffers", chain["templateBuyoffers"][i])
      /\ r = Made(mm, "templateBuyoffers", chain["templateBuyoffers"][i])
  BY <1>6 DEF Fits, Made, Configs
<1> HIDE DEF mm
<1>9. Named("templateBuyoffers", mm) = {i}
  BY <1>3, <1>7 DEF Named, Configs, MainOf
<1>10. Heard(MarketListeners, t.action) /\ MainCallback(t.action) \in CallbacksOf("templateBuyoffers")
  BY <1>3, MarketHears DEF Creates, Updates, MainCallback, CallbacksOf, TemplateBuyofferUpdates, Configs
<1>11. "templateBuyoffers" \in PlainKinds
  BY DEF PlainKinds
<1> QED BY <1>1, <1>2, <1>4, <1>7, <1>8, <1>9, <1>10, <1>11, MarketRegular, PlainStep

(* Every action on a template buyoffer. *)
LEMMA TemplateBuyofferActions ==
  ASSUME Inv, NEW i \in Ids, TemplateBuyoffer(i)
  PROVE  Inv'
<1> DEFINE row == chain.templateBuyoffers[i]
<1>0. row.state = "LISTED" => row = [state |-> "LISTED", seller |-> Nobody]
  BY DEF Inv, ShapesInv, ChainShape
<1>1. ASSUME row = NoRow, TemplateBuyofferAction(i, "lognewtbuyo", "LISTED", Nobody) PROVE Inv'
  <2>1. ASSUME NEW m, m.callback = "lognewtbuyo"
        PROVE  TemplateBuyofferFits(m, row) /\ [state |-> "LISTED", seller |-> Nobody] = TemplateBuyofferMade(m, row)
    BY <1>1, <2>1 DEF TemplateBuyofferFits, TemplateBuyofferMade
  <2> QED BY <1>1, <2>1, TemplateBuyofferStep
<1>2. ASSUME row.state = "LISTED", TemplateBuyofferAction(i, "canceltbuyo", "CANCELED", Nobody)
      PROVE  Inv'
  <2>1. ASSUME NEW m, m.callback = "canceltbuyo"
        PROVE  TemplateBuyofferFits(m, row) /\ [state |-> "CANCELED", seller |-> Nobody] = TemplateBuyofferMade(m, row)
    BY <1>0, <1>2, <2>1 DEF TemplateBuyofferFits, TemplateBuyofferMade
  <2> QED BY <1>2, <2>1, TemplateBuyofferStep DEF TemplateBuyofferUpdates
<1>3. ASSUME row.state = "LISTED", NEW b, TemplateBuyofferAction(i, "fulfilltbuyo", "SOLD", b)
      PROVE  Inv'
  <2>1. ASSUME NEW m, m.callback = "fulfilltbuyo", m.trace.seller = b
        PROVE  TemplateBuyofferFits(m, row) /\ [state |-> "SOLD", seller |-> b] = TemplateBuyofferMade(m, row)
    BY <1>0, <1>3, <2>1 DEF TemplateBuyofferFits, TemplateBuyofferMade
  <2> QED BY <1>3, <2>1, TemplateBuyofferStep DEF TemplateBuyofferUpdates
<1> QED BY <1>1, <1>2, <1>3, Unauthorized DEF TemplateBuyoffer, TemplateBuyofferAction

----------------------------------------
(* Auctions *)

(* Of two values that are put at one row, the second stays. *)
LEMMA PutTwice ==
  ASSUME NEW c, NEW k \in IdTables, NEW i, NEW u, NEW v
  PROVE  PutRow(PutRow(c, k, i, u), k, i, v) = PutRow(c, k, i, v)
<1> DEFINE d == PutRow(c, k, i, u)
           w == [x \in Ids |-> IF x = i THEN u ELSE c[k][x]]
<1>0. k \in Fields
  BY DEF IdTables, Fields
<1>1. d[k] = w /\ \A g \in Fields : g # k => d[g] = c[g]
  BY <1>0, PutFields DEF PutRow
<1> HIDE DEF d
<1>2. [x \in Ids |-> IF x = i THEN v ELSE d[k][x]] = [x \in Ids |-> IF x = i THEN v ELSE c[k][x]]
  BY <1>1
<1>3. Put(d, k, [x \in Ids |-> IF x = i THEN v ELSE c[k][x]]) = Put(c, k, [x \in Ids |-> IF x = i THEN v ELSE c[k][x]])
  BY <1>1 DEF Put
<1> QED BY <1>2, <1>3 DEF PutRow, d

(* A row of an auction: the end of the auction has jobs of its own. *)
LEMMA AuctionSent ==
  ASSUME NEW c, ChainShape(c), NEW i \in Ids, NEW r, AuctionShape(r),
         NEW m, m.callback \in {"lognewauct", "auctions"} \cup AuctionUpdates, m.trace.id = i,
         IF m.callback = "auctions" THEN Base(r) = Base(c.auctions[i])
         ELSE Takes(m, "auctions", Base(c.auctions[i]), Base(r)),
         IF m.callback \in {"lognewauct", "auctions"} THEN Takes(m, "ends", EndOf(c.auctions[i]), EndOf(r))
         ELSE EndOf(r) = EndOf(c.auctions[i])
  PROVE  Sends(m, c, PutRow(c, "auctions", i, r))
<1> DEFINE d == PutRow(c, "auctions", i, r)
<1>1. /\ ChainShape(d) /\ d.auctions = [x \in Ids |-> IF x = i THEN r ELSE c.auctions[x]]
      /\ \A g \in Fields : g # "auctions" => d[g] = c[g]
  <2>1. "auctions" \in IdTables /\ RowShape("auctions", r)
    BY DEF IdTables, RowShape
  <2> QED BY <2>1, PutRowShape, PutRowChain DEF ChainShape
<1> HIDE DEF d
<1>2. /\ "auctions" \in Followed /\ "ends" \in Followed
      /\ KeysOf("auctions") = Ids /\ KeysOf("ends") = Ids
      /\ Named("auctions", m) = {i} /\ Named("ends", m) = {i}
      /\ \A k \in Followed : k \notin {"auctions", "ends"} => FieldOf(k) # "auctions"
  BY DEF Followed, DataKinds, Created, KeysOf, Named, FieldOf, Configs
<1>3. /\ m.callback \in CallbacksOf("auctions") <=> m.callback # "auctions"
      /\ m.callback \in CallbacksOf("ends") <=> m.callback \in {"lognewauct", "auctions"}
      /\ m.callback \in CallbacksOf("auctions") \cup CallbacksOf("ends")
  BY DEF CallbacksOf, AuctionUpdates, Configs
<1>4. ASSUME NEW l \in Followed, NEW x \in KeysOf(l), l \notin {"auctions", "ends"}
      PROVE  ~ Touches(m, l, x) /\ Due(d, l, x) = Due(c, l, x)
  <2>1. Due(d, l, x) = Due(c, l, x)
    <3>1. /\ "auctions" \in Fields /\ FieldOf(l) # "auctions"
          /\ \A g \in Fields : g # "auctions" => d[g] = c[g]
      BY <1>1, <1>2, <1>4 DEF Fields
    <3> QED BY <3>1, OtherFields
  <2>2. ~ Touches(m, l, x)
    BY <1>2, <1>3, <1>4, OtherKinds
  <2> QED BY <2>1, <2>2
<1>5. \A x \in Ids : /\ Due(c, "auctions", x) = Base(c.auctions[x])
                     /\ Due(d, "auctions", x) = IF x = i THEN Base(r) ELSE Base(c.auctions[x])
                     /\ Due(c, "ends", x) = EndOf(c.auctions[x])
                     /\ Due(d, "ends", x) = IF x = i THEN EndOf(r) ELSE EndOf(c.auctions[x])
  <2>1. \A e, x : Due(e, "auctions", x) = Base(e.auctions[x]) /\ Due(e, "ends", x) = EndOf(e.auctions[x])
    BY DEF Due, Cell, Rows, Configs
  <2> QED BY <1>1, <2>1
<1>6. ASSUME NEW x \in Ids
      PROVE  IF Touches(m, "auctions", x)
             THEN /\ Fits(m, "auctions", Due(c, "auctions", x))
                  /\ Due(d, "auctions", x) = Made(m, "auctions", Due(c, "auctions", x))
                  /\ Due(d, "auctions", x) # NoRow
             ELSE Due(d, "auctions", x) = Due(c, "auctions", x)
  BY <1>2, <1>3, <1>5 DEF Touches, Takes, Created
<1>7. ASSUME NEW x \in Ids
      PROVE  IF Touches(m, "ends", x)
             THEN /\ Fits(m, "ends", Due(c, "ends", x))
                  /\ Due(d, "ends", x) = Made(m, "ends", Due(c, "ends", x))
                  /\ Due(d, "ends", x) # NoRow
             ELSE Due(d, "ends", x) = Due(c, "ends", x)
  BY <1>2, <1>3, <1>5 DEF Touches, Takes, Created
<1>8. RowsTrace(m, TRUE, c, d)
  <2> SUFFICES ASSUME NEW k \in Followed, NEW x \in KeysOf(k)
               PROVE  IF Touches(m, k, x)
                      THEN /\ Fits(m, k, Due(c, k, x)) /\ Due(d, k, x) = Made(m, k, Due(c, k, x))
                           /\ k \in Created => Due(d, k, x) # NoRow
                      ELSE Due(d, k, x) = Due(c, k, x)
    BY DEF RowsTrace
  <2>1. CASE k = "auctions"
    BY <2>1, <1>2, <1>6
  <2>2. CASE k = "ends"
    BY <2>2, <1>2, <1>7
  <2> QED BY <2>1, <2>2, <1>4
<1>9. ListsTrace(m, TRUE, FALSE, c, d) /\ d.logs = c.logs
  <2>1. d.transfers = c.transfers /\ d.simpleTransfers = c.simpleTransfers /\ d.logs = c.logs
    BY <1>1 DEF Fields
  <2>2. StoredOf({m}) = {} /\ SimpleStoredOf({m}) = {}
    BY NothingStored DEF AuctionUpdates
  <2>3. c.logs \in Nat
    BY DEF ChainShape, Shape
  <2> QED BY <2>1, <2>2, <2>3, NoLists
<1> QED BY <1>1, <1>8, <1>9 DEF Sends, d

(* An action with two traces: the action, and the row it changes. *)
LEMMA StepBoth ==
  ASSUME Inv, NEW nc, NEW mc, NEW t, NEW s, NEW L, NEW p, Send(nc, <<t, s>>, L), Regular(L, p),
         t.action # "log", s.action # "log", Heard(L, t.action), Heard(L, s.action),
         Sends(MainOf(t, traces + 1), chain, mc), Sends(MainOf(s, traces + 1 + 1), mc, nc)
  PROVE  Inv'
<1> DEFINE m == MainOf(t, traces + 1)
           o == MainOf(s, traces + 1 + 1)
           h == Heard(L, t.action)
           g == Heard(L, s.action)
<1>1. h = TRUE /\ g = TRUE
  BY DEF Heard
<1>2. /\ ChainShape(nc) /\ nc.logs = chain.logs /\ ChainShape(mc) /\ mc.logs = chain.logs
      /\ RowsTrace(m, TRUE, chain, mc) /\ ListsTrace(m, TRUE, FALSE, chain, mc)
      /\ RowsTrace(o, TRUE, mc, nc) /\ ListsTrace(o, TRUE, FALSE, mc, nc)
  BY DEF Sends
<1>3. /\ RowsTrace(m, h, chain, mc) /\ ListsTrace(m, h, FALSE, chain, mc)
      /\ RowsTrace(o, g, mc, nc) /\ ListsTrace(o, g, FALSE, mc, nc)
  <2> HIDE DEF m, o, h, g
  <2> QED BY <1>1, <1>2
<1> QED BY <1>2, <1>3, StepTwo

(* An action on an auction, from the row old by way of mid to new. *)
LEMMA AuctionStep ==
  ASSUME Inv, NEW i \in Ids, NEW a \in {"lognewauct"} \cup AuctionUpdates, NEW g, NEW mid, NEW new,
         "action" \notin DOMAIN g, "id" \notin DOMAIN g, AuctionAction(i, a, g, new),
         AuctionShape(mid), AuctionShape(new), mid # NoRow, new # NoRow, Base(mid) = Base(new),
         IF a = "lognewauct" THEN mid.end_time = g.end_time /\ "end_time" \in DOMAIN g /\ chain.auctions[i] = NoRow
         ELSE EndOf(mid) = EndOf(chain.auctions[i]),
         \A m : Carries(m, a, g) => Takes(m, "auctions", Base(chain.auctions[i]), Base(mid))
  PROVE  Inv'
<1> DEFINE c  == chain
           t  == With(Trace(a, i), g)
           s  == AuctionRow(i, new.end_time)
           nc == [c EXCEPT !.auctions[i] = new]
           mc == PutRow(c, "auctions", i, mid)
           m  == MainOf(t, traces + 1)
           o  == MainOf(s, traces + 1 + 1)
<1>1. Send(nc, <<t, s>>, MarketListeners)
  BY DEF AuctionAction, Emit
<1>2. nc = PutRow(mc, "auctions", i, new)
  <2>1. nc = PutRow(c, "auctions", i, new)
    BY ChainRow
  <2> HIDE DEF nc, c
  <2>2. PutRow(mc, "auctions", i, new) = PutRow(c, "auctions", i, new)
    BY PutTwice DEF IdTables
  <2> QED BY <2>1, <2>2
<1>3. t.action = a /\ t.id = i /\ \A x \in DOMAIN g : t[x] = g[x]
  BY WithOne
<1>4. s.action = "auctions" /\ s.id = i /\ s.end_time = new.end_time
  BY DEF AuctionRow
<1>5. ChainShape(c)
  BY DEF Inv, ShapesInv
<1>6. mc.auctions[i] = mid
  <2> HIDE DEF c
  <2>1. "auctions" \in Fields
    BY DEF Fields
  <2> QED BY <2>1, PutFields DEF PutRow
<1> HIDE DEF c, t, s, nc
<1>7. m.callback = a /\ m.trace = t /\ o.callback = "auctions" /\ o.trace = s
  BY <1>3, <1>4 DEF MainOf, MainCallback, AuctionUpdates
<1> HIDE DEF m, o
<1>8. Takes(m, "auctions", Base(c.auctions[i]), Base(mid))
  BY <1>3, <1>7 DEF Carries, c
<1>9. IF a = "lognewauct" THEN Takes(m, "ends", EndOf(c.auctions[i]), EndOf(mid))
      ELSE EndOf(mid) = EndOf(c.auctions[i])
  <2>1. CASE a = "lognewauct"
    <3>1. c.auctions[i] = NoRow /\ m.callback = "lognewauct" /\ m.trace.end_time = mid.end_time
      BY <2>1, <1>3, <1>7 DEF c
    <3> QED
      BY Zenon, <2>1, <3>1 DEF Takes, Fits, Made, EndFits, EndMade, EndOf, NoRow, Configs
  <2>2. CASE a # "lognewauct"
    BY <2>2 DEF c
  <2> QED BY <2>1, <2>2
<1>10. Sends(m, c, mc)
  <2>1. a # "auctions" /\ (a \in {"lognewauct", "auctions"} <=> a = "lognewauct")
    BY DEF AuctionUpdates
  <2> QED BY <1>3, <1>5, <1>7, <1>8, <1>9, <2>1, AuctionSent
<1>11. Takes(o, "ends", EndOf(mid), EndOf(new))
  BY Zenon, <1>4, <1>7 DEF Takes, Fits, Made, EndFits, EndMade, EndOf, NoRow, Configs
<1>12. Sends(o, mc, nc)
  <2>1. ChainShape(mc)
    BY <1>10 DEF Sends
  <2> HIDE DEF mc
  <2>2. Base(new) = Base(mc.auctions[i]) /\ Takes(o, "ends", EndOf(mc.auctions[i]), EndOf(new))
    BY <1>6, <1>11
  <2> QED BY <1>2, <1>4, <1>7, <2>1, <2>2, AuctionSent
<1>13. Heard(MarketListeners, t.action) /\ Heard(MarketListeners, s.action) /\ t.action # "log" /\ s.action # "log"
  BY <1>3, <1>4, MarketHears DEF Creates, Updates, AuctionUpdates
<1> QED
  <2> HIDE DEF mc
  <2> QED BY <1>1, <1>10, <1>12, <1>13, MarketRegular, StepBoth DEF c, m, o

(* Rows of auctions *)
LEMMA IsRow == ASSUME NEW r, r.state # "no row" PROVE r # NoRow
<1>1. NoRow.state = "no row"
  BY Zenon DEF NoRow
<1> QED BY Zenon, <1>1

(* A row with all its fields; each of the next lemmas replaces one. *)
LEMMA AuctionFields ==
  ASSUME NEW s, NEW b, NEW bids, NEW end, NEW cb, NEW cs
  PROVE  LET r == AuctionOf(s, b, bids, end, cb, cs)
         IN  /\ AuctionShape(r) /\ r # NoRow /\ r.bids = bids /\ r.end_time = end
             /\ Base(r) = AuctionOf(s, b, bids, 0, cb, cs)
             /\ EndOf(r) = [state |-> "row", end_time |-> end]
<1> DEFINE r == AuctionOf(s, b, bids, end, cb, cs)
<1>1. r # NoRow
  <2>1. DOMAIN r # DOMAIN NoRow
    BY DEF AuctionOf, NoRow
  <2> QED BY <2>1
<1>2. AuctionShape(r)
  BY DEF AuctionShape, AuctionOf
<1>3. Base(r) = AuctionOf(s, b, bids, 0, cb, cs) /\ EndOf(r) = [state |-> "row", end_time |-> end]
  BY <1>1 DEF Base, EndOf, AuctionOf
<1>4. r.bids = bids /\ r.end_time = end
  BY DEF AuctionOf
<1> QED BY <1>1, <1>2, <1>3, <1>4

LEMMA SetState ==
  ASSUME NEW s, NEW b, NEW bids, NEW end, NEW cb, NEW cs, NEW v
  PROVE  [AuctionOf(s, b, bids, end, cb, cs) EXCEPT !.state = v] = AuctionOf(v, b, bids, end, cb, cs)
BY DEF AuctionOf

LEMMA SetBuyer ==
  ASSUME NEW s, NEW b, NEW bids, NEW end, NEW cb, NEW cs, NEW v
  PROVE  [AuctionOf(s, b, bids, end, cb, cs) EXCEPT !.buyer = v] = AuctionOf(s, v, bids, end, cb, cs)
BY DEF AuctionOf

LEMMA SetBids ==
  ASSUME NEW s, NEW b, NEW bids, NEW end, NEW cb, NEW cs, NEW v
  PROVE  [AuctionOf(s, b, bids, end, cb, cs) EXCEPT !.bids = v] = AuctionOf(s, b, v, end, cb, cs)
BY DEF AuctionOf

LEMMA SetEnd ==
  ASSUME NEW s, NEW b, NEW bids, NEW end, NEW cb, NEW cs, NEW v
  PROVE  [AuctionOf(s, b, bids, end, cb, cs) EXCEPT !.end_time = v] = AuctionOf(s, b, bids, v, cb, cs)
BY DEF AuctionOf

LEMMA SetClaimed ==
  ASSUME NEW s, NEW b, NEW bids, NEW end, NEW cb, NEW cs, NEW v
  PROVE  [AuctionOf(s, b, bids, end, cb, cs) EXCEPT !.claimed_by_buyer = v] = AuctionOf(s, b, bids, end, v, cs)
BY DEF AuctionOf

LEMMA SetSold ==
  ASSUME NEW s, NEW b, NEW bids, NEW end, NEW cb, NEW cs, NEW v
  PROVE  [AuctionOf(s, b, bids, end, cb, cs) EXCEPT !.claimed_by_seller = v] = AuctionOf(s, b, bids, end, cb, v)
BY DEF AuctionOf

(* Every row of an auction is one with these fields. *)
LEMMA AuctionIs ==
  ASSUME NEW row, AuctionShape(row), row # NoRow
  PROVE  row = AuctionOf(row.state, row.buyer, row.bids, row.end_time,
                         row.claimed_by_buyer, row.claimed_by_seller)
BY DEF AuctionShape, AuctionOf

(* An update leaves the end as it is. *)
LEMMA UpdatedRow ==
  ASSUME NEW s, NEW b, NEW bids, NEW end, NEW cb, NEW cs, NEW s2, NEW b2, NEW bids2, NEW cb2, NEW cs2
  PROVE  Updated(AuctionOf(s, b, bids, end, cb, cs), AuctionOf(s2, b2, bids2, end, cb2, cs2))
BY AuctionFields DEF Updated

(* Start, cancellation and claims of an auction. *)
LEMMA AuctionUpdated ==
  ASSUME NEW row, AuctionShape(row), row # NoRow, NEW v
  PROVE  /\ Base(row) # NoRow
         /\ LET r == [row EXCEPT !.state = v]
            IN  Updated(row, r) /\ Base(r) = [Base(row) EXCEPT !.state = v]
         /\ LET r == [row EXCEPT !.claimed_by_buyer = v]
            IN  Updated(row, r) /\ Base(r) = [Base(row) EXCEPT !.claimed_by_buyer = v]
         /\ LET r == [row EXCEPT !.claimed_by_seller = v]
            IN  Updated(row, r) /\ Base(r) = [Base(row) EXCEPT !.claimed_by_seller = v]
<1> DEFINE s == row.state  b == row.buyer  bids == row.bids  end == row.end_time
           cb == row.claimed_by_buyer  cs == row.claimed_by_seller
           base == Base(row)
<1>1. row = AuctionOf(s, b, bids, end, cb, cs)
  BY AuctionIs
<1> HIDE DEF s, b, bids, end, cb, cs
<1>2. base = AuctionOf(s, b, bids, 0, cb, cs) /\ base # NoRow
  BY <1>1, AuctionFields
<1>3. /\ [row EXCEPT !.state = v] = AuctionOf(v, b, bids, end, cb, cs)
      /\ [row EXCEPT !.claimed_by_buyer = v] = AuctionOf(s, b, bids, end, v, cs)
      /\ [row EXCEPT !.claimed_by_seller = v] = AuctionOf(s, b, bids, end, cb, v)
  BY <1>1, SetState, SetClaimed, SetSold
<1> HIDE DEF base
<1>4. /\ [base EXCEPT !.state = v] = AuctionOf(v, b, bids, 0, cb, cs)
      /\ [base EXCEPT !.claimed_by_buyer = v] = AuctionOf(s, b, bids, 0, v, cs)
      /\ [base EXCEPT !.claimed_by_seller = v] = AuctionOf(s, b, bids, 0, cb, v)
  BY <1>2, SetState, SetClaimed, SetSold
<1>5. /\ Base(AuctionOf(v, b, bids, end, cb, cs)) = AuctionOf(v, b, bids, 0, cb, cs)
      /\ Base(AuctionOf(s, b, bids, end, v, cs)) = AuctionOf(s, b, bids, 0, v, cs)
      /\ Base(AuctionOf(s, b, bids, end, cb, v)) = AuctionOf(s, b, bids, 0, cb, v)
  BY AuctionFields
<1>6. /\ Updated(row, AuctionOf(v, b, bids, end, cb, cs))
      /\ Updated(row, AuctionOf(s, b, bids, end, v, cs))
      /\ Updated(row, AuctionOf(s, b, bids, end, cb, v))
  BY <1>1, UpdatedRow
<1> QED BY <1>2, <1>3, <1>4, <1>5, <1>6 DEF base

(* A bid, which moves the end of the auction, too. *)
LEMMA AuctionBidden ==
  ASSUME NEW row, AuctionShape(row), row # NoRow, NEW v
  PROVE  LET q == [row EXCEPT !.buyer = v, !.bids = Append(@, v)]
             r == [row EXCEPT !.buyer = v, !.bids = Append(@, v), !.end_time = @ + 1]
         IN  /\ AuctionShape(r) /\ r # NoRow /\ Updated(row, q) /\ Base(q) = Base(r)
             /\ Base(row) # NoRow /\ Base(q) = [Base(row) EXCEPT !.buyer = v, !.bids = Append(@, v)]
<1> DEFINE s == row.state  b == row.buyer  bids == row.bids  end == row.end_time
           cb == row.claimed_by_buyer  cs == row.claimed_by_seller
           n == Append(bids, v)
           later == end + 1
           base == Base(row)
<1>1. row = AuctionOf(s, b, bids, end, cb, cs)
  BY AuctionIs
<1>2. base = AuctionOf(s, b, bids, 0, cb, cs) /\ base # NoRow /\ base.bids = bids
  <2> HIDE DEF s, b, bids, end, cb, cs
  <2> QED BY <1>1, AuctionFields
<1> DEFINE one   == [row EXCEPT !.buyer = v]
           two   == [one EXCEPT !.bids = n]
           three == [two EXCEPT !.end_time = later]
           first == [base EXCEPT !.buyer = v]
           both  == [first EXCEPT !.bids = n]
<1>3. /\ [row EXCEPT !.buyer = v, !.bids = Append(@, v)] = two
      /\ [row EXCEPT !.buyer = v, !.bids = Append(@, v), !.end_time = @ + 1] = three
  OBVIOUS
<1>4. [base EXCEPT !.buyer = v, !.bids = Append(@, v)] = both
  <2> HIDE DEF base
  <2> QED BY <1>2
<1> HIDE DEF base
<1> HIDE DEF s, b, bids, end, cb, cs, n, later
<1>5. one = AuctionOf(s, v, bids, end, cb, cs)
  BY <1>1, SetBuyer
<1>8. first = AuctionOf(s, v, bids, 0, cb, cs)
  BY <1>2, SetBuyer
<1> HIDE DEF one, first
<1>6. two = AuctionOf(s, v, n, end, cb, cs)
  BY <1>5, SetBids
<1>9. both = AuctionOf(s, v, n, 0, cb, cs)
  BY <1>8, SetBids
<1> HIDE DEF two
<1>7. three = AuctionOf(s, v, n, later, cb, cs)
  BY <1>6, SetEnd
<1> HIDE DEF three, both
<1>10. /\ Base(AuctionOf(s, v, n, end, cb, cs)) = AuctionOf(s, v, n, 0, cb, cs)
       /\ Base(AuctionOf(s, v, n, later, cb, cs)) = AuctionOf(s, v, n, 0, cb, cs)
       /\ AuctionShape(AuctionOf(s, v, n, later, cb, cs)) /\ AuctionOf(s, v, n, later, cb, cs) # NoRow
  BY AuctionFields
<1>11. Updated(row, AuctionOf(s, v, n, end, cb, cs))
  BY <1>1, UpdatedRow
<1> QED BY <1>2, <1>3, <1>4, <1>6, <1>7, <1>9, <1>10, <1>11 DEF base

(* Every action on an auction. *)
LEMMA AuctionActions ==
  ASSUME Inv, NEW i \in Ids, NewAuction(i) \/ Auction(i)
  PROVE  Inv'
<1> DEFINE row == chain.auctions[i]
<1>0. AuctionShape(row)
  BY DEF Inv, ShapesInv, ChainShape, Shape
<1>1. ASSUME NewAuction(i) PROVE Inv'
  <2> DEFINE r == NewAuctionRow(1)
             g == [end_time |-> 1]
  <2>1. row = NoRow /\ AuctionAction(i, "lognewauct", g, r)
    BY <1>1 DEF NewAuction, NewAuctionRow
  <2>2. DOMAIN g = {"end_time"} /\ g.end_time = 1
    OBVIOUS
  <2>3. AuctionShape(r) /\ r # NoRow /\ r.end_time = 1 /\ Base(r) = NewAuctionRow(0) /\ NewAuctionRow(0) # NoRow
    BY Zenon DEF AuctionShape, NewAuctionRow, NoRow, Base
  <2>4. ASSUME NEW m, Carries(m, "lognewauct", g) PROVE Takes(m, "auctions", Base(row), Base(r))
    <3> HIDE DEF r, g
    <3> QED
      BY <2>1, <2>3, <2>4 DEF Carries, Takes, Fits, Made, AuctionFits, AuctionMade, Base, Configs
  <2> HIDE DEF r, g
  <2> QED BY <2>1, <2>2, <2>3, <2>4, AuctionStep
<1>2. ASSUME row.state = "WAITING", AuctionAction(i, "logauctstart", <<>>, [row EXCEPT !.state = "LISTED"])
      PROVE  Inv'
  <2> DEFINE r == [row EXCEPT !.state = "LISTED"]
             g == <<>>
  <2>1. row # NoRow
    BY Zenon, <1>2, IsRow
  <2>2. /\ AuctionShape(r) /\ r # NoRow /\ Base(r) = [Base(row) EXCEPT !.state = "LISTED"]
        /\ Base(row) # NoRow /\ Base(r) # NoRow /\ EndOf(r) = EndOf(row)
    BY <1>0, <2>1, AuctionUpdated DEF Updated
  <2> HIDE DEF r
  <2>3. ASSUME NEW m, Carries(m, "logauctstart", g) PROVE Takes(m, "auctions", Base(row), Base(r))
    BY <2>2, <2>3 DEF Carries, Takes, Fits, Made, AuctionFits, AuctionMade, Configs
  <2>4. "action" \notin DOMAIN g /\ "id" \notin DOMAIN g
    OBVIOUS
  <2>5. AuctionAction(i, "logauctstart", g, r)
    BY <1>2 DEF r
  <2> HIDE DEF g
  <2>6. "logauctstart" \in AuctionUpdates /\ "logauctstart" # "lognewauct"
    BY DEF AuctionUpdates
  <2> QED BY <2>2, <2>3, <2>4, <2>5, <2>6, AuctionStep
<1>3. ASSUME row.state \in {"WAITING", "LISTED"}, AuctionAction(i, "cancelauct", <<>>, [row EXCEPT !.state = "CANCELED"])
      PROVE  Inv'
  <2> DEFINE r == [row EXCEPT !.state = "CANCELED"]
             g == <<>>
  <2>1. row # NoRow
    BY Zenon, <1>3, IsRow
  <2>2. /\ AuctionShape(r) /\ r # NoRow /\ Base(r) = [Base(row) EXCEPT !.state = "CANCELED"]
        /\ Base(row) # NoRow /\ Base(r) # NoRow /\ EndOf(r) = EndOf(row)
    BY <1>0, <2>1, AuctionUpdated DEF Updated
  <2> HIDE DEF r
  <2>3. ASSUME NEW m, Carries(m, "cancelauct", g) PROVE Takes(m, "auctions", Base(row), Base(r))
    BY <2>2, <2>3 DEF Carries, Takes, Fits, Made, AuctionFits, AuctionMade, Configs
  <2>4. "action" \notin DOMAIN g /\ "id" \notin DOMAIN g
    OBVIOUS
  <2>5. AuctionAction(i, "cancelauct", g, r)
    BY <1>3 DEF r
  <2> HIDE DEF g
  <2>6. "cancelauct" \in AuctionUpdates /\ "cancelauct" # "lognewauct"
    BY DEF AuctionUpdates
  <2> QED BY <2>2, <2>3, <2>4, <2>5, <2>6, AuctionStep
<1>4. ASSUME row.state = "LISTED", AuctionAction(i, "auctclaimbuy", <<>>, [row EXCEPT !.claimed_by_buyer = TRUE])
      PROVE  Inv'
  <2> DEFINE r == [row EXCEPT !.claimed_by_buyer = TRUE]
             g == <<>>
  <2>1. row # NoRow
    BY Zenon, <1>4, IsRow
  <2>2. /\ AuctionShape(r) /\ r # NoRow /\ Base(r) = [Base(row) EXCEPT !.claimed_by_buyer = TRUE]
        /\ Base(row) # NoRow /\ Base(r) # NoRow /\ EndOf(r) = EndOf(row)
    BY <1>0, <2>1, AuctionUpdated DEF Updated
  <2> HIDE DEF r
  <2>3. ASSUME NEW m, Carries(m, "auctclaimbuy", g) PROVE Takes(m, "auctions", Base(row), Base(r))
    BY <2>2, <2>3 DEF Carries, Takes, Fits, Made, AuctionFits, AuctionMade, Configs
  <2>4. "action" \notin DOMAIN g /\ "id" \notin DOMAIN g
    OBVIOUS
  <2>5. AuctionAction(i, "auctclaimbuy", g, r)
    BY <1>4 DEF r
  <2> HIDE DEF g
  <2>6. "auctclaimbuy" \in AuctionUpdates /\ "auctclaimbuy" # "lognewauct"
    BY DEF AuctionUpdates
  <2> QED BY <2>2, <2>3, <2>4, <2>5, <2>6, AuctionStep
<1>5. ASSUME row.state = "LISTED", AuctionAction(i, "auctclaimsel", <<>>, [row EXCEPT !.claimed_by_seller = TRUE])
      PROVE  Inv'
  <2> DEFINE r == [row EXCEPT !.claimed_by_seller = TRUE]
             g == <<>>
  <2>1. row # NoRow
    BY Zenon, <1>5, IsRow
  <2>2. /\ AuctionShape(r) /\ r # NoRow /\ Base(r) = [Base(row) EXCEPT !.claimed_by_seller = TRUE]
        /\ Base(row) # NoRow /\ Base(r) # NoRow /\ EndOf(r) = EndOf(row)
    BY <1>0, <2>1, AuctionUpdated DEF Updated
  <2> HIDE DEF r
  <2>3. ASSUME NEW m, Carries(m, "auctclaimsel", g) PROVE Takes(m, "auctions", Base(row), Base(r))
    BY <2>2, <2>3 DEF Carries, Takes, Fits, Made, AuctionFits, AuctionMade, Configs
  <2>4. "action" \notin DOMAIN g /\ "id" \notin DOMAIN g
    OBVIOUS
  <2>5. AuctionAction(i, "auctclaimsel", g, r)
    BY <1>5 DEF r
  <2> HIDE DEF g
  <2>6. "auctclaimsel" \in AuctionUpdates /\ "auctclaimsel" # "lognewauct"
    BY DEF AuctionUpdates
  <2> QED BY <2>2, <2>3, <2>4, <2>5, <2>6, AuctionStep
<1>6. ASSUME row.state = "LISTED", NEW b,
             AuctionAction(i, "auctionbid", [bidder |-> b],
               [row EXCEPT !.buyer = b, !.bids = Append(@, b), !.end_time = @ + 1])
      PROVE  Inv'
  <2> DEFINE r == [row EXCEPT !.buyer = b, !.bids = Append(@, b), !.end_time = @ + 1]
             q == [row EXCEPT !.buyer = b, !.bids = Append(@, b)]
             g == [bidder |-> b]
  <2>1. row # NoRow
    BY Zenon, <1>6, IsRow
  <2>2. /\ AuctionShape(r) /\ r # NoRow /\ AuctionShape(q) /\ q # NoRow /\ EndOf(q) = EndOf(row)
        /\ Base(q) = Base(r) /\ Base(row) # NoRow /\ Base(q) # NoRow
        /\ Base(q) = [Base(row) EXCEPT !.buyer = b, !.bids = Append(@, b)]
    BY Zenon, <1>0, <2>1, AuctionBidden DEF Updated
  <2> HIDE DEF r, q
  <2>3. ASSUME NEW m, Carries(m, "auctionbid", g) PROVE Takes(m, "auctions", Base(row), Base(q))
    BY <2>2, <2>3 DEF Carries, Takes, Fits, Made, AuctionFits, AuctionMade, Configs
  <2>4. "action" \notin DOMAIN g /\ "id" \notin DOMAIN g
    OBVIOUS
  <2>5. AuctionAction(i, "auctionbid", g, r)
    BY <1>6 DEF r
  <2> HIDE DEF g
  <2>6. "auctionbid" \in AuctionUpdates /\ "auctionbid" # "lognewauct"
    BY DEF AuctionUpdates
  <2> QED BY Zenon, <2>2, <2>3, <2>4, <2>5, <2>6, AuctionStep
<1> QED BY Zenon, <1>1, <1>2, <1>3, <1>4, <1>5, <1>6 DEF Auction

----------------------------------------
(* Fields that are no tables of ids *)

(* A field other than a table of ids is replaced. *)
LEMMA PutShape ==
  ASSUME NEW t, Shape(t), NEW f \in Fields \ IdTables, NEW v, FieldShape(f, v)
  PROVE  LET d == Put(t, f, v)
         IN  Shape(d) /\ d[f] = v /\ \A g \in Fields : g # f => d[g] = t[g]
<1> DEFINE d == Put(t, f, v)
<1>1. IsMap(d, Fields) /\ d[f] = v /\ \A g \in Fields : g # f => d[g] = t[g]
  BY PutFields
<1> HIDE DEF d
<1>2. \A g \in IdTables : d[g] = t[g]
  BY <1>1 DEF Fields, IdTables
<1>3. d.auctions = t.auctions
  BY <1>2 DEF IdTables
<1>4. IsMap(d.rows, Rows) /\ \A g \in Rows : IsMap(d.rows[g], Ids)
  <2>1. CASE f = "rows"
    BY <2>1, <1>1 DEF FieldShape
  <2>2. CASE f # "rows"
    <3>1. d.rows = t.rows
      BY <2>2, <1>1 DEF Fields
    <3> QED BY <3>1 DEF Shape
  <2> QED BY <2>1, <2>2
<1>5. IsMap(d.oracle, Pairs)
  <2>1. CASE f = "oracle"
    BY <2>1, <1>1 DEF FieldShape
  <2>2. CASE f # "oracle"
    BY <2>2, <1>1 DEF Fields, Shape
  <2> QED BY <2>1, <2>2
<1>6. IsMap(d.simple, Assets)
  <2>1. CASE f = "simple"
    BY <2>1, <1>1 DEF FieldShape
  <2>2. CASE f # "simple"
    BY <2>2, <1>1 DEF Fields, Shape
  <2> QED BY <2>1, <2>2
<1>7. IsMap(d.authors, Accounts)
  <2>1. CASE f = "authors"
    BY <2>1, <1>1 DEF FieldShape
  <2>2. CASE f # "authors"
    BY <2>2, <1>1 DEF Fields, Shape
  <2> QED BY <2>1, <2>2
<1>8. IsMap(d.assetBalances, Accounts)
  <2>1. CASE f = "assetBalances"
    BY <2>1, <1>1 DEF FieldShape
  <2>2. CASE f # "assetBalances"
    BY <2>2, <1>1 DEF Fields, Shape
  <2> QED BY <2>1, <2>2
<1>9. IsMap(d.market, {"version", "tokens", "pairs"})
  <2>1. CASE f = "market"
    BY <2>1, <1>1 DEF FieldShape
  <2>2. CASE f # "market"
    BY <2>2, <1>1 DEF Fields, Shape
  <2> QED BY <2>1, <2>2
<1>10. IsMap(d.assetConfig, {"tokens", "format", "version"})
  <2>1. CASE f = "assetConfig"
    BY <2>1, <1>1 DEF FieldShape
  <2>2. CASE f # "assetConfig"
    BY <2>2, <1>1 DEF Fields, Shape
  <2> QED BY <2>1, <2>2
<1>11. d.logs \in Nat
  <2>1. CASE f = "logs"
    BY <2>1, <1>1 DEF FieldShape
  <2>2. CASE f # "logs"
    BY <2>2, <1>1 DEF Fields, Shape
  <2> QED BY <2>1, <2>2
<1>12. Shape(d)
  BY <1>1, <1>2, <1>3, <1>4, <1>5, <1>6, <1>7, <1>8, <1>9, <1>10, <1>11 DEF Shape
<1> QED BY <1>1, <1>12 DEF d

(* The same for a contract. *)
LEMMA PutChain ==
  ASSUME NEW c, ChainShape(c), NEW f \in Fields \ IdTables, NEW v, FieldShape(f, v), ConfigShape(f, v)
  PROVE  ChainShape(Put(c, f, v))
<1> DEFINE d == Put(c, f, v)
<1>1. Shape(d) /\ d[f] = v /\ \A g \in Fields : g # f => d[g] = c[g]
  BY PutShape DEF ChainShape
<1> HIDE DEF d
<1>2. /\ d.buyoffers = c.buyoffers /\ d.templateBuyoffers = c.templateBuyoffers
      /\ d.templates = c.templates /\ d.minted = c.minted
  BY <1>1 DEF Fields, IdTables
<1>3. \A x \in Assets : d.simple[x] # NoRow => "mutable_data" \in DOMAIN d.simple[x]
  <2>1. CASE f = "simple"
    BY <2>1, <1>1 DEF ConfigShape
  <2>2. CASE f # "simple"
    <3>1. d.simple = c.simple
      BY <2>2, <1>1 DEF Fields
    <3> QED BY <3>1 DEF ChainShape
  <2> QED BY <2>1, <2>2
<1>4. /\ d.market.version \in Nat /\ IsFiniteSet(d.market.tokens) /\ d.market.pairs \subseteq Pairs
      /\ d.market.version = 0 => d.market.tokens = {} /\ d.market.pairs = {}
  <2>1. CASE f = "market"
    BY <2>1, <1>1 DEF ConfigShape
  <2>2. CASE f # "market"
    <3>1. d.market = c.market
      BY <2>2, <1>1 DEF Fields
    <3> QED BY <3>1 DEF ChainShape
  <2> QED BY <2>1, <2>2
<1>5. d.tools \in Nat
  <2>1. CASE f = "tools"
    BY <2>1, <1>1 DEF ConfigShape
  <2>2. CASE f # "tools"
    BY <2>2, <1>1 DEF Fields, ChainShape
  <2> QED BY <2>1, <2>2
<1>6. d.simpleVersion \in Nat
  <2>1. CASE f = "simpleVersion"
    BY <2>1, <1>1 DEF ConfigShape
  <2>2. CASE f # "simpleVersion"
    BY <2>2, <1>1 DEF Fields, ChainShape
  <2> QED BY <2>1, <2>2
<1>7. d.assetConfig.version \in Nat /\ IsFiniteSet(d.assetConfig.tokens)
  <2>1. CASE f = "assetConfig"
    BY <2>1, <1>1 DEF ConfigShape
  <2>2. CASE f # "assetConfig"
    <3>1. d.assetConfig = c.assetConfig
      BY <2>2, <1>1 DEF Fields
    <3> QED BY <3>1 DEF ChainShape
  <2> QED BY <2>1, <2>2
<1>8. ChainShape(d)
  BY <1>1, <1>2, <1>3, <1>4, <1>5, <1>6, <1>7 DEF ChainShape
<1> QED BY <1>8 DEF d

(* An action that changes a field, seen from all rows. *)
LEMMA FieldRows ==
  ASSUME NEW k \in Followed \cup Configs, k \notin {"auctions", "ends"},
         NEW f \in Fields, f = FieldOf(k), NEW c, NEW d, \A g \in Fields : g # f => d[g] = c[g],
         NEW m, m.callback \in CallbacksOf(k), k \in Followed => TakesRows(m, k, c, d),
         \A l \in Followed : l # k /\ FieldOf(l) = FieldOf(k) =>
           \A x \in KeysOf(l) : Due(d, l, x) = Due(c, l, x)
  PROVE  RowsTrace(m, TRUE, c, d)
<1> SUFFICES ASSUME NEW l \in Followed, NEW x \in KeysOf(l)
             PROVE  IF Touches(m, l, x)
                    THEN /\ Fits(m, l, Due(c, l, x)) /\ Due(d, l, x) = Made(m, l, Due(c, l, x))
                         /\ l \in Created => Due(d, l, x) # NoRow
                    ELSE Due(d, l, x) = Due(c, l, x)
  BY DEF RowsTrace
<1>1. CASE l = k
  BY <1>1 DEF TakesRows, Takes, Touches
<1>2. CASE l # k
  <2>1. ~ Touches(m, l, x)
    BY <1>2, OtherKinds
  <2>2. CASE FieldOf(l) = FieldOf(k)
    BY <1>2, <2>1, <2>2
  <2>3. CASE FieldOf(l) # FieldOf(k)
    <3>1. FieldOf(l) # f /\ \A g \in Fields : g # f => d[g] = c[g]
      BY <2>3
    <3>2. Due(d, l, x) = Due(c, l, x)
      BY <3>1, OtherFields
    <3> QED BY <2>1, <3>2
  <2> QED BY <2>2, <2>3
<1> QED BY <1>1, <1>2

(* An action that changes a field, of this kind only or of rows. *)
LEMMA FieldSent ==
  ASSUME NEW c, ChainShape(c), NEW k \in (Followed \cup Configs) \ {"auctions", "ends"},
         NEW f, f = FieldOf(k), f \in Fields \ IdTables, f # "logs", NEW v, FieldShape(f, v), ConfigShape(f, v),
         NEW m, m.callback \in CallbacksOf(k), m.callback \notin {"transfer", "claim"},
         NEW d, d = Put(c, f, v),
         k \in Followed => TakesRows(m, k, c, d),
         f = "rows" => \A l \in Rows \ {k} : \A x \in Ids : Due(d, l, x) = Due(c, l, x)
  PROVE  Sends(m, c, d)
<1>1. ChainShape(d) /\ d[f] = v /\ \A g \in Fields : g # f => d[g] = c[g]
  BY PutShape, PutChain DEF ChainShape
<1>2. \A l \in Followed : l # k /\ FieldOf(l) = FieldOf(k) => f = "rows" /\ l \in Rows /\ KeysOf(l) = Ids
  <2>1. \A l \in Followed \cup Configs : FieldOf(l) = IF l \in Rows THEN "rows"
                                                      ELSE IF l = "ends" THEN "auctions" ELSE l
    BY DEF FieldOf, Rows
  <2>2. \A l \in Rows : KeysOf(l) = Ids
    BY DEF KeysOf, Rows, Configs
  <2>3. "rows" \notin Followed \cup Configs
    BY DEF Followed, DataKinds, Created, Written, Configs, Rows
  <2>4. k # "auctions" OBVIOUS
  <2> QED BY <2>1, <2>2, <2>3, <2>4
<1>3. RowsTrace(m, TRUE, c, d)
  <2>1. \A g \in Fields : g # f => d[g] = c[g]
    BY <1>1
  <2>2. \A l \in Followed : l # k /\ FieldOf(l) = FieldOf(k) =>
           \A x \in KeysOf(l) : Due(d, l, x) = Due(c, l, x)
    BY <1>2
  <2> QED BY <2>1, <2>2, FieldRows
<1>4. f \notin {"transfers", "simpleTransfers"}
  BY DEF FieldOf, Followed, DataKinds, Created, Written, Configs, Rows
<1>5. d.transfers = c.transfers /\ d.simpleTransfers = c.simpleTransfers /\ d.logs = c.logs
  BY <1>1, <1>4 DEF Fields
<1>6. m.callback # "stored"
  BY DEF CallbacksOf, Followed, DataKinds, Created, Written, Configs, Rows, SaleUpdates,
         AuctionUpdates, BuyofferUpdates, TemplateBuyofferUpdates, LinkUpdates, AssetUpdates, SimpleUpdates
<1>7. StoredOf({m}) = {} /\ SimpleStoredOf({m}) = {}
  BY <1>6, NothingStored
<1>8. c.logs \in Nat
  BY DEF ChainShape, Shape
<1>9. ListsTrace(m, TRUE, FALSE, c, d)
  BY <1>5, <1>7, <1>8, NoLists
<1> QED BY <1>1, <1>3, <1>5, <1>9 DEF Sends

(* An action that changes a field of the contracts. *)
LEMMA FieldStep ==
  ASSUME Inv, NEW k \in (Followed \cup Configs) \ {"auctions", "ends"},
         NEW f, f = FieldOf(k), f \in Fields \ IdTables, f # "logs", NEW v, FieldShape(f, v), ConfigShape(f, v),
         NEW nc, nc = Put(chain, f, v),
         NEW t, NEW L, NEW p, Send(nc, <<t>>, L), Regular(L, p), Heard(L, t.action),
         MainCallback(t.action) \in CallbacksOf(k), MainCallback(t.action) \notin {"transfer", "claim"},
         \A m : m.callback = MainCallback(t.action) /\ m.trace = t => TakesRows(m, k, chain, nc),
         f = "rows" => \A l \in Rows \ {k} : \A x \in Ids : Due(nc, l, x) = Due(chain, l, x)
  PROVE  Inv'
<1> DEFINE m == MainOf(t, traces + 1)
<1>1. m.callback = MainCallback(t.action) /\ m.trace = t
  BY DEF MainOf
<1> HIDE DEF m
<1>2. ChainShape(chain)
  BY DEF Inv, ShapesInv
<1>3. TakesRows(m, k, chain, nc)
  BY <1>1
<1>4. Sends(m, chain, nc)
  BY <1>1, <1>2, <1>3, FieldSent
<1>5. t.action # "log"
  BY NotLog
<1> QED BY <1>4, <1>5, StepHeard DEF m

(* The fields are put in place. *)
LEMMA FieldPut ==
  ASSUME NEW c, IsMap(c, Fields), NEW v
  PROVE  /\ [c EXCEPT !.rows = v] = Put(c, "rows", v)
         /\ [c EXCEPT !.oracle = v] = Put(c, "oracle", v)
         /\ [c EXCEPT !.market = v] = Put(c, "market", v)
         /\ [c EXCEPT !.tools = v] = Put(c, "tools", v)
         /\ [c EXCEPT !.simple = v] = Put(c, "simple", v)
         /\ [c EXCEPT !.simpleTransfers = v] = Put(c, "simpleTransfers", v)
         /\ [c EXCEPT !.transfers = v] = Put(c, "transfers", v)
         /\ [c EXCEPT !.logs = v] = Put(c, "logs", v)
         /\ [c EXCEPT !.authors = v] = Put(c, "authors", v)
         /\ [c EXCEPT !.simpleVersion = v] = Put(c, "simpleVersion", v)
         /\ [c EXCEPT !.assetConfig = v] = Put(c, "assetConfig", v)
         /\ [c EXCEPT !.assetBalances = v] = Put(c, "assetBalances", v)
<1>1. [c EXCEPT !.rows = v] = Put(c, "rows", v)
  BY DEF IsMap, Put, Fields
<1>2. [c EXCEPT !.oracle = v] = Put(c, "oracle", v)
  BY DEF IsMap, Put, Fields
<1>3. [c EXCEPT !.market = v] = Put(c, "market", v)
  BY DEF IsMap, Put, Fields
<1>4. [c EXCEPT !.tools = v] = Put(c, "tools", v)
  BY DEF IsMap, Put, Fields
<1>5. [c EXCEPT !.simple = v] = Put(c, "simple", v)
  BY DEF IsMap, Put, Fields
<1>6. [c EXCEPT !.simpleTransfers = v] = Put(c, "simpleTransfers", v)
  BY DEF IsMap, Put, Fields
<1>7. [c EXCEPT !.transfers = v] = Put(c, "transfers", v)
  BY DEF IsMap, Put, Fields
<1>8. [c EXCEPT !.logs = v] = Put(c, "logs", v)
  BY DEF IsMap, Put, Fields
<1>9. [c EXCEPT !.authors = v] = Put(c, "authors", v)
  BY DEF IsMap, Put, Fields
<1>10. [c EXCEPT !.simpleVersion = v] = Put(c, "simpleVersion", v)
  BY DEF IsMap, Put, Fields
<1>11. [c EXCEPT !.assetConfig = v] = Put(c, "assetConfig", v)
  BY DEF IsMap, Put, Fields
<1>12. [c EXCEPT !.assetBalances = v] = Put(c, "assetBalances", v)
  BY DEF IsMap, Put, Fields
<1> QED BY <1>1, <1>2, <1>3, <1>4, <1>5, <1>6, <1>7, <1>8, <1>9, <1>10, <1>11, <1>12

(* The same for the contracts. *)
LEMMA ChainField ==
  ASSUME Inv, NEW v
  PROVE  /\ [chain EXCEPT !.rows = v] = Put(chain, "rows", v)
         /\ [chain EXCEPT !.market = v] = Put(chain, "market", v)
         /\ [chain EXCEPT !.tools = v] = Put(chain, "tools", v)
         /\ [chain EXCEPT !.simple = v] = Put(chain, "simple", v)
         /\ [chain EXCEPT !.authors = v] = Put(chain, "authors", v)
         /\ [chain EXCEPT !.simpleVersion = v] = Put(chain, "simpleVersion", v)
         /\ [chain EXCEPT !.assetConfig = v] = Put(chain, "assetConfig", v)
         /\ [chain EXCEPT !.assetBalances = v] = Put(chain, "assetBalances", v)
BY FieldPut DEF Inv, ShapesInv, ChainShape, Shape

(* Rows of the market. *)
LEMMA RowActions ==
  ASSUME Inv, NEW i \in Ids, MarketRows(i)
  PROVE  Inv'
<1>0. PICK k \in Rows : \E w : SetRow(k, i, w)
  BY Zenon DEF MarketRows, Rows
<1>1. PICK w : SetRow(k, i, w)
  BY <1>0
<1> DEFINE g  == [value |-> w, present |-> w # "none"]
           t  == With(Trace(k, i), g)
           v  == [chain.rows EXCEPT ![k][i] = w]
           nc == Put(chain, "rows", v)
<1>2. Send(nc, <<t>>, MarketListeners)
  <2>1. [chain EXCEPT !.rows[k][i] = w] = [chain EXCEPT !.rows = v] OBVIOUS
  <2>2. [chain EXCEPT !.rows = v] = nc
    BY ChainField
  <2>3. Send([chain EXCEPT !.rows[k][i] = w], <<t>>, MarketListeners)
    BY <1>1 DEF SetRow, Emit
  <2> QED BY <2>1, <2>2, <2>3
<1>3. t.action = k /\ t.id = i /\ t.value = w
  BY WithOne
<1>4. IsMap(chain.rows, Rows) /\ \A l \in Rows : IsMap(chain.rows[l], Ids)
  BY DEF Inv, ShapesInv, ChainShape, Shape
<1>5. /\ IsMap(v, Rows) /\ \A l \in Rows : IsMap(v[l], Ids)
      /\ \A l \in Rows \ {k} : v[l] = chain.rows[l]
      /\ \A x \in Ids : v[k][x] = IF x = i THEN w ELSE chain.rows[k][x]
  BY <1>4 DEF IsMap
<1>6. nc.rows = v
  BY PutFields DEF Fields
<1> HIDE DEF t, nc, v
<1>7. \A l \in Rows : \A x \in Ids :
        /\ Due(chain, l, x) = IF l = "balances" THEN SomeOrNone(chain.rows[l][x]) ELSE chain.rows[l][x]
        /\ Due(nc, l, x) = IF l = "balances" THEN SomeOrNone(v[l][x]) ELSE v[l][x]
  BY <1>6 DEF Due, Cell, Rows, Configs
<1>8. \A l \in Rows \ {k} : \A x \in Ids : Due(nc, l, x) = Due(chain, l, x)
  BY <1>5, <1>7
<1>9. MainCallback(k) = k /\ k \in CallbacksOf(k) /\ k \notin {"transfer", "claim"} /\ FieldOf(k) = "rows"
      /\ k \in Followed \ {"auctions", "ends"} /\ KeysOf(k) = Ids
  BY DEF MainCallback, CallbacksOf, Rows, FieldOf, Followed, DataKinds, Written, KeysOf, Configs
<1>10. ASSUME NEW m, m.callback = k, m.trace = t PROVE TakesRows(m, k, chain, nc)
  <2>1. Named(k, m) = {i}
    BY <1>3, <1>10 DEF Named, Rows, Configs
  <2>2. \A r : Fits(m, k, r) /\ k \notin Created
               /\ Made(m, k, r) = IF k = "balances" THEN SomeOrNone(w) ELSE w
    BY <1>3, <1>10 DEF Fits, Made, WrittenMade, Rows, Configs, Created
  <2>3. ASSUME NEW x \in Ids
        PROVE  IF x = i THEN Takes(m, k, Due(chain, k, x), Due(nc, k, x)) ELSE Due(nc, k, x) = Due(chain, k, x)
    BY <1>5, <1>7, <2>2 DEF Takes
  <2> QED BY <1>9, <1>10, <2>1, <2>3 DEF TakesRows
<1>11. FieldShape("rows", v) /\ ConfigShape("rows", v)
  BY <1>5 DEF FieldShape, ConfigShape
<1>12. Heard(MarketListeners, k)
  BY MarketHears
<1>13. "rows" \in Fields \ IdTables /\ "rows" # "logs"
  BY DEF Fields, IdTables
<1>14. nc = Put(chain, "rows", v)
  BY DEF nc
<1> DEFINE f == "rows"
<1>15. /\ f = FieldOf(k) /\ f \in Fields \ IdTables /\ f # "logs" /\ FieldShape(f, v) /\ ConfigShape(f, v)
       /\ nc = Put(chain, f, v) /\ Heard(MarketListeners, t.action)
       /\ MainCallback(t.action) \in CallbacksOf(k) /\ MainCallback(t.action) \notin {"transfer", "claim"}
       /\ \A m : m.callback = MainCallback(t.action) /\ m.trace = t => TakesRows(m, k, chain, nc)
       /\ k \in (Followed \cup Configs) \ {"auctions", "ends"}
  BY <1>3, <1>9, <1>10, <1>11, <1>12, <1>13, <1>14
<1> HIDE DEF f
<1> QED BY <1>2, <1>8, <1>15, MarketRegular, FieldStep

----------------------------------------
(* Rows by account *)

(* The data of a trace. *)
LEMMA WithAction ==
  ASSUME NEW a, NEW g, "action" \notin DOMAIN g
  PROVE  LET t == With([action |-> a], g)
         IN  t.action = a /\ \A x \in DOMAIN g : t[x] = g[x]
<1> DEFINE f == [action |-> a]
<1>1. f.action = a /\ DOMAIN f = {"action"}
  OBVIOUS
<1> HIDE DEF f
<1>2. /\ \A x \in DOMAIN f \ DOMAIN g : With(f, g)[x] = f[x]
      /\ \A x \in DOMAIN g : With(f, g)[x] = g[x]
  BY DEF With
<1>3. With(f, g).action = a
  BY <1>1, <1>2
<1> QED BY <1>2, <1>3 DEF f

(* Lists of rows by account. *)
LEMMA AuthorActions ==
  ASSUME Inv, SimpleAuthor
  PROVE  Inv'
<1>0. PICK a \in Accounts : \E w :
        SimpleAction([chain EXCEPT !.authors[a] = w], "authors",
                     [author |-> a, present |-> w # "none", value |-> w])
  BY DEF SimpleAuthor
<1>1. PICK w :
        SimpleAction([chain EXCEPT !.authors[a] = w], "authors",
                     [author |-> a, present |-> w # "none", value |-> w])
  BY <1>0
<1> DEFINE g  == [author |-> a, present |-> w # "none", value |-> w]
           t  == With([action |-> "authors"], g)
           v  == [chain.authors EXCEPT ![a] = w]
           k  == "authors"
           nc == Put(chain, k, v)
<1>2. Send(nc, <<t>>, SimpleListeners)
  <2>1. [chain EXCEPT !.authors[a] = w] = [chain EXCEPT !.authors = v]
    OBVIOUS
  <2>2. [chain EXCEPT !.authors = v] = nc
    BY ChainField
  <2>3. Send([chain EXCEPT !.authors[a] = w], <<t>>, SimpleListeners)
    BY <1>1 DEF SimpleAction
  <2> QED BY <2>1, <2>2, <2>3
<1>3. t.action = "authors" /\ t.author = a /\ t.value = w /\ t.present = (w # "none")
  BY WithAction
<1>4. IsMap(chain.authors, Accounts)
  BY DEF Inv, ShapesInv, ChainShape, Shape
<1>5. IsMap(v, Accounts) /\ \A x \in Accounts : v[x] = IF x = a THEN w ELSE chain.authors[x]
  BY <1>4 DEF IsMap
<1>6. nc.authors = v
  BY PutFields DEF Fields
<1>7. nc = Put(chain, k, v) OBVIOUS
<1> HIDE DEF t, nc, v
<1>8. \A x : Due(chain, k, x) = chain.authors[x] /\ Due(nc, k, x) = v[x]
  BY <1>6 DEF Due, Cell, Rows, Configs
<1>9. /\ MainCallback(k) = k /\ k \in CallbacksOf(k) /\ k \notin {"transfer", "claim"} /\ k = FieldOf(k)
      /\ k \in (Followed \cup Configs) \ {"auctions", "ends"} /\ KeysOf(k) = Accounts
      /\ k \in Fields \ IdTables /\ k # "logs" /\ k # "rows"
  BY DEF MainCallback, CallbacksOf, Rows, FieldOf, Followed, DataKinds, Written, KeysOf, Configs,
         Fields, IdTables
<1>10. ASSUME NEW m, m.callback = k, m.trace = t PROVE TakesRows(m, k, chain, nc)
  <2>1. Named(k, m) = {a}
    BY <1>3, <1>10 DEF Named, Configs
  <2>2. \A r : Fits(m, k, r) /\ k \notin Created /\ Made(m, k, r) = w
    BY <1>3, <1>10 DEF Fits, Made, WrittenMade, Rows, Configs, Created
  <2>3. ASSUME NEW x \in Accounts
        PROVE  IF x = a THEN Takes(m, k, Due(chain, k, x), Due(nc, k, x)) ELSE Due(nc, k, x) = Due(chain, k, x)
    BY <1>5, <1>8, <2>2 DEF Takes
  <2> QED BY <1>9, <1>10, <2>1, <2>3 DEF TakesRows
<1>11. FieldShape(k, v) /\ ConfigShape(k, v)
  BY <1>5 DEF FieldShape, ConfigShape
<1>12. Heard(SimpleListeners, k)
  BY SimpleHears
<1>13. t.action = k
  BY <1>3
<1> HIDE DEF k
<1> QED BY <1>2, <1>7, <1>9, <1>10, <1>11, <1>12, <1>13, SimpleRegular, FieldStep

(* Balances of atomicassets. *)
LEMMA BalanceActions ==
  ASSUME Inv, NEW a \in Accounts, AssetBalance(a)
  PROVE  Inv'
<1>1. PICK w :
        AssetsAction([chain EXCEPT !.assetBalances[a] = w],
                     <<[action |-> "aabalances", owner |-> a, value |-> w, present |-> w # "none"]>>)
  BY DEF AssetBalance
<1> DEFINE t  == [action |-> "aabalances", owner |-> a, value |-> w, present |-> w # "none"]
           v  == [chain.assetBalances EXCEPT ![a] = w]
           k  == "assetBalances"
           nc == Put(chain, k, v)
<1>2. Send(nc, <<t>>, AssetListeners)
  <2>1. [chain EXCEPT !.assetBalances[a] = w] = [chain EXCEPT !.assetBalances = v]
    OBVIOUS
  <2>2. [chain EXCEPT !.assetBalances = v] = nc
    BY ChainField
  <2>3. Send([chain EXCEPT !.assetBalances[a] = w], <<t>>, AssetListeners)
    BY <1>1 DEF AssetsAction
  <2> QED BY <2>1, <2>2, <2>3
<1>3. t.action = "aabalances" /\ t.owner = a /\ t.value = w
  OBVIOUS
<1>4. IsMap(chain.assetBalances, Accounts)
  BY DEF Inv, ShapesInv, ChainShape, Shape
<1>5. IsMap(v, Accounts) /\ \A x \in Accounts : v[x] = IF x = a THEN w ELSE chain.assetBalances[x]
  BY <1>4 DEF IsMap
<1>6. nc.assetBalances = v
  BY PutFields DEF Fields
<1>7. nc = Put(chain, k, v) OBVIOUS
<1> HIDE DEF t, nc, v
<1>8. \A x : Due(chain, k, x) = SomeOrNone(chain.assetBalances[x]) /\ Due(nc, k, x) = SomeOrNone(v[x])
  BY <1>6 DEF Due, Cell, Rows, Configs
<1>9. /\ MainCallback("aabalances") = "aabalances" /\ "aabalances" \in CallbacksOf(k) /\ k = FieldOf(k)
      /\ k \in (Followed \cup Configs) \ {"auctions", "ends"} /\ KeysOf(k) = Accounts
      /\ k \in Fields \ IdTables /\ k # "logs" /\ k # "rows"
  BY DEF MainCallback, CallbacksOf, Rows, FieldOf, Followed, DataKinds, Written, KeysOf, Configs,
         Fields, IdTables
<1>10. ASSUME NEW m, m.callback = "aabalances", m.trace = t PROVE TakesRows(m, k, chain, nc)
  <2>1. Named(k, m) = {a}
    BY <1>3, <1>10 DEF Named, Configs
  <2>2. \A r : Fits(m, k, r) /\ k \notin Created /\ Made(m, k, r) = SomeOrNone(w)
    BY <1>3, <1>10 DEF Fits, Made, WrittenMade, Rows, Configs, Created
  <2>3. ASSUME NEW x \in Accounts
        PROVE  IF x = a THEN Takes(m, k, Due(chain, k, x), Due(nc, k, x)) ELSE Due(nc, k, x) = Due(chain, k, x)
    BY <1>5, <1>8, <2>2 DEF Takes
  <2> QED BY <1>9, <1>10, <2>1, <2>3 DEF TakesRows
<1>11. FieldShape(k, v) /\ ConfigShape(k, v)
  BY <1>5 DEF FieldShape, ConfigShape
<1>12. Heard(AssetListeners, "aabalances")
  BY AssetsHear
<1>13. t.action = "aabalances" /\ MainCallback("aabalances") \notin {"transfer", "claim"}
  BY <1>3, <1>9
<1> HIDE DEF k
<1> QED BY <1>2, <1>7, <1>9, <1>10, <1>11, <1>12, <1>13, AssetsRegular, FieldStep

----------------------------------------
(* Configuration *)

(* Configuration *)
LEMMA ConfigStep ==
  ASSUME Inv, NEW k \in Configs, NEW v, FieldShape(k, v), ConfigShape(k, v), NEW nc, nc = Put(chain, k, v),
         NEW t, NEW L, NEW p, Send(nc, <<t>>, L), Regular(L, p), Heard(L, t.action),
         MainCallback(t.action) \in CallbacksOf(k),
         \A m : m.callback = MainCallback(t.action) /\ m.trace = t
                  => Takes(m, k, Due(chain, k, "config"), Due(nc, k, "config"))
  PROVE  Inv'
<1>1. /\ KeysOf(k) = {"config"} /\ k = FieldOf(k) /\ k # "logs" /\ k # "rows"
      /\ k \in (Followed \cup Configs) \ {"auctions", "ends"} /\ k \in Fields \ IdTables
  BY DEF KeysOf, FieldOf, Configs, Rows, Fields, IdTables
<1>2. MainCallback(t.action) \notin {"transfer", "claim"}
  BY DEF CallbacksOf, Configs
<1>3. ASSUME NEW m, m.callback = MainCallback(t.action), m.trace = t
      PROVE  TakesRows(m, k, chain, nc)
  <2>1. Named(k, m) = {"config"}
    BY DEF Named, Configs
  <2> QED BY <1>1, <1>3, <2>1 DEF TakesRows
<1> QED BY <1>1, <1>2, <1>3, FieldStep

(* The version of the tools contract. *)
LEMMA VersionActions ==
  ASSUME Inv, NewVersion
  PROVE  Inv'
<1> DEFINE v  == chain.tools + 1
           t  == [action |-> "toolsconfig", version |-> v]
           k  == "tools"
           nc == Put(chain, k, v)
<1>1. Send(nc, <<t>>, ToolsListeners)
  <2>1. [chain EXCEPT !.tools = @ + 1] = [chain EXCEPT !.tools = v] OBVIOUS
  <2>2. [chain EXCEPT !.tools = v] = nc
    BY ChainField
  <2>3. Send([chain EXCEPT !.tools = @ + 1], <<t>>, ToolsListeners)
    BY DEF NewVersion
  <2> QED BY <2>1, <2>2, <2>3
<1>2. t.action = "toolsconfig" /\ t.version = v /\ nc = Put(chain, k, v)
  OBVIOUS
<1>3. nc.tools = v
  BY PutFields DEF Fields
<1>4. v \in Nat /\ v # 0
  BY DEF Inv, ShapesInv, ChainShape
<1> HIDE DEF t, nc, v
<1>5. Due(nc, k, "config") = v
  BY <1>3, <1>4 DEF Due, Rows, SinceOne
<1>6. ASSUME NEW m, m.callback = "toolsconfig", m.trace = t
      PROVE  Takes(m, k, Due(chain, k, "config"), Due(nc, k, "config"))
  <2>1. \A r : Fits(m, k, r) /\ k \notin Created /\ Made(m, k, r) = v
    BY <1>2, <1>6 DEF Fits, Made, ConfigMade, ConfigFits, Rows, Configs, Created
  <2> QED BY <1>5, <2>1 DEF Takes
<1>7. FieldShape(k, v) /\ ConfigShape(k, v)
  BY <1>4 DEF FieldShape, ConfigShape
<1>8. Heard(ToolsListeners, "toolsconfig")
  BY ToolsHear
<1>9. k \in Configs /\ MainCallback("toolsconfig") = "toolsconfig" /\ "toolsconfig" \in CallbacksOf(k)
  BY DEF MainCallback, CallbacksOf, Configs
<1> HIDE DEF k
<1> QED BY <1>1, <1>2, <1>6, <1>7, <1>8, <1>9, ToolsRegular, ConfigStep

(* The version of simpleassets. *)
LEMMA SimpleVersionActions ==
  ASSUME Inv, SimpleVersion
  PROVE  Inv'
<1> DEFINE v  == chain.simpleVersion + 1
           t  == With([action |-> "simpleconfig"], [version |-> v])
           k  == "simpleVersion"
           nc == Put(chain, k, v)
<1>1. Send(nc, <<t>>, SimpleListeners)
  <2>1. [chain EXCEPT !.simpleVersion = @ + 1] = [chain EXCEPT !.simpleVersion = v]
    OBVIOUS
  <2>2. [chain EXCEPT !.simpleVersion = v] = nc
    BY ChainField
  <2>3. Send([chain EXCEPT !.simpleVersion = @ + 1], <<t>>, SimpleListeners)
    BY DEF SimpleVersion, SimpleAction
  <2> QED BY <2>1, <2>2, <2>3
<1>2. t.action = "simpleconfig" /\ t.version = v
  <2> DEFINE g == [version |-> v]
  <2>1. "action" \notin DOMAIN g /\ "version" \in DOMAIN g /\ g["version"] = v
    OBVIOUS
  <2> QED BY <2>1, WithAction
<1>10. nc = Put(chain, k, v) OBVIOUS
<1>3. nc.simpleVersion = v
  BY PutFields DEF Fields
<1>4. v \in Nat /\ v # 0
  BY DEF Inv, ShapesInv, ChainShape
<1> HIDE DEF t, nc, v
<1>5. Due(nc, k, "config") = v
  BY <1>3, <1>4 DEF Due, Rows, SinceOne
<1>6. ASSUME NEW m, m.callback = "simpleconfig", m.trace = t
      PROVE  Takes(m, k, Due(chain, k, "config"), Due(nc, k, "config"))
  <2>1. \A r : Fits(m, k, r) /\ k \notin Created /\ Made(m, k, r) = v
    BY <1>2, <1>6 DEF Fits, Made, ConfigMade, ConfigFits, Rows, Configs, Created
  <2> QED BY <1>5, <2>1 DEF Takes
<1>7. FieldShape(k, v) /\ ConfigShape(k, v)
  BY <1>4 DEF FieldShape, ConfigShape
<1>8. Heard(SimpleListeners, "simpleconfig")
  BY SimpleHears
<1>9. k \in Configs /\ MainCallback("simpleconfig") = "simpleconfig" /\ "simpleconfig" \in CallbacksOf(k)
  BY DEF MainCallback, CallbacksOf, Configs
<1> HIDE DEF k
<1> QED BY <1>1, <1>2, <1>6, <1>7, <1>8, <1>9, <1>10, SimpleRegular, ConfigStep

(* A configuration of the market that only grows. *)
LEMMA Configures ==
  ASSUME Inv, NEW v, Configure(v), MarketGrows(chain.market, v)
  PROVE  Inv'
<1> DEFINE t  == [action |-> "config", value |-> v]
           k  == "market"
           nc == Put(chain, k, v)
<1>1. Send(nc, <<t>>, MarketListeners)
  <2>1. [chain EXCEPT !.market = v] = nc
    BY ChainField
  <2> QED BY <2>1 DEF Configure, Emit
<1>2. t.action = "config" /\ t.value = v /\ nc = Put(chain, k, v)
  OBVIOUS
<1>3. nc.market = v
  BY PutFields DEF Fields
<1> HIDE DEF t, nc
<1>4. /\ chain.market.version = 0 => chain.market.tokens = {} /\ chain.market.pairs = {}
  BY DEF Inv, ShapesInv, ChainShape
<1>5. Due(nc, k, "config") = v
  BY <1>3 DEF Due, Rows, MarketGrows
<1>6. Due(chain, k, "config").tokens = chain.market.tokens /\ Due(chain, k, "config").pairs = chain.market.pairs
  BY <1>4 DEF Due, Rows
<1>7. ASSUME NEW m, m.callback = "config", m.trace = t
      PROVE  Takes(m, k, Due(chain, k, "config"), Due(nc, k, "config"))
  <2> DEFINE r == Due(chain, k, "config")
  <2>1. Fits(m, k, r) <=> ConfigFits(m, k, r)
    BY DEF Fits, Configs
  <2>2. Made(m, k, r) = v /\ k \notin Created
    BY <1>2, <1>7 DEF Made, ConfigMade, Configs, Created
  <2>3. IsFiniteSet(v.pairs)
    BY FS_Subset, HandlersAssumption DEF HandlersAssumption, MarketGrows
  <2>4. ConfigFits(m, k, r)
    BY <1>2, <1>6, <1>7, <2>3 DEF ConfigFits, Grows, MarketGrows
  <2> QED BY <1>5, <2>1, <2>2, <2>4 DEF Takes
<1>8. FieldShape(k, v) /\ ConfigShape(k, v)
  <2>1. IsMap(v, {"version", "tokens", "pairs"})
    BY DEF IsMap, MarketGrows
  <2> QED BY <2>1 DEF FieldShape, ConfigShape, MarketGrows
<1>9. Heard(MarketListeners, "config")
  BY MarketHears
<1>10. k \in Configs /\ MainCallback("config") = "config" /\ "config" \in CallbacksOf(k)
  BY DEF MainCallback, CallbacksOf, Configs
<1> HIDE DEF k
<1> QED BY <1>1, <1>2, <1>7, <1>8, <1>9, <1>10, MarketRegular, ConfigStep

(* Every configuration of the market. *)
LEMMA ConfigurationActions ==
  ASSUME Inv, Configuration
  PROVE  Inv'
<1> DEFINE old == chain.market
<1>1. /\ old = [version |-> old.version, tokens |-> old.tokens, pairs |-> old.pairs]
      /\ old.version \in Nat /\ IsFiniteSet(old.tokens) /\ old.pairs \subseteq Pairs
      /\ old.version = 0 => old.tokens = {} /\ old.pairs = {}
  <2>1. IsMap(old, {"version", "tokens", "pairs"})
    BY DEF Inv, ShapesInv, ChainShape, Shape
  <2>2. /\ old.version \in Nat /\ IsFiniteSet(old.tokens) /\ old.pairs \subseteq Pairs
        /\ old.version = 0 => old.tokens = {} /\ old.pairs = {}
    BY DEF Inv, ShapesInv, ChainShape
  <2> QED BY <2>1, <2>2 DEF IsMap
<1>2. ASSUME NEW pairs, pairs \subseteq Pairs, old.version = 0,
             Configure([version |-> 1, tokens |-> {}, pairs |-> pairs])
      PROVE  Inv'
  <2> DEFINE new == [version |-> 1, tokens |-> {}, pairs |-> pairs]
  <2>1. MarketGrows(old, new)
    BY <1>1, <1>2, FS_EmptySet DEF MarketGrows
  <2> QED BY <1>2, <2>1, Configures
<1>3. ASSUME old.version > 0, Configure([old EXCEPT !.version = @ + 1]) PROVE Inv'
  <2> DEFINE new == [old EXCEPT !.version = @ + 1]
  <2>1. new = [version |-> old.version + 1, tokens |-> old.tokens, pairs |-> old.pairs]
    BY <1>1
  <2> HIDE DEF old, new
  <2>2. MarketGrows(old, new)
    BY <1>1, <2>1 DEF MarketGrows
  <2> QED BY <1>3, <2>2, Configures DEF old, new
<1>4. ASSUME old.version > 0, Configure([old EXCEPT !.tokens = {"token"}]), old.tokens = {}
      PROVE  Inv'
  <2> DEFINE new == [old EXCEPT !.tokens = {"token"}]
  <2>1. new = [version |-> old.version, tokens |-> {"token"}, pairs |-> old.pairs]
    BY <1>1
  <2>3. IsFiniteSet({"token"})
    BY FS_Singleton
  <2> HIDE DEF old, new
  <2>2. MarketGrows(old, new)
    BY <1>1, <1>4, <2>1, <2>3 DEF MarketGrows
  <2> QED BY <1>4, <2>2, Configures DEF old, new
<1>5. ASSUME old.version > 0, NEW q \in Pairs, Configure([old EXCEPT !.pairs = @ \cup {q}])
      PROVE  Inv'
  <2> DEFINE new == [old EXCEPT !.pairs = @ \cup {q}]
  <2>1. new = [version |-> old.version, tokens |-> old.tokens, pairs |-> old.pairs \cup {q}]
    BY <1>1
  <2> HIDE DEF old, new
  <2>2. MarketGrows(old, new)
    BY <1>1, <1>5, <2>1 DEF MarketGrows
  <2> QED BY <1>5, <2>2, Configures DEF old, new
<1> QED BY <1>2, <1>3, <1>4, <1>5 DEF Configuration

(* Rows of the assets *)
LEMMA RowData ==
  ASSUME NEW a, NEW g, "action" \notin DOMAIN g, "present" \notin DOMAIN g
  PROVE  /\ Row(a, g).action = a /\ Row(a, g).present
         /\ \A x \in DOMAIN g : Row(a, g)[x] = g[x]
<1> DEFINE f == [action |-> a, present |-> TRUE]
<1>1. f.action = a /\ DOMAIN f = {"action", "present"} /\ f["present"]
  OBVIOUS
<1> HIDE DEF f
<1>2. /\ \A x \in DOMAIN f \ DOMAIN g : With(f, g)[x] = f[x]
      /\ \A x \in DOMAIN g : With(f, g)[x] = g[x]
  BY DEF With
<1>3. With(f, g).action = a /\ With(f, g)["present"] = f["present"]
  BY <1>1, <1>2
<1>4. With(f, g).present
  BY <1>1, <1>3
<1> QED BY <1>2, <1>3, <1>4 DEF f, Row

(* A configuration of atomicassets that only grows. *)
LEMMA AssetConfigured ==
  ASSUME Inv, NEW a \in {"aaconfig", "aatokens"}, NEW v, AssetsConfigured(a, v),
         AssetsGrow(a, chain.assetConfig, v)
  PROVE  Inv'
<1> DEFINE t  == Row(a, [value |-> v])
           k  == "assetConfig"
           nc == Put(chain, k, v)
<1>1. Send(nc, <<t>>, AssetListeners)
  <2>1. [chain EXCEPT !.assetConfig = v] = nc
    BY ChainField
  <2> QED BY <2>1 DEF AssetsConfigured, AssetsAction
<1>2. t.action = a /\ t.value = v
  <2> DEFINE g == [value |-> v]
  <2>1. DOMAIN g = {"value"} /\ g["value"] = v
    OBVIOUS
  <2> HIDE DEF g
  <2>2. Row(a, g).action = a /\ Row(a, g)["value"] = v
    BY <2>1, RowData
  <2> QED BY <2>2 DEF g
<1>3. nc.assetConfig = v /\ nc = Put(chain, k, v)
  BY PutFields DEF Fields
<1> HIDE DEF t, nc
<1>4. Due(nc, k, "config") = [tokens |-> v.tokens, format |-> v.format, version |-> SinceOne(v.version)]
  BY <1>3 DEF Due, Rows
<1>5. Due(chain, k, "config") = [tokens |-> chain.assetConfig.tokens, format |-> chain.assetConfig.format,
                                 version |-> SinceOne(chain.assetConfig.version)]
  BY DEF Due, Rows
<1>7. ASSUME NEW m, m.callback = a, m.trace = t
      PROVE  Takes(m, k, Due(chain, k, "config"), Due(nc, k, "config"))
  <2> DEFINE r == Due(chain, k, "config")
  <2>1. Fits(m, k, r) <=> ConfigFits(m, k, r)
    BY DEF Fits, Configs
  <2>2. Made(m, k, r) = ConfigMade(m, k, r) /\ k \notin Created
    BY DEF Made, Configs, Created
  <2>3. ConfigFits(m, k, r)
    BY <1>2, <1>5, <1>7 DEF ConfigFits, Grows, AssetsGrow
  <2>4. CASE a = "aaconfig"
    <3>1. ConfigMade(m, k, r) = [tokens |-> v.tokens, format |-> v.format, version |-> r.version]
      BY <1>2, <1>7, <2>4 DEF ConfigMade
    <3>2. r.version = SinceOne(v.version)
      BY <1>5, <2>4 DEF AssetsGrow
    <3> QED BY <1>4, <2>1, <2>2, <2>3, <3>1, <3>2 DEF Takes
  <2>5. CASE a = "aatokens"
    <3>1. ConfigMade(m, k, r) = [tokens |-> r.tokens, format |-> r.format, version |-> v.version]
      BY <1>2, <1>7, <2>5 DEF ConfigMade
    <3>2. r.tokens = v.tokens /\ r.format = v.format /\ v.version = SinceOne(v.version)
      BY <1>5, <2>5 DEF AssetsGrow, SinceOne
    <3> QED BY <1>4, <2>1, <2>2, <2>3, <3>1, <3>2 DEF Takes
  <2> QED BY <2>4, <2>5
<1>8. FieldShape(k, v) /\ ConfigShape(k, v)
  <2>1. IsMap(v, {"tokens", "format", "version"})
    BY DEF IsMap, AssetsGrow
  <2> QED BY <2>1 DEF FieldShape, ConfigShape, AssetsGrow
<1>9. Heard(AssetListeners, a)
  BY AssetsHear
<1>10. k \in Configs /\ MainCallback(a) = a /\ a \in CallbacksOf(k)
  BY DEF MainCallback, CallbacksOf, Configs
<1> HIDE DEF k
<1> QED BY <1>1, <1>2, <1>3, <1>7, <1>8, <1>9, <1>10, AssetsRegular, ConfigStep

(* Every configuration of atomicassets. *)
LEMMA AssetConfigurationActions ==
  ASSUME Inv, AssetConfiguration
  PROVE  Inv'
<1> DEFINE old == chain.assetConfig
<1>1. /\ old = [tokens |-> old.tokens, format |-> old.format, version |-> old.version]
      /\ old.version \in Nat /\ IsFiniteSet(old.tokens)
  <2>1. IsMap(old, {"tokens", "format", "version"})
    BY DEF Inv, ShapesInv, ChainShape, Shape
  <2>2. old.version \in Nat /\ IsFiniteSet(old.tokens)
    BY DEF Inv, ShapesInv, ChainShape
  <2> QED BY <2>1, <2>2 DEF IsMap
<1>2. ASSUME AssetsConfigured("aatokens", [old EXCEPT !.version = @ + 1]) PROVE Inv'
  <2> DEFINE new == [old EXCEPT !.version = @ + 1]
  <2>1. new = [tokens |-> old.tokens, format |-> old.format, version |-> old.version + 1]
    BY <1>1
  <2> HIDE DEF old, new
  <2>2. AssetsGrow("aatokens", old, new)
    BY <1>1, <2>1 DEF AssetsGrow
  <2> QED BY <1>2, <2>2, AssetConfigured DEF old, new
<1>3. ASSUME old.tokens = {}, AssetsConfigured("aaconfig", [old EXCEPT !.tokens = {"token"}])
      PROVE  Inv'
  <2> DEFINE new == [old EXCEPT !.tokens = {"token"}]
  <2>1. new = [tokens |-> {"token"}, format |-> old.format, version |-> old.version]
    BY <1>1
  <2>3. IsFiniteSet({"token"})
    BY FS_Singleton
  <2> HIDE DEF old, new
  <2>2. AssetsGrow("aaconfig", old, new)
    BY <1>1, <1>3, <2>1, <2>3 DEF AssetsGrow
  <2> QED BY <1>3, <2>2, AssetConfigured DEF old, new
<1>4. ASSUME AssetsConfigured("aaconfig", [old EXCEPT !.format = @ + 1]) PROVE Inv'
  <2> DEFINE new == [old EXCEPT !.format = @ + 1]
  <2>1. new = [tokens |-> old.tokens, format |-> old.format + 1, version |-> old.version]
    BY <1>1
  <2> HIDE DEF old, new
  <2>2. AssetsGrow("aaconfig", old, new)
    BY <1>1, <2>1 DEF AssetsGrow
  <2> QED BY <1>4, <2>2, AssetConfigured DEF old, new
<1> QED BY <1>2, <1>3, <1>4 DEF AssetConfiguration, AssetsConfigured

----------------------------------------
(* Collections, schemas and templates *)

(* Definitions: an action that is only logged, and the row it changes. *)
LEMMA StepDefined ==
  ASSUME Inv, NEW nc, NEW t, NEW s, Send(nc, <<t, s>>, AssetListeners),
         t.action \in DefinitionLogs, Heard(AssetListeners, s.action), s.action # "log",
         Sends(MainOf(s, traces + 1 + 1), chain, nc)
  PROVE  Inv'
<1> DEFINE m == MainOf(t, traces + 1)
           o == MainOf(s, traces + 1 + 1)
           h == Heard(AssetListeners, t.action)
           g == Heard(AssetListeners, s.action)
           L == AssetListeners
<1>1. h = FALSE /\ g = TRUE
  BY AssetsHear DEF Heard
<1>2. ChainShape(chain) /\ chain.logs \in Nat
  BY DEF Inv, ShapesInv, ChainShape, Shape
<1>3. t.action # "log"
  BY DEF DefinitionLogs, CollectionLogs
<1>4. ChainShape(nc) /\ nc.logs = chain.logs /\ RowsTrace(o, TRUE, chain, nc) /\ ListsTrace(o, TRUE, FALSE, chain, nc)
  BY DEF Sends
<1>5. Send(nc, <<t, s>>, L) /\ Regular(L, AA_LOGS)
  BY AssetsRegular
<1>8. h = Heard(L, t.action) /\ g = Heard(L, s.action) /\ m = MainOf(t, traces + 1) /\ o = MainOf(s, traces + 1 + 1)
  OBVIOUS
<1> HIDE DEF m, o, h, g, L
<1>6. RowsTrace(m, h, chain, chain) /\ ListsTrace(m, h, FALSE, chain, chain)
  BY <1>1, <1>2 DEF RowsTrace, ListsTrace
<1>7. RowsTrace(o, g, chain, nc) /\ ListsTrace(o, g, FALSE, chain, nc)
  BY <1>1, <1>4
<1> QED BY <1>2, <1>3, <1>4, <1>5, <1>6, <1>7, <1>8, StepTwo

(* A collection or schema is defined. *)
LEMMA PlainDefined ==
  ASSUME Inv, NEW k \in {"collections", "schemas"}, NEW i \in Ids, NEW r, NEW nc, nc = PutRow(chain, k, i, r),
         NEW a \in DefinitionLogs, NEW g, "action" \notin DOMAIN g, "present" \notin DOMAIN g, "id" \in DOMAIN g, g["id"] = i,
         Define(a, nc, k, g),
         \A m : (\A x \in DOMAIN g : m.trace[x] = g[x]) => r = WrittenMade(m, k, chain[k][i])
  PROVE  Inv'
<1> DEFINE s == Row(k, g)
           t == [action |-> a]
           o == MainOf(s, traces + 1 + 1)
<1>1. Send(nc, <<t, s>>, AssetListeners)
  BY DEF Define, AssetsAction
<1>2. s.action = k /\ \A x \in DOMAIN g : s[x] = g[x]
  BY RowData
<1>3. t.action = a OBVIOUS
<1> HIDE DEF s, t
<1>4. MainCallback(k) = k /\ k \in CallbacksOf(k) /\ k \in PlainKinds /\ k # "log" /\ k \notin Created
  BY DEF MainCallback, CallbacksOf, PlainKinds, Configs, Created
<1>5. o.callback = k /\ o.trace = s
  BY <1>2, <1>4 DEF MainOf
<1> HIDE DEF o
<1>6. r = WrittenMade(o, k, chain[k][i])
  BY <1>2, <1>5
<1>7. Fits(o, k, chain[k][i]) /\ Made(o, k, chain[k][i]) = WrittenMade(o, k, chain[k][i])
  BY DEF Fits, Made, Configs
<1>8. Named(k, o) = {i}
  BY <1>2, <1>5 DEF Named, Configs
<1>9. RowShape(k, r) /\ ChainShape(chain)
  BY DEF RowShape, Inv, ShapesInv
<1>10. Sends(o, chain, nc)
  BY <1>4, <1>5, <1>6, <1>7, <1>8, <1>9, PlainSent
<1>11. Heard(AssetListeners, k)
  BY AssetsHear
<1> QED BY <1>1, <1>2, <1>3, <1>4, <1>10, <1>11, StepDefined DEF o

(* Every action on a collection. *)
LEMMA CollectionActions ==
  ASSUME Inv, NEW i \in Ids, Collection(i)
  PROVE  Inv'
<1>0. PICK a \in {"createcol", "setmarketfee", "setcoldata"} : \E r :
        Define(a, [chain EXCEPT !.collections[i] = r], "collections", [id |-> i, row |-> r])
  BY DEF Collection
<1>1. PICK r : Define(a, [chain EXCEPT !.collections[i] = r], "collections", [id |-> i, row |-> r])
  BY <1>0
<1> DEFINE g == [id |-> i, row |-> r]
           k == "collections"
<1>2. [chain EXCEPT !.collections[i] = r] = PutRow(chain, k, i, r)
  BY ChainRow
<1>3. Define(a, PutRow(chain, k, i, r), k, g)
  BY <1>1, <1>2
<1>4. "action" \notin DOMAIN g /\ "present" \notin DOMAIN g /\ "id" \in DOMAIN g /\ "row" \in DOMAIN g
      /\ g["id"] = i /\ g["row"] = r
  OBVIOUS
<1> HIDE DEF g
<1>5. \A m : (\A x \in DOMAIN g : m.trace[x] = g[x]) => r = WrittenMade(m, k, chain[k][i])
  BY <1>4 DEF WrittenMade
<1>6. a \in DefinitionLogs
  BY DEF DefinitionLogs, CollectionLogs
<1> QED BY <1>3, <1>4, <1>5, <1>6, PlainDefined

(* Every action on a schema. *)
LEMMA SchemaActions ==
  ASSUME Inv, NEW i \in Ids, NEW a \in {"createschema", "extendschema"}, NEW n,
         Define(a, [chain EXCEPT !.schemas[i] = n], "schemas", [id |-> i, format |-> n])
  PROVE  Inv'
<1> DEFINE g == [id |-> i, format |-> n]
           k == "schemas"
<1>2. [chain EXCEPT !.schemas[i] = n] = PutRow(chain, k, i, n)
  BY ChainRow
<1>3. Define(a, PutRow(chain, k, i, n), k, g)
  BY <1>2
<1>4. "action" \notin DOMAIN g /\ "present" \notin DOMAIN g /\ "id" \in DOMAIN g /\ "format" \in DOMAIN g
      /\ g["id"] = i /\ g["format"] = n
  OBVIOUS
<1> HIDE DEF g
<1>5. \A m : (\A x \in DOMAIN g : m.trace[x] = g[x]) => n = WrittenMade(m, k, chain[k][i])
  BY <1>4 DEF WrittenMade
<1>6. a \in DefinitionLogs
  BY DEF DefinitionLogs
<1> QED BY <1>3, <1>4, <1>5, <1>6, PlainDefined

(* A template that is deleted keeps its row in the tables. *)
LEMMA TemplateSent ==
  ASSUME NEW c, ChainShape(c), NEW i \in Ids, NEW r, RowShape("templates", r),
         NEW m, m.callback = "templates", m.trace.id = i,
         Visible(r) = WrittenMade(m, "templates", Visible(c.templates[i]))
  PROVE  Sends(m, c, PutRow(c, "templates", i, r))
<1> DEFINE k == "templates"
           d == PutRow(c, k, i, r)
<1>1. k \in IdTables /\ k \in Fields /\ k \notin {"transfers", "simpleTransfers", "logs"} /\ k = FieldOf(k)
      /\ k \in (Followed \cup Configs) /\ k \notin {"auctions", "ends"} /\ KeysOf(k) = Ids
      /\ k \in CallbacksOf(k) /\ k \notin Created
  BY DEF IdTables, Fields, FieldOf, Rows, Followed, DataKinds, Written, KeysOf, Configs, CallbacksOf,
         Created
<1>2. /\ ChainShape(d) /\ d[k] = [x \in Ids |-> IF x = i THEN r ELSE c[k][x]]
      /\ \A g \in Fields : g # k => d[g] = c[g]
  BY SMTT(30), <1>1, PutRowShape, PutRowChain DEF ChainShape, RowShape
<1> HIDE DEF d
<1>3. \A x \in Ids : /\ Due(c, k, x) = Visible(c.templates[x])
                     /\ Due(d, k, x) = IF x = i THEN Visible(r) ELSE Visible(c.templates[x])
  <2>1. \A x \in Ids : Due(c, k, x) = Visible(c.templates[x]) /\ Due(d, k, x) = Visible(d.templates[x])
    BY DEF Due, Visible, Rows
  <2> QED BY <1>2, <2>1
<1>4. TakesRows(m, k, c, d)
  <2>1. Named(k, m) = {i}
    BY DEF Named, Configs
  <2>2. \A u : Fits(m, k, u) /\ Made(m, k, u) = WrittenMade(m, k, u)
    BY DEF Fits, Made, Configs
  <2> QED BY <1>1, <1>3, <2>1, <2>2 DEF TakesRows, Takes
<1>5. \A l \in Followed : l # k => FieldOf(l) # k
  BY DEF FieldOf, Rows
<1>6. RowsTrace(m, TRUE, c, d)
  <2>1. \A l \in Followed : l # k /\ FieldOf(l) = FieldOf(k) =>
          \A x \in KeysOf(l) : Due(d, l, x) = Due(c, l, x)
    BY <1>1, <1>5
  <2>2. m.callback \in CallbacksOf(k)
    BY <1>1
  <2> HIDE DEF k
  <2> QED BY <1>1, <1>2, <1>4, <2>1, <2>2, FieldRows
<1>7. d.transfers = c.transfers /\ d.simpleTransfers = c.simpleTransfers /\ d.logs = c.logs
  BY <1>1, <1>2 DEF Fields
<1>8. StoredOf({m}) = {} /\ SimpleStoredOf({m}) = {}
  BY NothingStored
<1>9. c.logs \in Nat
  BY DEF ChainShape, Shape
<1>10. ListsTrace(m, TRUE, FALSE, c, d)
  BY <1>7, <1>8, <1>9, NoLists
<1> QED BY <1>2, <1>6, <1>7, <1>10 DEF Sends, d

(* A template is created or locked. *)
LEMMA TemplateDefined ==
  ASSUME Inv, NEW i \in Ids, NEW a \in DefinitionLogs, NEW r, NEW n, r.state = "row",
         r = [state |-> r.state, max_supply |-> r.max_supply],
         Define(a, [chain EXCEPT !.templates[i] = r], "templates", [id |-> i, schema |-> n, row |-> r])
  PROVE  Inv'
<1> DEFINE g == [id |-> i, schema |-> n, row |-> r]
           s == Row("templates", g)
           t == [action |-> a]
           nc == PutRow(chain, "templates", i, r)
           o == MainOf(s, traces + 1 + 1)
<1>1. Send(nc, <<t, s>>, AssetListeners)
  <2>1. [chain EXCEPT !.templates[i] = r] = nc
    BY ChainRow
  <2> QED BY <2>1 DEF Define, AssetsAction
<1>2. s.action = "templates" /\ s.present /\ s.id = i /\ s.row = r
  <2>1. "action" \notin DOMAIN g /\ "present" \notin DOMAIN g /\ "id" \in DOMAIN g /\ "row" \in DOMAIN g
        /\ g["id"] = i /\ g["row"] = r
    OBVIOUS
  <2> HIDE DEF g
  <2>2. s.action = "templates" /\ s.present /\ s["id"] = g["id"] /\ s["row"] = g["row"]
    BY <2>1, RowData
  <2> QED BY <2>1, <2>2
<1>3. t.action = a OBVIOUS
<1> HIDE DEF s, t, g
<1>4. o.callback = "templates" /\ o.trace = s
  BY <1>2 DEF MainOf, MainCallback
<1> HIDE DEF o
<1>5. WrittenMade(o, "templates", Visible(chain.templates[i])) = r
  BY <1>2, <1>4 DEF WrittenMade
<1>6. Visible(r) = r
  BY DEF Visible
<1>7. ChainShape(chain) /\ RowShape("templates", r)
  BY DEF Inv, ShapesInv, RowShape
<1>8. Sends(o, chain, nc)
  BY <1>2, <1>4, <1>5, <1>6, <1>7, TemplateSent
<1>9. Heard(AssetListeners, "templates")
  BY AssetsHear
<1> QED BY <1>1, <1>2, <1>3, <1>8, <1>9, StepDefined DEF o

(* A template is deleted. *)
LEMMA TemplateDeleted ==
  ASSUME Inv, NEW i \in Ids, chain.templates[i].state = "row",
         AssetsAction([chain EXCEPT !.templates[i].state = "deleted"],
                      <<[action |-> "templates", present |-> FALSE, id |-> i]>>)
  PROVE  Inv'
<1> DEFINE t == [action |-> "templates", present |-> FALSE, id |-> i]
           old == chain.templates[i]
           r == [old EXCEPT !.state = "deleted"]
           nc == PutRow(chain, "templates", i, r)
           m == MainOf(t, traces + 1)
<1>1. Send(nc, <<t>>, AssetListeners)
  <2>1. [chain EXCEPT !.templates[i] = r] = nc
    BY ChainRow
  <2>2. [chain EXCEPT !.templates[i].state = "deleted"] = [chain EXCEPT !.templates[i] = r]
    OBVIOUS
  <2> QED BY <2>1, <2>2 DEF AssetsAction
<1>2. t.action = "templates" /\ ~ t.present /\ t.id = i
  OBVIOUS
<1>3. old = [state |-> "row", max_supply |-> old.max_supply]
  <2>1. old # NoRow
    BY Zenon, IsRow
  <2> QED BY <2>1 DEF Inv, ShapesInv, ChainShape
<1>4. r = [state |-> "deleted", max_supply |-> old.max_supply]
  BY <1>3
<1> HIDE DEF t, r, old
<1>5. m.callback = "templates" /\ m.trace = t
  BY <1>2 DEF MainOf, MainCallback
<1> HIDE DEF m
<1>6. Visible(old) = old /\ Visible(r) = old
  BY <1>3, <1>4 DEF Visible
<1>7. WrittenMade(m, "templates", Visible(old)) = Visible(r)
  BY <1>2, <1>5, <1>6 DEF WrittenMade
<1>8. ChainShape(chain) /\ RowShape("templates", r)
  BY <1>4 DEF Inv, ShapesInv, RowShape
<1>9. Sends(m, chain, nc)
  BY <1>2, <1>5, <1>7, <1>8, TemplateSent DEF old
<1>10. Heard(AssetListeners, "templates")
  BY AssetsHear
<1> QED BY <1>1, <1>2, <1>9, <1>10, AssetsRegular, StepHeard DEF m

(* Every action on a schema or template. *)
LEMMA DefinitionActions ==
  ASSUME Inv, NEW i \in Ids, Definition(i)
  PROVE  Inv'
<1> DEFINE old == chain.templates[i]
           n == chain.schemas[i]
<1>1. ASSUME Define(IF n = 0 THEN "createschema" ELSE "extendschema",
                [chain EXCEPT !.schemas[i] = n + 1], "schemas", [id |-> i, format |-> n + 1])
      PROVE  Inv'
  BY <1>1, SchemaActions
<1>2. ASSUME Define("lognewtempl", [chain EXCEPT !.templates[i] = [state |-> "row", max_supply |-> "any"]],
                    "templates", [id |-> i, schema |-> n, row |-> [state |-> "row", max_supply |-> "any"]])
      PROVE  Inv'
  <2> DEFINE r == [state |-> "row", max_supply |-> "any"]
  <2>1. r.state = "row" /\ r = [state |-> r.state, max_supply |-> r.max_supply]
    OBVIOUS
  <2>2. "lognewtempl" \in DefinitionLogs
    BY DEF DefinitionLogs
  <2> HIDE DEF r
  <2> QED BY <1>2, <2>1, <2>2, TemplateDefined DEF r
<1>3. ASSUME old.state = "row",
             Define("locktemplate", [chain EXCEPT !.templates[i] = [old EXCEPT !.max_supply = "issued"]],
                    "templates", [id |-> i, schema |-> n, row |-> [old EXCEPT !.max_supply = "issued"]])
      PROVE  Inv'
  <2> DEFINE r == [old EXCEPT !.max_supply = "issued"]
  <2>1. old = [state |-> old.state, max_supply |-> old.max_supply]
    <3>1. old # NoRow
      BY Zenon, <1>3, IsRow
    <3> QED BY <3>1 DEF Inv, ShapesInv, ChainShape
  <2>2. r.state = "row" /\ r = [state |-> r.state, max_supply |-> r.max_supply]
    BY <1>3, <2>1
  <2>3. "locktemplate" \in DefinitionLogs
    BY DEF DefinitionLogs
  <2>4. Define("locktemplate", [chain EXCEPT !.templates[i] = r], "templates", [id |-> i, schema |-> n, row |-> r])
    BY <1>3
  <2> HIDE DEF r
  <2> QED BY <2>2, <2>3, <2>4, TemplateDefined
<1>4. ASSUME old.state = "row",
             AssetsAction([chain EXCEPT !.templates[i].state = "deleted"],
                      <<[action |-> "templates", present |-> FALSE, id |-> i]>>)
      PROVE  Inv'
  BY <1>4, TemplateDeleted
<1> QED BY <1>1, <1>2, <1>3, <1>4 DEF Definition

----------------------------------------
(* Simple assets *)

(* An asset with data is a row. *)
LEMMA NoRowData == ASSUME NEW r, "mutable_data" \in DOMAIN r PROVE r # NoRow
<1>1. DOMAIN NoRow = {"state"}
  BY DEF NoRow
<1> QED BY <1>1

(* Several assets change with one action. *)
LEMMA SimpleSent ==
  ASSUME NEW c, ChainShape(c), NEW d, NEW rows, SimpleChain(c, d, rows),
         NEW m, m.callback \in CallbacksOf("simple"), SimpleMoves(m, c, d, rows)
  PROVE  Sends(m, c, d)
<1> DEFINE k == "simple"
           v == With(c.simple, rows)
           e == Put(c, k, v)
<1>1. /\ KeysOf(k) = Assets /\ k = FieldOf(k) /\ k \in Fields \ IdTables /\ k \in Created
      /\ k \in (Followed \cup Configs) \ {"auctions", "ends"}
      /\ \A l \in Followed : l # k => FieldOf(l) # k
  <2>1. KeysOf(k) = Assets /\ k = FieldOf(k) /\ k \in Fields \ IdTables /\ k \in Created
    BY DEF KeysOf, FieldOf, Rows, Fields, IdTables, Created, Configs
  <2>2. k \in Followed
    BY <2>1 DEF Followed, DataKinds
  <2>3. \A l \in Followed : l # k => FieldOf(l) # k
    BY DEF FieldOf
  <2> QED BY <2>1, <2>2, <2>3
<1>2. IsMap(c.simple, Assets) /\ c.logs \in Nat
  BY DEF ChainShape, Shape
<1>3. /\ IsMap(v, Assets)
      /\ \A x \in Assets : v[x] = IF x \in DOMAIN rows THEN rows[x] ELSE c.simple[x]
  <2>1. DOMAIN c.simple = Assets /\ DOMAIN rows \subseteq Assets
    BY <1>2 DEF IsMap, SimpleChain
  <2>2. Assets \cup DOMAIN rows = Assets
    BY <2>1
  <2> QED BY <2>1, <2>2 DEF With, IsMap
<1>4. d.simple = v
  BY DEF SimpleChain
<1> HIDE DEF v
<1>5. FieldShape(k, v)
  BY <1>3 DEF FieldShape
<1>6. ConfigShape(k, v)
  <2>1. \A x \in Assets : c.simple[x] # NoRow => "mutable_data" \in DOMAIN c.simple[x]
    BY DEF ChainShape
  <2>2. \A x \in Assets : v[x] # NoRow => "mutable_data" \in DOMAIN v[x]
    BY <1>3, <2>1 DEF SimpleMoves
  <2> QED BY <2>2 DEF ConfigShape
<1>7. ChainShape(e)
  BY <1>1, <1>5, <1>6, PutChain
<1>8. e.simple = v /\ \A g \in Fields : g # k => e[g] = c[g]
  BY <1>1, PutFields
<1> HIDE DEF e
<1>9. IsMap(d, Fields) /\ \A g \in Fields : g # "simpleTransfers" => d[g] = e[g]
  BY <1>4, <1>8 DEF SimpleChain
<1>10. ChainShape(d)
  BY <1>7, <1>9, TransfersShape
<1>11. \A x \in Assets : Due(c, k, x) = c.simple[x] /\ Due(e, k, x) = v[x]
  BY <1>8 DEF Due, Cell, Rows, Configs
<1>12. TakesRows(m, k, c, e)
  <2>1. Named(k, m) = DOMAIN rows
    BY DEF Named, SimpleMoves, Configs
  <2>2. \A r : Fits(m, k, r) <=> SimpleFits(m, r)
    BY DEF Fits, Configs
  <2>3. \A r : Made(m, k, r) = SimpleMade(m, r)
    BY DEF Made, Configs
  <2>4. ASSUME NEW x \in DOMAIN rows
        PROVE  Fits(m, k, c.simple[x]) /\ rows[x] = Made(m, k, c.simple[x]) /\ rows[x] # NoRow
    <3>1. SimpleFits(m, c.simple[x]) /\ rows[x] = SimpleMade(m, c.simple[x]) /\ rows[x] # NoRow
      BY NoRowData DEF SimpleMoves
    <3> QED BY <2>2, <2>3, <3>1
  <2> QED BY <1>1, <1>3, <1>11, <2>1, <2>4 DEF TakesRows, Takes
<1>13. RowsTrace(m, TRUE, c, e)
  <2>1. \A l \in Followed : l # k /\ FieldOf(l) = FieldOf(k) =>
          \A x \in KeysOf(l) : Due(e, l, x) = Due(c, l, x)
    BY <1>1
  <2>2. m.callback \in CallbacksOf(k) OBVIOUS
  <2>3. \A g \in Fields : g # k => e[g] = c[g]
    BY <1>8
  <2> HIDE DEF k
  <2> QED BY <1>1, <1>12, <2>1, <2>2, <2>3, FieldRows
<1>14. ASSUME NEW l \in Followed, NEW x PROVE Due(d, l, x) = Due(e, l, x)
  <2>1. FieldOf(l) # "simpleTransfers" /\ "simpleTransfers" \in Fields
    BY DEF FieldOf, Followed, DataKinds, Created, Written, Configs, Rows, Fields
  <2> QED BY <1>9, <2>1, OtherFields
<1>15. RowsTrace(m, TRUE, c, d)
  BY <1>13, <1>14 DEF RowsTrace
<1>16. d.transfers = c.transfers /\ d.logs = c.logs
  BY DEF SimpleChain, Fields
<1>17. StoredOf({m}) = {}
  BY DEF StoredOf, CallbacksOf, SimpleUpdates
<1>18. ListsTrace(m, TRUE, FALSE, c, d)
  <2>1. d.transfers = c.transfers \cup (IF TRUE THEN StoredOf({m}) ELSE {})
    BY <1>16, <1>17
  <2>2. d.simpleTransfers = c.simpleTransfers \cup (IF TRUE THEN SimpleStoredOf({m}) ELSE {})
    BY DEF SimpleMoves
  <2>3. d.logs = c.logs + (IF FALSE THEN 1 ELSE 0)
    BY <1>2, <1>16
  <2> QED BY <2>1, <2>2, <2>3 DEF ListsTrace
<1> QED BY <1>10, <1>15, <1>16, <1>18 DEF Sends

(* An action on simple assets. *)
LEMMA SimpleStep ==
  ASSUME Inv, NEW a \in {"createlog"} \cup SimpleUpdates, NEW g, "action" \notin DOMAIN g,
         NEW nc, NEW rows, SimpleChain(chain, nc, rows), SimpleAction(nc, a, g),
         \A m : Carries(m, a, g) => SimpleMoves(m, chain, nc, rows)
  PROVE  Inv'
<1> DEFINE t == With([action |-> a], g)
           m == MainOf(t, traces + 1)
<1>1. Send(nc, <<t>>, SimpleListeners)
  BY DEF SimpleAction
<1>2. t.action = a /\ \A x \in DOMAIN g : t[x] = g[x]
  BY WithAction
<1> HIDE DEF t
<1>3. MainCallback(a) = a /\ a \in CallbacksOf("simple") /\ a # "log"
  BY DEF MainCallback, CallbacksOf, SimpleUpdates
<1>4. m.callback = a /\ m.trace = t
  BY <1>2, <1>3 DEF MainOf
<1> HIDE DEF m
<1>5. SimpleMoves(m, chain, nc, rows)
  BY <1>2, <1>4 DEF Carries
<1>6. ChainShape(chain)
  BY DEF Inv, ShapesInv
<1>7. Sends(m, chain, nc)
  BY <1>3, <1>4, <1>5, <1>6, SimpleSent
<1>8. Heard(SimpleListeners, a)
  BY SimpleHears
<1> QED BY <1>1, <1>2, <1>3, <1>7, <1>8, SimpleRegular, StepHeard DEF m

(* Rows of simple assets are replaced. *)
LEMMA WithSimpleChain ==
  ASSUME Inv, NEW rows, DOMAIN rows \subseteq Assets
  PROVE  SimpleChain(chain, WithSimple(rows), rows) /\ WithSimple(rows).simpleTransfers = chain.simpleTransfers
<1> DEFINE c == chain
           v == With(c.simple, rows)
<1>1. IsMap(c, Fields)
  BY DEF Inv, ShapesInv, ChainShape, Shape
<1>2. WithSimple(rows) = Put(c, "simple", v)
  BY ChainField DEF WithSimple
<1> HIDE DEF c, v
<1>3. "simple" \in Fields /\ "simpleTransfers" \in Fields
  BY DEF Fields
<1>4. /\ IsMap(WithSimple(rows), Fields) /\ WithSimple(rows).simple = v
      /\ \A g \in Fields : g # "simple" => WithSimple(rows)[g] = c[g]
  BY <1>2, <1>3, PutFields
<1> QED BY <1>3, <1>4 DEF SimpleChain, c, v

(* Rows that an update changes. *)
LEMMA SimpleUpdateStep ==
  ASSUME Inv, NEW a \in {"createlog", "burnlog", "update", "changeauthor"}, NEW g, "action" \notin DOMAIN g,
         "ids" \in DOMAIN g,
         NEW rows, DOMAIN rows \subseteq Assets, g["ids"] = DOMAIN rows, SimpleAction(WithSimple(rows), a, g),
         \A m : Carries(m, a, g) => \A x \in DOMAIN rows :
           /\ SimpleFits(m, chain.simple[x]) /\ rows[x] = SimpleMade(m, chain.simple[x])
           /\ "mutable_data" \in DOMAIN rows[x]
  PROVE  Inv'
<1> DEFINE nc == WithSimple(rows)
<1>1. SimpleChain(chain, nc, rows) /\ nc.simpleTransfers = chain.simpleTransfers
  BY WithSimpleChain
<1>2. SimpleAction(nc, a, g) OBVIOUS
<1> HIDE DEF nc
<1>3. ASSUME NEW m, Carries(m, a, g) PROVE SimpleMoves(m, chain, nc, rows)
  <2>1. m.trace.ids = DOMAIN rows
    BY <1>3 DEF Carries
  <2>2. SimpleStoredOf({m}) = {}
    BY <1>3, NothingStored DEF Carries
  <2> QED BY <1>1, <1>3, <2>1, <2>2 DEF SimpleMoves
<1> QED BY <1>1, <1>2, <1>3, SimpleStep DEF SimpleUpdates

(* Every simple asset has data. *)
LEMMA SimpleRowData ==
  ASSUME Inv, NEW x \in Assets, chain.simple[x] # NoRow
  PROVE  "mutable_data" \in DOMAIN chain.simple[x]
BY DEF Inv, ShapesInv, ChainShape

(* Transfers and claims, which are stored as transfers. *)
LEMMA MoveStep ==
  ASSUME Inv, NEW act \in {"transfer", "claim"}, NEW a, NEW b, NEW ids, ids \subseteq Assets,
         \A x \in ids : chain.simple[x] # NoRow /\ (act = "transfer" => chain.simple[x].owner = a),
         SimpleMove(act, a, b, ids)
  PROVE  Inv'
<1> DEFINE sequence == Cardinality(chain.simpleTransfers) + 1
           rows == [x \in ids |-> [chain.simple[x] EXCEPT !.owner = b]]
           w == [transfer_id |-> sequence, recipient |-> b, assets |-> ids,
                 sender |-> IF act = "claim" THEN b ELSE a]
           e == WithSimple(rows)
           nc == [e EXCEPT !.simpleTransfers = @ \cup {w}]
           g == [ids |-> ids, from |-> a, to |-> b, global_sequence |-> sequence]
<1>1. SimpleAction(nc, act, g)
  BY DEF SimpleMove
<1>2. /\ DOMAIN rows = ids
      /\ \A x \in ids : rows[x] = [chain.simple[x] EXCEPT !.owner = b]
  OBVIOUS
<1> HIDE DEF rows, w
<1>3. SimpleChain(chain, e, rows) /\ e.simpleTransfers = chain.simpleTransfers
  BY <1>2, WithSimpleChain
<1> HIDE DEF e
<1>4. /\ SimpleChain(chain, nc, rows)
      /\ nc.simpleTransfers = chain.simpleTransfers \cup {w}
  <2>1. e = [f \in Fields |-> e[f]] /\ "simpleTransfers" \in Fields /\ "simple" \in Fields
    BY <1>3 DEF SimpleChain, IsMap, Fields
  <2>2. /\ IsMap(nc, Fields) /\ nc.simpleTransfers = e.simpleTransfers \cup {w}
        /\ \A f \in Fields : f # "simpleTransfers" => nc[f] = e[f]
    BY <2>1 DEF IsMap
  <2> HIDE DEF nc
  <2> QED BY <1>3, <2>1, <2>2 DEF SimpleChain
<1>5. /\ "action" \notin DOMAIN g /\ "ids" \in DOMAIN g /\ "from" \in DOMAIN g /\ "to" \in DOMAIN g
      /\ "global_sequence" \in DOMAIN g
      /\ g["ids"] = ids /\ g["from"] = a /\ g["to"] = b /\ g["global_sequence"] = sequence
  OBVIOUS
<1> HIDE DEF nc, g, sequence
<1>6. ASSUME NEW m, Carries(m, act, g) PROVE SimpleMoves(m, chain, nc, rows)
  <2>1. /\ m.callback = act /\ m.trace.ids = ids /\ m.trace.from = a /\ m.trace.to = b
        /\ m.trace.global_sequence = sequence
    BY <1>5, <1>6 DEF Carries
  <2>2. ASSUME NEW x \in ids
        PROVE  /\ SimpleFits(m, chain.simple[x]) /\ rows[x] = SimpleMade(m, chain.simple[x])
               /\ "mutable_data" \in DOMAIN rows[x]
    <3>1. "mutable_data" \in DOMAIN chain.simple[x]
      BY SimpleRowData
    <3>2. SimpleFits(m, chain.simple[x])
      BY <2>1 DEF SimpleFits
    <3>3. SimpleMade(m, chain.simple[x]) = [chain.simple[x] EXCEPT !.owner = b]
      BY <2>1 DEF SimpleMade
    <3> QED BY <1>2, <3>1, <3>2, <3>3
  <2>3. SimpleStored(m) = w
    BY <2>1 DEF SimpleStored, w
  <2>4. SimpleStoredOf({m}) = {w}
    BY <2>1, <2>3 DEF SimpleStoredOf
  <2> QED BY <1>2, <1>4, <2>1, <2>2, <2>4 DEF SimpleMoves
<1> QED BY <1>1, <1>4, <1>5, <1>6, SimpleStep DEF SimpleUpdates

(* An update of rows, one by one. *)
LEMMA EachStep ==
  ASSUME Inv, NEW a \in {"burnlog", "update", "changeauthor"}, NEW g, "action" \notin DOMAIN g, "ids" \in DOMAIN g,
         NEW rows, DOMAIN rows \subseteq Assets, g["ids"] = DOMAIN rows, SimpleAction(WithSimple(rows), a, g),
         \A x \in DOMAIN rows : chain.simple[x] # NoRow,
         \A m : Carries(m, a, g) => \A x \in DOMAIN rows : rows[x] = SimpleMade(m, chain.simple[x]),
         \A x \in DOMAIN rows : DOMAIN rows[x] = DOMAIN chain.simple[x]
  PROVE  Inv'
<1>1. ASSUME NEW m, Carries(m, a, g), NEW x \in DOMAIN rows
      PROVE  /\ SimpleFits(m, chain.simple[x]) /\ rows[x] = SimpleMade(m, chain.simple[x])
             /\ "mutable_data" \in DOMAIN rows[x]
  <2>1. SimpleFits(m, chain.simple[x])
    BY <1>1 DEF SimpleFits, Carries
  <2>2. "mutable_data" \in DOMAIN chain.simple[x]
    BY SimpleRowData
  <2> QED BY <1>1, <2>1, <2>2
<1> QED BY <1>1, SimpleUpdateStep

(* Every action on simple assets. *)
LEMMA SimpleActions ==
  ASSUME Inv, SimpleAsset
  PROVE  Inv'
<1>1. ASSUME NEW x \in Assets, NEW a,
             NEW row, row = [state |-> "row", owner |-> a, author |-> a, mutable_data |-> "x",
                             burned_by_account |-> "null"],
             chain.simple[x] = NoRow,
             SimpleAction(WithSimple([y \in {x} |-> row]), "createlog", [ids |-> {x}, row |-> row])
      PROVE  Inv'
  <2> DEFINE rows == [y \in {x} |-> row]
             g == [ids |-> {x}, row |-> row]
  <2>1. /\ DOMAIN rows = {x} /\ rows[x] = row /\ "mutable_data" \in DOMAIN row
        /\ "action" \notin DOMAIN g /\ "ids" \in DOMAIN g /\ "row" \in DOMAIN g
        /\ g["ids"] = {x} /\ g["row"] = row
    BY <1>1
  <2>2. SimpleAction(WithSimple(rows), "createlog", g)
    BY <1>1
  <2> HIDE DEF rows, g
  <2>3. ASSUME NEW m, Carries(m, "createlog", g), NEW y \in DOMAIN rows
        PROVE  /\ SimpleFits(m, chain.simple[y]) /\ rows[y] = SimpleMade(m, chain.simple[y])
               /\ "mutable_data" \in DOMAIN rows[y]
    <3>1. y = x /\ m.callback = "createlog" /\ m.trace.row = row /\ row # NoRow
      BY <2>1, <2>3, NoRowData DEF Carries
    <3> QED BY <1>1, <2>1, <3>1 DEF SimpleFits, SimpleMade
  <2> QED BY <2>1, <2>2, <2>3, SimpleUpdateStep
<1>2. ASSUME NEW a, NEW ids, ids \subseteq SimpleOwned(a)
      PROVE  ids \subseteq Assets /\ \A x \in ids : chain.simple[x] # NoRow /\ chain.simple[x].owner = a
  BY <1>2 DEF SimpleOwned
<1>3. ASSUME NEW a, NEW ids, ids \subseteq SimpleOwned(a),
             SimpleAction(WithSimple([x \in ids |->
                [chain.simple[x] EXCEPT !.owner = "null", !.burned_by_account = a]]), "burnlog", [ids |-> ids, owner |-> a])
      PROVE  Inv'
  <2> DEFINE rows == [x \in ids |-> [chain.simple[x] EXCEPT !.owner = "null", !.burned_by_account = a]]
             g == [ids |-> ids, owner |-> a]
  <2>1. /\ DOMAIN rows = ids
        /\ \A x \in ids : rows[x] = [chain.simple[x] EXCEPT !.owner = "null", !.burned_by_account = a]
        /\ \A x \in ids : DOMAIN rows[x] = DOMAIN chain.simple[x]
        /\ "action" \notin DOMAIN g /\ "ids" \in DOMAIN g /\ "owner" \in DOMAIN g
        /\ g["ids"] = ids /\ g["owner"] = a
    OBVIOUS
  <2>2. SimpleAction(WithSimple(rows), "burnlog", g)
    BY Zenon, <1>3
  <2> HIDE DEF rows, g
  <2>3. ASSUME NEW m, Carries(m, "burnlog", g), NEW x \in DOMAIN rows
        PROVE  rows[x] = SimpleMade(m, chain.simple[x])
    BY Zenon, <2>1, <2>3 DEF Carries, SimpleMade
  <2>4. DOMAIN rows \subseteq Assets /\ g["ids"] = DOMAIN rows /\ \A x \in DOMAIN rows : chain.simple[x] # NoRow
    <3>1. ids \subseteq Assets /\ \A x \in ids : chain.simple[x] # NoRow
      BY Zenon, <1>3 DEF SimpleOwned
    <3> QED BY Zenon, <2>1, <3>1
  <2>5. \A x \in DOMAIN rows : DOMAIN rows[x] = DOMAIN chain.simple[x]
    BY Zenon, <2>1
  <2> QED BY Zenon, <2>1, <2>2, <2>3, <2>4, <2>5, EachStep
<1>4. ASSUME NEW a, NEW ids, ids \subseteq SimpleOwned(a), NEW v,
             SimpleAction(WithSimple([x \in ids |-> [chain.simple[x] EXCEPT !.mutable_data = v]]),
                          "update", [ids |-> ids, mdata |-> v])
      PROVE  Inv'
  <2> DEFINE rows == [x \in ids |-> [chain.simple[x] EXCEPT !.mutable_data = v]]
             g == [ids |-> ids, mdata |-> v]
  <2>1. /\ DOMAIN rows = ids
        /\ \A x \in ids : rows[x] = [chain.simple[x] EXCEPT !.mutable_data = v]
        /\ \A x \in ids : DOMAIN rows[x] = DOMAIN chain.simple[x]
        /\ "action" \notin DOMAIN g /\ "ids" \in DOMAIN g /\ "mdata" \in DOMAIN g
        /\ g["ids"] = ids /\ g["mdata"] = v
    OBVIOUS
  <2>2. SimpleAction(WithSimple(rows), "update", g)
    BY <1>4
  <2> HIDE DEF rows, g
  <2>3. ASSUME NEW m, Carries(m, "update", g), NEW x \in DOMAIN rows
        PROVE  rows[x] = SimpleMade(m, chain.simple[x])
    BY <2>1, <2>3 DEF Carries, SimpleMade
  <2> QED BY <1>2, <1>4, <2>1, <2>2, <2>3, EachStep
<1>5. ASSUME NEW a, NEW ids, ids \subseteq SimpleOwned(a), NEW b,
             SimpleAction(WithSimple([x \in ids |-> [chain.simple[x] EXCEPT !.author = b]]),
                          "changeauthor", [ids |-> ids, newauthor |-> b])
      PROVE  Inv'
  <2> DEFINE rows == [x \in ids |-> [chain.simple[x] EXCEPT !.author = b]]
             g == [ids |-> ids, newauthor |-> b]
  <2>1. /\ DOMAIN rows = ids
        /\ \A x \in ids : rows[x] = [chain.simple[x] EXCEPT !.author = b]
        /\ \A x \in ids : DOMAIN rows[x] = DOMAIN chain.simple[x]
        /\ "action" \notin DOMAIN g /\ "ids" \in DOMAIN g /\ "newauthor" \in DOMAIN g
        /\ g["ids"] = ids /\ g["newauthor"] = b
    OBVIOUS
  <2>2. SimpleAction(WithSimple(rows), "changeauthor", g)
    BY <1>5
  <2> HIDE DEF rows, g
  <2>3. ASSUME NEW m, Carries(m, "changeauthor", g), NEW x \in DOMAIN rows
        PROVE  rows[x] = SimpleMade(m, chain.simple[x])
    BY <2>1, <2>3 DEF Carries, SimpleMade
  <2> QED BY <1>2, <1>5, <2>1, <2>2, <2>3, EachStep
<1>6. ASSUME NEW a, NEW ids, ids \subseteq SimpleOwned(a), NEW b, SimpleMove("transfer", a, b, ids)
      PROVE  Inv'
  BY <1>2, <1>6, MoveStep
<1>7. ASSUME NEW b, NEW ids, ids \subseteq UNION {SimpleOwned(a) : a \in Accounts \ {b}}, SimpleMove("claim", b, b, ids)
      PROVE  Inv'
  <2>1. ids \subseteq Assets /\ \A x \in ids : chain.simple[x] # NoRow
    BY <1>7 DEF SimpleOwned
  <2> QED BY <1>7, <2>1, MoveStep
<1> QED BY Zenon, <1>1, <1>3, <1>4, <1>5, <1>6, <1>7 DEF SimpleAsset

----------------------------------------

(* The oracle is followed by no row: MedianInv below is about it. *)
LEMMA OracleStep ==
  ASSUME Inv, NEW q \in Pairs, NEW r, NEW a \in {"pairs", "datapoints"}, OracleRow(r, a, q)
  PROVE  Inv'
<1> DEFINE e == [chain EXCEPT !.oracle[q] = r]
           v == [chain.oracle EXCEPT ![q] = r]
           nc == [e EXCEPT !.block = @ + 1]
           t == [action |-> a, name |-> q, block |-> chain.block + 1]
           m == MainOf(t, traces + 1)
           c == chain
<1>2. Send(nc, <<t>>, OracleListeners) /\ t.action = a
  BY DEF OracleRow, OracleAction
<1>3. ChainShape(c) /\ IsMap(c, Fields) /\ IsMap(c.oracle, Pairs) /\ c.logs \in Nat
  BY DEF Inv, ShapesInv, ChainShape, Shape
<1>4. e = Put(c, "oracle", v)
  <2> HIDE DEF v
  <2>1. [c EXCEPT !.oracle = v] = Put(c, "oracle", v)
    <3> HIDE DEF c
    <3> QED BY <1>3 DEF IsMap, Put, Fields
  <2>2. e = [c EXCEPT !.oracle = v]
    BY DEF v
  <2> QED BY <2>1, <2>2
<1>5. IsMap(v, Pairs)
  BY <1>3 DEF IsMap
<1> HIDE DEF e, v, c, t
<1>6. "oracle" \in Fields \ IdTables /\ "block" \in Fields
  BY DEF Fields, IdTables
<1>7. FieldShape("oracle", v) /\ ConfigShape("oracle", v)
  BY <1>5 DEF FieldShape, ConfigShape
<1>8. ChainShape(e) /\ IsMap(e, Fields) /\ \A g \in Fields : g # "oracle" => e[g] = c[g]
  BY <1>3, <1>4, <1>6, <1>7, PutChain, PutFields
<1>9. IsMap(nc, Fields) /\ \A g \in Fields : g # "block" => nc[g] = e[g]
  BY <1>6, <1>8 DEF IsMap
<1> HIDE DEF nc
<1>10. ChainShape(nc)
  BY <1>8, <1>9, TransfersShape
<1>11. m.callback \in {"pairs", "datapoints"}
  BY <1>2 DEF MainOf, MainCallback
<1> HIDE DEF m
<1>12. \A k \in Followed : FieldOf(k) \notin {"oracle", "block"} /\ {"pairs", "datapoints"} \cap CallbacksOf(k) = {}
  <2>1. \A k \in Followed : FieldOf(k) \notin {"oracle", "block"}
    BY DEF FieldOf, Followed, DataKinds, Created, Written, Configs, Rows
  <2>2. \A k \in Followed : {"pairs", "datapoints"} \cap CallbacksOf(k) = {}
    BY DEF CallbacksOf, Followed, DataKinds, Created, Written, Configs, Rows,
       SaleUpdates, AuctionUpdates, BuyofferUpdates, TemplateBuyofferUpdates, LinkUpdates,
       SimpleUpdates, AssetUpdates
  <2> QED BY <2>1, <2>2
<1>13. ASSUME NEW k \in Followed, NEW x \in KeysOf(k)
       PROVE  ~ Touches(m, k, x) /\ Due(nc, k, x) = Due(c, k, x)
  <2>1. ~ Touches(m, k, x)
    BY <1>11, <1>12 DEF Touches
  <2>2. Due(nc, k, x) = Due(e, k, x)
    BY <1>6, <1>9, <1>12, OtherFields
  <2>3. Due(e, k, x) = Due(c, k, x)
    BY <1>6, <1>8, <1>12, OtherFields
  <2> QED BY <2>1, <2>2, <2>3
<1>14. nc.transfers = c.transfers /\ nc.simpleTransfers = c.simpleTransfers /\ nc.logs = c.logs
  BY <1>8, <1>9 DEF Fields
<1>15. StoredOf({m}) = {} /\ SimpleStoredOf({m}) = {}
  BY <1>11, NothingStored
<1>16. ListsTrace(m, TRUE, FALSE, c, nc)
  BY <1>3, <1>14, <1>15, NoLists
<1>17. Quiet(m, c, nc)
  BY <1>10, <1>13, <1>14, <1>16 DEF Quiet
<1> QED BY <1>2, <1>15, <1>17, OracleRegular, StepUnheard DEF m, c

LEMMA OracleActions ==
  ASSUME Inv, NEW q \in Pairs, Pair(q) \/ Median(q)
  PROVE  Inv'
<1>1. CASE Pair(q)
  <2> DEFINE r == [chain.oracle[q] EXCEPT !.listed = TRUE]
  <2>1. [chain EXCEPT !.oracle[q].listed = TRUE] = [chain EXCEPT !.oracle[q] = r]
    OBVIOUS
  <2>2. OracleRow(r, "pairs", q)
    BY <1>1, <2>1 DEF Pair, OracleRow
  <2> HIDE DEF r
  <2> QED BY <2>2, OracleStep
<1>2. CASE Median(q)
  <2> DEFINE r == [chain.oracle[q] EXCEPT !.last = IF head THEN chain.block + 1 ELSE @]
  <2>1. [chain EXCEPT !.oracle[q].last = IF head THEN chain.block + 1 ELSE @] = [chain EXCEPT !.oracle[q] = r]
    OBVIOUS
  <2>2. OracleRow(r, "datapoints", q)
    BY <1>2, <2>1 DEF Median, OracleRow
  <2> HIDE DEF r
  <2> QED BY <2>2, OracleStep
<1> QED BY <1>1, <1>2

----------------------------------------
(* All actions of the contracts *)

(* What contracts do *)
LEMMA ContractKeeps ==
  ASSUME Inv, Contract
  PROVE  Inv'
<1>1. ASSUME NEW i \in Ids, NewSale(i) \/ Sale(i) PROVE Inv'
  BY <1>1, SaleActions
<1>2. ASSUME Configuration PROVE Inv'
  BY <1>2, ConfigurationActions
<1>3. ASSUME NEW p \in Pairs, Pair(p) \/ Median(p) PROVE Inv'
  BY <1>3, OracleActions
<1>4. ASSUME NEW i \in Ids, NewAuction(i) \/ Auction(i) PROVE Inv'
  BY <1>4, AuctionActions
<1>5. ASSUME NEW i \in Ids, Buyoffer(i) PROVE Inv'
  BY <1>5, BuyofferActions
<1>6. ASSUME NEW i \in Ids, TemplateBuyoffer(i) PROVE Inv'
  BY <1>6, TemplateBuyofferActions
<1>7. ASSUME NEW i \in Ids, MarketRows(i) PROVE Inv'
  BY <1>7, RowActions
<1>8. ASSUME SimpleAuthor PROVE Inv'
  BY <1>8, AuthorActions
<1>9. ASSUME NEW a \in Accounts, AssetBalance(a) PROVE Inv'
  BY <1>9, BalanceActions
<1>10. ASSUME NewVersion PROVE Inv'
  BY <1>10, VersionActions
<1>11. ASSUME NEW i \in Ids, Link(i) PROVE Inv'
  BY <1>11, LinkActions
<1>12. ASSUME SimpleAsset PROVE Inv'
  BY <1>12, SimpleActions
<1>13. ASSUME SimpleVersion PROVE Inv'
  BY <1>13, SimpleVersionActions
<1>14. ASSUME NEW i \in Ids, MintedAsset(i) PROVE Inv'
  BY <1>14, MintedActions
<1>15. ASSUME NEW i \in Ids, Collection(i) PROVE Inv'
  BY <1>15, CollectionActions
<1>16. ASSUME NEW i \in Ids, Definition(i) PROVE Inv'
  BY <1>16, DefinitionActions
<1>17. ASSUME AssetConfiguration PROVE Inv'
  BY <1>17, AssetConfigurationActions
<1> QED
  BY <1>1, <1>2, <1>3, <1>4, <1>5, <1>6, <1>7, <1>8, <1>9, <1>10, <1>11, <1>12, <1>13, <1>14, <1>15, <1>16,
     <1>17 DEF Contract

----------------------------------------
(* Jobs: the tables with the rows that are collected *)

(* The tables with the rows that were collected. *)
LEMMA CollectedNow ==
  ASSUME NEW t, IsMap(t, Fields)
  PROVE  AssetsInserted(SimpleInserted(t)) = Into(t, memory.simpleInserts, memory.mints)
<1> DEFINE u == SimpleInserted(t)
           v == Put(t, "simple", SimpleInto(t.simple, memory.simpleInserts))
<1>1. u = v
  BY DEF SimpleInserted, SimpleInto, Put, IsMap, Fields
<1>2. v = [g \in Fields |-> v[g]] /\ v.minted = t.minted
  BY DEF Put, Fields
<1> HIDE DEF u, v
<1>3. AssetsInserted(v) = Put(v, "minted", MintedInto(v.minted, memory.mints))
  BY <1>2 DEF AssetsInserted, MintedInto, Put, Fields
<1> QED BY <1>1, <1>2, <1>3 DEF Into, u, v

(* The same after a step. *)
LEMMA CollectedThen ==
  ASSUME IsMap(tables, Fields)'
  PROVE  Collected' = Now'
<1> DEFINE t == tables'
           u == SimpleInserted(tables)'
           v == Put(t, "simple", SimpleInto(t.simple, memory'.simpleInserts))
<1>1. u = v
  BY DEF SimpleInserted, SimpleInto, Put, IsMap, Fields
<1>2. v = [g \in Fields |-> v[g]] /\ v.minted = t.minted
  BY DEF Put, Fields
<1>4. Collected' = [u EXCEPT !.minted = [i \in Ids |->
        IF \E r \in memory'.mints : r.id = i
        THEN [state |-> "row", minter |-> (CHOOSE r \in memory'.mints : r.id = i).minter,
              mutable_data |-> "x", backed |-> 0]
        ELSE @[i]]]
  BY DEF Collected, AssetsInserted
<1> HIDE DEF u, v
<1>3. Collected' = Put(v, "minted", MintedInto(v.minted, memory'.mints))
  BY <1>1, <1>2, <1>4 DEF MintedInto, Put, Fields
<1> QED BY <1>1, <1>2, <1>3 DEF Into, Now, u, v

(* Only assets are collected. *)
LEMMA IntoFields ==
  ASSUME NEW t, NEW S, NEW M
  PROVE  LET u == Into(t, S, M)
         IN  /\ u.simple = SimpleInto(t.simple, S) /\ u.minted = MintedInto(t.minted, M)
             /\ \A g \in Fields : g # "simple" /\ g # "minted" => u[g] = t[g]
             /\ IsMap(u, Fields)
BY DEF Into, Put, Fields, IsMap

(* Nothing is collected: the tables stay. *)
LEMMA IntoNothing ==
  ASSUME NEW t, Shape(t)
  PROVE  Into(t, {}, {}) = t
<1>1. SimpleInto(t.simple, {}) = t.simple /\ MintedInto(t.minted, {}) = t.minted
  BY DEF SimpleInto, MintedInto, Shape, IsMap, IdTables
<1>2. IsMap(t, Fields)
  BY DEF Shape
<1> QED BY <1>1, <1>2 DEF Into, Put, Fields, IsMap

(* The tables keep their shape. *)
LEMMA IntoShape ==
  ASSUME NEW t, Shape(t), NEW S, NEW M
  PROVE  Shape(Into(t, S, M))
<1> DEFINE u == Into(t, S, M)
<1>1. /\ IsMap(u, Fields) /\ u.simple = SimpleInto(t.simple, S) /\ u.minted = MintedInto(t.minted, M)
      /\ \A g \in Fields : g # "simple" /\ g # "minted" => u[g] = t[g]
  BY IntoFields
<1> HIDE DEF u
<1>2. IsMap(u.simple, Assets) /\ IsMap(u.minted, Ids)
  BY <1>1 DEF IsMap, SimpleInto, MintedInto
<1>3. /\ u.rows = t.rows /\ u.oracle = t.oracle /\ u.authors = t.authors
      /\ u.assetBalances = t.assetBalances /\ u.market = t.market /\ u.assetConfig = t.assetConfig
      /\ u.logs = t.logs /\ u.auctions = t.auctions
  BY <1>1 DEF Fields
<1>4. \A f \in IdTables : IsMap(u[f], Ids)
  <2>1. \A f \in IdTables : f # "minted" => u[f] = t[f]
    BY <1>1 DEF IdTables, Fields
  <2> QED BY <1>2, <2>1 DEF Shape
<1>5. Shape(u)
  BY <1>1, <1>2, <1>3, <1>4 DEF Shape
<1> QED BY <1>5 DEF u

(* The rows of other kinds. *)
LEMMA IntoCells ==
  ASSUME NEW t, NEW S, NEW M, NEW k \in Followed, NEW x
  PROVE  /\ k # "simple" /\ k # "minted" => Cell(Into(t, S, M), k, x) = Cell(t, k, x)
         /\ k = "simple" => Cell(Into(t, S, M), k, x) = SimpleInto(t.simple, S)[x]
         /\ k = "minted" => Cell(Into(t, S, M), k, x) = MintedInto(t.minted, M)[x]
<1> DEFINE u == Into(t, S, M)
           v == Put(t, "simple", SimpleInto(t.simple, S))
<1>1. /\ u.simple = SimpleInto(t.simple, S) /\ u.minted = MintedInto(t.minted, M)
  BY IntoFields
<1>2. /\ \A g \in Fields : g # "simple" => v[g] = t[g]
      /\ \A g \in Fields : g # "minted" => u[g] = v[g]
      /\ "simple" \in Fields /\ "minted" \in Fields
  BY DEF Into, Put, Fields
<1> HIDE DEF u, v
<1>3. FieldOf(k) \in {"simple", "minted"} => k \in {"simple", "minted"}
  BY DEF FieldOf, Rows
<1>4. k # "simple" /\ k # "minted" => Cell(v, k, x) = Cell(t, k, x) /\ Cell(u, k, x) = Cell(v, k, x)
  BY <1>2, <1>3, OtherFields
<1>5. k = "simple" => Cell(u, k, x) = SimpleInto(t.simple, S)[x]
  BY <1>1 DEF Cell, Rows, Configs
<1>6. k = "minted" => Cell(u, k, x) = MintedInto(t.minted, M)[x]
  BY <1>1 DEF Cell, Rows, Configs
<1> QED BY <1>4, <1>5, <1>6 DEF u

(* A job that turns the tables, with what is collected, as its kind does   *)
(* keeps the invariant.                                                    *)
LEMMA RunJob ==
  ASSUME Inv, NEW j, NEW a, Runs(j, a), JobFrame, Shape(tables)',
         IsMap(memory, {"market", "oracle", "tools", "simpleVersion", "simpleInserts", "assetConfig", "mints"})',
         IsMap(memory.assetConfig, {"tokens", "format", "version"})',
         RowsRun(j, Now, Now'), ListsRun(j, Now, Now'),
         (memory.mints # {} \/ memory.simpleInserts # {})' => j.priority = AA_ACTION_MINT_ASSET,
         CollectedOnce(memory.simpleInserts, memory.mints)',
         MemoryInv'
  PROVE  Inv'
<1>1. /\ executing /\ executing' = TRUE /\ ~ PriorityDone /\ IsNext(j)
      /\ queue' = queue \ {j} /\ lastPriority' = j.priority
      /\ liveQueue' = liveQueue /\ traces' = traces
  BY DEF Runs, ReaderInv, Inv
<1>2. /\ chain' = chain /\ committed' = committed /\ previous' = previous
      /\ rolledBack' = rolledBack /\ started' = started /\ running' = running /\ forks' = forks
      /\ head' = head
  BY DEF JobFrame, historyVars, readerVars, boundVars
<1>3. IsNextIn(j, queue)
  BY <1>1 DEF IsNextIn, IsNext
<1>4. Collected = Now /\ Collected' = Now'
  BY CollectedNow, CollectedThen DEF Inv, ShapesInv, Shape, Collected, Now
<1>5. Now.logs \in Nat
  BY IntoShape DEF Inv, ShapesInv, Shape, Now
<1>6. Rests(Now', queue \ {j}, chain) /\ JobsOK(queue \ {j}, started.traces)
  <2>1. JobsOK(queue, started.traces) /\ Rests(Now, queue, chain)
    BY <1>1, <1>4 DEF Inv, ReaderInv, RestsInv
  <2> QED BY <1>3, <1>5, <2>1, RestsRun
<1>7. ShapesInv'
  BY <1>2 DEF Inv, ShapesInv
<1>8. ReaderInv'
  <2>1. Origin' = Origin
    BY <1>2 DEF Origin
  <2> QED BY <1>1, <1>2, <1>6, <2>1 DEF Inv, ReaderInv
<1>9. CollectedInv'
  <2>1. \A q \in queue : q.priority >= j.priority
    <3>1. \A q \in queue : q.priority \in Nat
      BY <1>1 DEF Inv, ReaderInv, JobsOK
    <3> QED BY <1>1, <3>1 DEF IsNext, Before
  <2> QED BY <1>1, <2>1 DEF CollectedInv
<1>10. RestsInv'
  <2>1. Origin' = Origin /\ Pending' = Pending
    BY <1>1, <1>2 DEF Origin, Pending
  <2>2. Rests(Origin, Pending, chain)'
    BY <1>2, <2>1 DEF Inv, RestsInv
  <2>3. Rests(Collected, queue, chain)'
    BY <1>1, <1>2, <1>4, <1>6
  <2> QED BY <1>2, <2>2, <2>3 DEF Inv, RestsInv
<1> QED BY <1>7, <1>8, <1>9, <1>10 DEF Inv

(* A job that changes a field, seen from all rows. *)
LEMMA FieldRun ==
  ASSUME NEW k \in Followed \cup Configs, k \notin {"auctions", "ends"},
         NEW f \in Fields, f = FieldOf(k), NEW t, NEW d, \A g \in Fields : g # f => d[g] = t[g],
         NEW m, m.callback \in CallbacksOf(k), k \in Followed => RowsTurn(m, k, t, d),
         \A l \in Followed : l # k /\ FieldOf(l) = FieldOf(k) =>
           \A x \in KeysOf(l) : Cell(d, l, x) = Cell(t, l, x)
  PROVE  RowsRun(m, t, d)
<1> SUFFICES ASSUME NEW l \in Followed, NEW x \in KeysOf(l),
                    Fits(m, l, Cell(t, l, x)) \/ ~ Touches(m, l, x)
             PROVE  Cell(d, l, x) = IF Touches(m, l, x) THEN Made(m, l, Cell(t, l, x)) ELSE Cell(t, l, x)
  BY DEF RowsRun
<1>1. CASE l = k
  BY <1>1 DEF RowsTurn, Turns, Touches
<1>2. CASE l # k
  <2>1. ~ Touches(m, l, x)
    BY <1>2, OtherKinds
  <2>2. CASE FieldOf(l) = FieldOf(k)
    BY <1>2, <2>1, <2>2
  <2>3. CASE FieldOf(l) # FieldOf(k)
    <3>1. Cell(d, l, x) = Cell(t, l, x)
      BY <2>3, OtherFields
    <3> QED BY <2>1, <3>1
  <2> QED BY <2>2, <2>3
<1> QED BY <1>1, <1>2

(* A job that stores no transfer. *)
LEMMA NoListsRun ==
  ASSUME NEW j, j.callback \notin {"stored", "transfer", "claim", "log"}, NEW t, NEW d, t.logs \in Nat,
         d.transfers = t.transfers, d.simpleTransfers = t.simpleTransfers, d.logs = t.logs
  PROVE  ListsRun(j, t, d)
<1>1. d.transfers = t.transfers \cup StoredOf({j}) /\ d.simpleTransfers = t.simpleTransfers \cup SimpleStoredOf({j})
  BY NothingStored
<1>2. d.logs = t.logs + (IF j.callback = "log" THEN 1 ELSE 0)
  OBVIOUS
<1> QED BY <1>1, <1>2 DEF ListsRun

(* All assets of a block are created before the first is changed. *)
LEMMA Amid ==
  ASSUME Inv, NEW j, NEW a, Runs(j, a), memory.mints # {} \/ memory.simpleInserts # {}
  PROVE  j.priority = AA_ACTION_MINT_ASSET
<1>1. executing /\ running /\ ~ PriorityDone /\ IsNext(j) /\ j \in queue
  BY DEF Runs, Inv, ReaderInv, IsNext
<1>2. lastPriority = AA_ACTION_MINT_ASSET
  BY <1>1 DEF Inv, CollectedInv
<1>3. lastPriority # None
  BY <1>2 DEF AA_ACTION_MINT_ASSET, ATOMICASSETS_BASE_PRIORITY, None
<1>4. PICK q \in queue : q.priority = AA_ACTION_MINT_ASSET
  BY <1>1, <1>2, <1>3 DEF PriorityDone
<1>5. j.priority >= AA_ACTION_MINT_ASSET
  BY <1>1, <1>2, <1>3 DEF Inv, CollectedInv
<1>6. ~ Before(q, j)
  BY <1>1, <1>4 DEF IsNext
<1>7. j.priority \in Nat
  BY <1>1 DEF Inv, ReaderInv, JobsOK
<1> QED
  BY <1>4, <1>5, <1>6, <1>7 DEF Before, AA_ACTION_MINT_ASSET, ATOMICASSETS_BASE_PRIORITY

(* A job that does not collect finds nothing collected. *)
LEMMA Alone ==
  ASSUME Inv, NEW j, NEW a, Runs(j, a), a \notin {"createlog", "minted", "log"}
  PROVE  memory.mints = {} /\ memory.simpleInserts = {} /\ Now = tables
<1>1. executing /\ j.callback = a /\ j \in queue
  BY DEF Runs, Inv, IsNext
<1>2. j.priority = PriorityOf(a)
  BY <1>1 DEF Inv, ReaderInv, JobsOK
<1>3. PriorityOf(a) # AA_ACTION_MINT_ASSET
  BY DEF PriorityOf, Creates, Updates, Rows, ACTION_CREATE, ACTION_UPDATE,
         TABLE_AUCTIONS, TABLE_CONFIG, ACTION_CREATE_LINK, ACTION_UPDATE_LINK, TABLE_TOOLS_CONFIG,
         AA_ACTION_MINT_ASSET, AA_ACTION_UPDATE_ASSET, SA_TABLE_AUTHORS, SA_TABLE_CONFIG,
         AA_TABLE_CONFIG, AA_TABLE_BALANCES, TABLE_COLLECTIONS, TABLE_SCHEMAS, TABLE_TEMPLATES,
         TABLE_PAIRS, TABLE_DATAPOINTS, DELPHIORACLE_BASE_PRIORITY,
         ATOMICMARKET_BASE_PRIORITY, ATOMICTOOLS_BASE_PRIORITY, ATOMICASSETS_BASE_PRIORITY,
         SIMPLEASSETS_BASE_PRIORITY
<1>4. memory.mints = {} /\ memory.simpleInserts = {}
  BY <1>2, <1>3, Amid
<1> QED BY <1>4, IntoNothing DEF Now, Inv, ShapesInv

(* Configuration and memory stay equal when a job touches neither. *)
LEMMA MemoryKept ==
  ASSUME Inv, NEW j, NEW a, Runs(j, a), JobFrame, memory' = memory, NEW d, tables' = d, SameConfig(tables, d)
  PROVE  MemoryInv'
<1>1. running' = running /\ rolledBack' = rolledBack /\ previous' = previous /\ committed' = committed
  BY DEF JobFrame, readerVars, historyVars
<1>2. Remembered(previous)' = Remembered(previous) /\ Remembered(committed)' = Remembered(committed)
  BY <1>1 DEF Remembered
<1> QED BY <1>1, <1>2 DEF Inv, MemoryInv, SameConfig

(* A job that changes tables only. *)
LEMMA RunChange ==
  ASSUME Inv, NEW j, NEW a, Runs(j, a), JobFrame, memory' = memory, a \notin {"createlog", "minted", "log"},
         NEW d, tables' = d, Shape(d), RowsRun(j, tables, d), ListsRun(j, tables, d), SameConfig(tables, d)
  PROVE  Inv'
<1>1. memory.mints = {} /\ memory.simpleInserts = {} /\ Now = tables
  BY Alone
<1>2. Now' = d
  BY <1>1, IntoNothing DEF Now
<1>3. MemoryInv'
  BY MemoryKept
<1>4. CollectedOnce(memory.simpleInserts, memory.mints)'
  BY <1>1 DEF CollectedOnce, SimpleOnce, MintedOnce
<1> QED BY <1>1, <1>2, <1>3, <1>4, RunJob DEF Inv, ShapesInv

(* A job that changes rows of one field. *)
LEMMA FieldJob ==
  ASSUME Inv, NEW j, NEW a, Runs(j, a), JobFrame, memory' = memory,
         NEW k \in Followed, k \notin {"auctions", "ends"} \cup Configs, a \in CallbacksOf(k),
         a \notin {"createlog", "minted", "transfer", "claim"},
         NEW f \in Fields, f = FieldOf(k), NEW d, tables' = d, Shape(d),
         \A g \in Fields : g # f => d[g] = tables[g], RowsTurn(j, k, tables, d),
         \A l \in Followed : l # k /\ FieldOf(l) = FieldOf(k) =>
           \A x \in KeysOf(l) : Cell(d, l, x) = Cell(tables, l, x)
  PROVE  Inv'
<1> DEFINE t == tables
<1>0. j.callback = a
  BY DEF Runs
<1>1. RowsRun(j, t, d)
  BY <1>0, FieldRun
<1>2. f \notin {"market", "tools", "simpleVersion", "assetConfig", "transfers", "simpleTransfers", "logs"}
  BY DEF FieldOf, Rows, Followed, DataKinds, Created, Written, Configs
<1>3. /\ SameConfig(t, d)
      /\ d.transfers = t.transfers /\ d.simpleTransfers = t.simpleTransfers /\ d.logs = t.logs
  BY <1>2 DEF SameConfig, Fields
<1>4. a \notin {"stored", "log"}
  BY DEF CallbacksOf, Followed, DataKinds, Created, Written, Configs, Rows,
       SaleUpdates, AuctionUpdates, BuyofferUpdates, TemplateBuyofferUpdates, LinkUpdates,
       SimpleUpdates, AssetUpdates
<1>5. ListsRun(j, t, d)
  BY <1>0, <1>3, <1>4, NoListsRun DEF Inv, ShapesInv, Shape
<1> QED BY <1>1, <1>3, <1>4, <1>5, RunChange

(* A job that changes one row of a plain kind. *)
LEMMA PlainJob ==
  ASSUME Inv, NEW j, NEW a, Runs(j, a), JobFrame, memory' = memory,
         NEW k \in PlainKinds, a \in CallbacksOf(k), a # "minted", NEW i, Named(k, j) = {i},
         NEW r, tables' = PutRow(tables, k, i, r), Turns(j, k, tables[k][i], r)
  PROVE  Inv'
<1> DEFINE d == PutRow(tables, k, i, r)
<1>1. /\ k \in Followed /\ FieldOf(k) = k /\ k \in IdTables /\ k \in Fields /\ KeysOf(k) = Ids
      /\ k \notin {"auctions", "ends"} /\ \A l \in Followed : FieldOf(l) = k => l = k
  BY PlainKind
<1>2. /\ Shape(d) /\ d[k] = [x \in Ids |-> IF x = i THEN r ELSE tables[k][x]]
      /\ \A g \in Fields : g # k => d[g] = tables[g]
  BY <1>1, PutRowShape DEF Inv, ShapesInv
<1> HIDE DEF d
<1>3. RowsTurn(j, k, tables, d)
  <2>1. \A x \in Ids : Cell(d, k, x) = d[k][x] /\ Cell(tables, k, x) = tables[k][x]
    BY PlainKind
  <2> QED BY <1>1, <1>2, <2>1 DEF RowsTurn
<1>4. k \notin Configs /\ a \notin {"createlog", "transfer", "claim"}
  BY DEF PlainKinds, CallbacksOf, Configs, SaleUpdates, BuyofferUpdates, TemplateBuyofferUpdates,
         LinkUpdates, AssetUpdates
<1>5. tables' = d
  BY DEF d
<1>6. \A l \in Followed : l # k /\ FieldOf(l) = FieldOf(k) =>
        \A x \in KeysOf(l) : Cell(d, l, x) = Cell(tables, l, x)
  BY <1>1
<1> QED BY <1>1, <1>2, <1>3, <1>4, <1>5, <1>6, FieldJob

----------------------------------------
(* Jobs of sales and buyoffers *)

(* Every job of a sale. *)
LEMMA SaleJobs ==
  ASSUME Inv, NEW j, LogNewSale(j) \/ LogSaleStart(j) \/ CancelSale(j) \/ PurchaseSale(j)
  PROVE  Inv'
<1> DEFINE i == j.trace.id
           u == tables.sales[i]
<1>0. Shape(tables)
  BY DEF Inv, ShapesInv
<1>1. ASSUME NEW a \in {"lognewsale"} \cup SaleUpdates, NEW r, Change(j, a, [tables EXCEPT !.sales[i] = r]),
             SaleFits(j, u) => r = SaleMade(j, u)
      PROVE  Inv'
  <2>1. Runs(j, a) /\ JobFrame /\ memory' = memory /\ tables' = PutRow(tables, "sales", i, r)
    BY <1>0, <1>1, RowPut DEF Change
  <2>2. a \in CallbacksOf("sales") /\ a # "minted" /\ "sales" \in PlainKinds
    BY DEF CallbacksOf, SaleUpdates, PlainKinds, Configs
  <2>3. Named("sales", j) = {i} /\ Turns(j, "sales", u, r)
    BY <1>1 DEF Named, Configs, Turns, Fits, Made
  <2> QED BY <2>1, <2>2, <2>3, PlainJob
<1>2. ASSUME LogNewSale(j) PROVE Inv'
  <2>1. j.callback = "lognewsale"
    BY <1>2 DEF LogNewSale, Change, Runs
  <2>2. NewSaleRow(j.trace.pair) = SaleMade(j, u)
    BY <2>1 DEF SaleMade
  <2>3. Change(j, "lognewsale", [tables EXCEPT !.sales[i] = NewSaleRow(j.trace.pair)])
    BY <1>2 DEF LogNewSale, NewSaleRow
  <2> QED BY <2>2, <2>3, <1>1
<1>3. ASSUME LogSaleStart(j) PROVE Inv'
  <2> DEFINE r == [u EXCEPT !.state = "LISTED", !.offer_id = j.trace.offer_id]
  <2>1. j.callback = "logsalestart"
    BY <1>3 DEF LogSaleStart, Change, Runs
  <2>2. r = SaleMade(j, u)
    BY <2>1 DEF SaleMade
  <2>3. [tables EXCEPT !.sales[i].state = "LISTED", !.sales[i].offer_id = j.trace.offer_id]
          = [tables EXCEPT !.sales[i] = r]
    <3> DEFINE o == j.trace.offer_id
               v == [u EXCEPT !.state = "LISTED"]
               w == [v EXCEPT !.offer_id = o]
               e == PutRow(tables, "sales", i, v)
               q == [e.sales[i] EXCEPT !.offer_id = o]
               d == [tables EXCEPT !.sales[i].state = "LISTED"]
    <3>1. d = e
      BY <1>0, RowPut
    <3>2. "sales" \in IdTables /\ "sales" \in Fields
      BY DEF IdTables, Fields
    <3>3. Shape(e) /\ e.sales = [x \in Ids |-> IF x = i THEN v ELSE tables.sales[x]]
      BY <1>0, <3>2, PutRowShape
    <3>4. [tables EXCEPT !.sales[i].state = "LISTED", !.sales[i].offer_id = o]
            = [d EXCEPT !.sales[i].offer_id = o]
      OBVIOUS
    <3>5. w = r OBVIOUS
    <3>6. [tables EXCEPT !.sales[i] = r] = PutRow(tables, "sales", i, r)
      BY <1>0, RowPut
    <3> HIDE DEF d
    <3>7. PutRow(e, "sales", i, q) = PutRow(tables, "sales", i, w)
      <4>1. [x \in Ids |-> IF x = i THEN q ELSE e.sales[x]] = [x \in Ids |-> IF x = i THEN w ELSE tables.sales[x]]
        BY Zenon, <3>3
      <4> QED BY Zenon, <4>1 DEF PutRow, Put
    <3> HIDE DEF e
    <3>8. [e EXCEPT !.sales[i].offer_id = o] = [e EXCEPT !.sales[i] = q]
      OBVIOUS
    <3> HIDE DEF q
    <3>9. [e EXCEPT !.sales[i] = q] = PutRow(e, "sales", i, q)
      BY <3>3, RowPut
    <3> HIDE DEF w, r
    <3> QED BY <3>1, <3>4, <3>5, <3>6, <3>7, <3>8, <3>9
  <2>4. Change(j, "logsalestart", [tables EXCEPT !.sales[i] = r])
    BY <1>3, <2>3 DEF LogSaleStart
  <2> QED BY <2>2, <2>4, <1>1 DEF SaleUpdates
<1>4. ASSUME CancelSale(j) PROVE Inv'
  <2> DEFINE r == [u EXCEPT !.state = "CANCELED"]
  <2>1. j.callback = "cancelsale"
    BY <1>4 DEF CancelSale, Change, Runs
  <2>2. r = SaleMade(j, u)
    BY <2>1 DEF SaleMade
  <2>4. Change(j, "cancelsale", [tables EXCEPT !.sales[i] = r])
    BY <1>4 DEF CancelSale
  <2> QED BY <2>2, <2>4, <1>1 DEF SaleUpdates
<1>5. ASSUME PurchaseSale(j) PROVE Inv'
  <2> DEFINE r == [u EXCEPT !.state = "SOLD", !.buyer = j.trace.buyer,
              !.final_price = IF j.trace.median THEN "by median" ELSE "listing price"]
  <2>1. j.callback = "purchasesale"
    BY <1>5 DEF PurchaseSale, Change, Runs
  <2>2. r = SaleMade(j, u)
    BY <2>1 DEF SaleMade
  <2>4. Change(j, "purchasesale", [tables EXCEPT !.sales[i] = r])
    BY <1>5 DEF PurchaseSale
  <2> QED BY <2>2, <2>4, <1>1 DEF SaleUpdates
<1> QED BY <1>2, <1>3, <1>4, <1>5

(* A job that touches no row. *)
LEMMA IdleJob ==
  ASSUME Inv, NEW j, NEW a, Runs(j, a), JobFrame, memory' = memory, tables' = tables,
         a \notin {"createlog", "minted", "stored", "transfer", "claim", "log"},
         \A k \in Followed : \A x \in KeysOf(k) : ~ Touches(j, k, x)
  PROVE  Inv'
<1> DEFINE d == tables
<1>1. j.callback = a /\ Shape(d) /\ d.logs \in Nat
  BY DEF Runs, Inv, ShapesInv, Shape
<1>2. RowsRun(j, tables, d)
  BY DEF RowsRun
<1>3. ListsRun(j, tables, d)
  BY <1>1, NoListsRun
<1>4. SameConfig(tables, d)
  BY DEF SameConfig
<1>5. tables' = d OBVIOUS
<1> HIDE DEF d
<1> QED BY <1>1, <1>2, <1>3, <1>4, <1>5, RunChange

(* Every job of a buyoffer; an unauthorized one does nothing. *)
LEMMA BuyofferJobs ==
  ASSUME Inv, NEW j, \/ LogNewBuyoffer(j)
                     \/ CloseBuyoffer(j, "cancelbuyo", "CANCELED")
                     \/ CloseBuyoffer(j, "acceptbuyo", "ACCEPTED")
                     \/ CloseBuyoffer(j, "declinebuyo", "DECLINED")
  PROVE  Inv'
<1> DEFINE i == j.trace.id
           u == tables.buyoffers[i]
<1>0. Shape(tables)
  BY DEF Inv, ShapesInv
<1>1. ASSUME NEW a \in {"lognewbuyo"} \cup BuyofferUpdates, NEW r, Change(j, a, [tables EXCEPT !.buyoffers[i] = r]),
             a = "lognewbuyo" => j.trace.authorized, BuyofferFits(j, u) => r = BuyofferMade(j, u)
      PROVE  Inv'
  <2>1. Runs(j, a) /\ JobFrame /\ memory' = memory /\ tables' = PutRow(tables, "buyoffers", i, r)
    BY <1>0, <1>1, RowPut DEF Change
  <2>2. a \in CallbacksOf("buyoffers") /\ a # "minted" /\ "buyoffers" \in PlainKinds
    BY DEF CallbacksOf, BuyofferUpdates, PlainKinds, Configs
  <2>3. j.callback = a
    BY <2>1 DEF Runs
  <2>4. Named("buyoffers", j) = {i}
    BY <1>1, <2>3 DEF Named, Configs, Creates, BuyofferUpdates
  <2>5. Turns(j, "buyoffers", u, r)
    BY <1>1 DEF Configs, Turns, Fits, Made
  <2> QED BY <2>1, <2>2, <2>4, <2>5, PlainJob
<1>2. ASSUME NEW a, NEW s, CloseBuyoffer(j, a, s),
             <<a, s>> \in {<<"cancelbuyo", "CANCELED">>, <<"acceptbuyo", "ACCEPTED">>, <<"declinebuyo", "DECLINED">>}
      PROVE  Inv'
  <2> DEFINE r == [u EXCEPT !.state = s]
  <2>1. j.callback = a
    BY <1>2 DEF CloseBuyoffer, Change, Runs
  <2>2. BuyofferFits(j, u) => r = BuyofferMade(j, u)
    BY <1>2, <2>1 DEF BuyofferFits, BuyofferMade
  <2>3. Change(j, a, [tables EXCEPT !.buyoffers[i] = r])
    BY <1>2 DEF CloseBuyoffer
  <2>4. a \in BuyofferUpdates /\ a # "lognewbuyo"
    BY <1>2 DEF BuyofferUpdates
  <2> QED BY <2>2, <2>3, <2>4, <1>1
<1>3. ASSUME LogNewBuyoffer(j), j.trace.authorized PROVE Inv'
  <2> DEFINE r == [state |-> "PENDING"]
  <2>1. j.callback = "lognewbuyo"
    BY <1>3 DEF LogNewBuyoffer, Change, Runs
  <2>2. r = BuyofferMade(j, u)
    BY <2>1 DEF BuyofferMade
  <2>3. Change(j, "lognewbuyo", [tables EXCEPT !.buyoffers[i] = r])
    BY <1>3 DEF LogNewBuyoffer
  <2> QED BY <1>3, <2>2, <2>3, <1>1
<1>4. ASSUME LogNewBuyoffer(j), ~ j.trace.authorized PROVE Inv'
  <2>1. /\ Runs(j, "lognewbuyo") /\ JobFrame /\ memory' = memory /\ tables' = tables
        /\ j.callback = "lognewbuyo"
    BY <1>4 DEF LogNewBuyoffer, Change, Runs
  <2>2. ASSUME NEW k \in Followed, "lognewbuyo" \in CallbacksOf(k) PROVE k = "buyoffers"
    BY <2>2, KindOfCallback DEF KindOf, SaleUpdates, AuctionUpdates, BuyofferUpdates,
            TemplateBuyofferUpdates, LinkUpdates, SimpleUpdates, AssetUpdates
  <2>3. Named("buyoffers", j) = {}
    BY <1>4, <2>1 DEF Named, Configs, Creates
  <2>4. \A k \in Followed : \A x \in KeysOf(k) : ~ Touches(j, k, x)
    BY <2>1, <2>2, <2>3 DEF Touches
  <2> QED BY <2>1, <2>4, IdleJob
<1> QED BY <1>2, <1>3, <1>4

(* Every job of a template buyoffer. *)
LEMMA TemplateBuyofferJobs ==
  ASSUME Inv, NEW j, LogNewTemplateBuyoffer(j) \/ CancelTemplateBuyoffer(j) \/ FulfillTemplateBuyoffer(j)
  PROVE  Inv'
<1> DEFINE i == j.trace.id
           u == tables.templateBuyoffers[i]
<1>0. Shape(tables)
  BY DEF Inv, ShapesInv
<1>1. ASSUME NEW a \in {"lognewtbuyo"} \cup TemplateBuyofferUpdates, NEW r,
             Change(j, a, [tables EXCEPT !.templateBuyoffers[i] = r]),
             a = "lognewtbuyo" => j.trace.authorized, TemplateBuyofferFits(j, u) => r = TemplateBuyofferMade(j, u)
      PROVE  Inv'
  <2>1. Runs(j, a) /\ JobFrame /\ memory' = memory /\ tables' = PutRow(tables, "templateBuyoffers", i, r)
    BY <1>0, <1>1, RowPut DEF Change
  <2>2. a \in CallbacksOf("templateBuyoffers") /\ a # "minted" /\ "templateBuyoffers" \in PlainKinds
    BY DEF CallbacksOf, TemplateBuyofferUpdates, PlainKinds, Configs
  <2>3. j.callback = a
    BY <2>1 DEF Runs
  <2>4. Named("templateBuyoffers", j) = {i}
    BY <1>1, <2>3 DEF Named, Configs, Creates, TemplateBuyofferUpdates
  <2>5. Turns(j, "templateBuyoffers", u, r)
    BY <1>1 DEF Configs, Turns, Fits, Made
  <2> QED BY <2>1, <2>2, <2>4, <2>5, PlainJob
<1>2. ASSUME CancelTemplateBuyoffer(j) PROVE Inv'
  <2> DEFINE r == [u EXCEPT !.state = "CANCELED"]
  <2>1. j.callback = "canceltbuyo"
    BY <1>2 DEF CancelTemplateBuyoffer, Change, Runs
  <2>2. TemplateBuyofferFits(j, u) => r = TemplateBuyofferMade(j, u)
    BY <2>1 DEF TemplateBuyofferFits, TemplateBuyofferMade
  <2>3. Change(j, "canceltbuyo", [tables EXCEPT !.templateBuyoffers[i] = r])
    BY <1>2 DEF CancelTemplateBuyoffer
  <2> QED BY <2>2, <2>3, <1>1 DEF TemplateBuyofferUpdates
<1>3. ASSUME FulfillTemplateBuyoffer(j) PROVE Inv'
  <2> DEFINE r == [state |-> "SOLD", seller |-> j.trace.seller]
  <2>1. j.callback = "fulfilltbuyo"
    BY <1>3 DEF FulfillTemplateBuyoffer, Change, Runs
  <2>2. r = TemplateBuyofferMade(j, u)
    BY <2>1 DEF TemplateBuyofferMade
  <2>3. Change(j, "fulfilltbuyo", [tables EXCEPT !.templateBuyoffers[i] = r])
    BY <1>3 DEF FulfillTemplateBuyoffer
  <2> QED BY <2>2, <2>3, <1>1 DEF TemplateBuyofferUpdates
<1>4. ASSUME LogNewTemplateBuyoffer(j), j.trace.authorized PROVE Inv'
  <2> DEFINE r == [state |-> "LISTED", seller |-> Nobody]
  <2>1. j.callback = "lognewtbuyo"
    BY <1>4 DEF LogNewTemplateBuyoffer, Change, Runs
  <2>2. r = TemplateBuyofferMade(j, u)
    BY <2>1 DEF TemplateBuyofferMade
  <2>3. Change(j, "lognewtbuyo", [tables EXCEPT !.templateBuyoffers[i] = r])
    BY <1>4 DEF LogNewTemplateBuyoffer
  <2> QED BY <1>4, <2>2, <2>3, <1>1
<1>5. ASSUME LogNewTemplateBuyoffer(j), ~ j.trace.authorized PROVE Inv'
  <2>1. /\ Runs(j, "lognewtbuyo") /\ JobFrame /\ memory' = memory /\ tables' = tables
        /\ j.callback = "lognewtbuyo"
    BY <1>5 DEF LogNewTemplateBuyoffer, Change, Runs
  <2>2. ASSUME NEW k \in Followed, "lognewtbuyo" \in CallbacksOf(k) PROVE k = "templateBuyoffers"
    BY <2>2, KindOfCallback DEF KindOf, SaleUpdates, AuctionUpdates, BuyofferUpdates,
            TemplateBuyofferUpdates, LinkUpdates, SimpleUpdates, AssetUpdates
  <2>3. Named("templateBuyoffers", j) = {}
    BY <1>5, <2>1 DEF Named, Configs, Creates
  <2>4. \A k \in Followed : \A x \in KeysOf(k) : ~ Touches(j, k, x)
    BY <2>1, <2>2, <2>3 DEF Touches
  <2> QED BY <2>1, <2>4, IdleJob
<1> QED BY <1>2, <1>3, <1>4, <1>5

----------------------------------------
(* Jobs of auctions and links *)

(* A job fits the row it is about. *)
LEMMA JobFits ==
  ASSUME Inv, NEW j, NEW a, Runs(j, a), NEW k \in Followed, NEW x \in KeysOf(k), Touches(j, k, x)
  PROVE  Fits(j, k, Cell(Now, k, x))
<1>1. executing /\ IsNext(j)
  BY DEF Runs
<1>2. IsNextIn(j, queue)
  BY <1>1 DEF IsNextIn, IsNext
<1>3. JobsOK(queue, started.traces) /\ Rests(Collected, queue, chain)
  BY <1>1 DEF Inv, ReaderInv, RestsInv
<1>4. Collected = Now
  BY CollectedNow DEF Inv, ShapesInv, Shape, Collected, Now
<1>5. Follows(k, x, Now, queue, chain)
  BY <1>3, <1>4 DEF Rests
<1> QED BY <1>2, <1>3, <1>5, FollowsFits

(* A job of an auction changes its end, or the rest. *)
LEMMA AuctionJob ==
  ASSUME Inv, NEW j, NEW a \in {"lognewauct", "auctions"} \cup AuctionUpdates, NEW i, i = j.trace.id,
         NEW r, Change(j, a, [tables EXCEPT !.auctions[i] = r]), NEW u, u = tables.auctions[i],
         i \in Ids =>
           /\ AuctionShape(r)
           /\ IF a = "auctions" THEN Base(r) = Base(u) ELSE Turns(j, "auctions", Base(u), Base(r))
           /\ IF a \in {"lognewauct", "auctions"} THEN Turns(j, "ends", EndOf(u), EndOf(r)) ELSE EndOf(r) = EndOf(u)
  PROVE  Inv'
<1> DEFINE t == tables
           d == PutRow(t, "auctions", i, r)
           e == [x \in Ids |-> IF x = i THEN r ELSE t.auctions[x]]
<1>0. Shape(t)
  BY DEF Inv, ShapesInv
<1>1. Runs(j, a) /\ JobFrame /\ memory' = memory /\ tables' = d /\ j.callback = a
  BY <1>0, RowPut DEF Change, Runs
<1>2. /\ "auctions" \in IdTables /\ "auctions" \in Fields
      /\ a \notin {"createlog", "minted", "stored", "transfer", "claim", "log"}
      /\ a \in CallbacksOf("auctions") <=> a # "auctions"
      /\ a \in CallbacksOf("ends") <=> a \in {"lognewauct", "auctions"}
      /\ Named("auctions", j) = {i} /\ Named("ends", j) = {i}
      /\ KeysOf("auctions") = Ids /\ KeysOf("ends") = Ids
  BY DEF IdTables, Fields, AuctionUpdates, CallbacksOf, Configs, Named, KeysOf
<1>3. ASSUME NEW l \in Followed, NEW x, l \notin {"auctions", "ends"}
      PROVE  ~ Touches(j, l, x) /\ FieldOf(l) # "auctions"
  <2>1. ~ Touches(j, l, x)
    <3>1. a \in CallbacksOf("auctions") \/ a \in CallbacksOf("ends")
      BY <1>2
    <3>2. "auctions" \in Followed /\ "ends" \in Followed
      BY DEF Followed, DataKinds, Created
    <3> QED BY <1>1, <1>3, <3>1, <3>2, OtherKinds
  <2> QED BY <1>3, <2>1 DEF FieldOf, Rows
<1>4. CASE i \notin Ids
  <2>1. e = t.auctions /\ IsMap(t, Fields)
    BY <1>0, <1>4 DEF Shape, IsMap, IdTables
  <2>2. d = t
    BY <2>1 DEF PutRow, Put, IsMap
  <2>3. \A k \in Followed : \A x \in KeysOf(k) : ~ Touches(j, k, x)
    BY <1>2, <1>3, <1>4 DEF Touches
  <2> QED BY <1>1, <1>2, <2>2, <2>3, IdleJob
<1>5. CASE i \in Ids
  <2>1. Shape(d) /\ d.auctions = e /\ \A g \in Fields : g # "auctions" => d[g] = t[g]
    BY <1>0, <1>2, <1>5, PutRowShape
  <2> HIDE DEF d
  <2>2. \A x \in Ids : /\ Cell(t, "auctions", x) = Base(t.auctions[x])
                       /\ Cell(d, "auctions", x) = IF x = i THEN Base(r) ELSE Base(t.auctions[x])
                       /\ Cell(t, "ends", x) = EndOf(t.auctions[x])
                       /\ Cell(d, "ends", x) = IF x = i THEN EndOf(r) ELSE EndOf(t.auctions[x])
    <3>1. \A y, x : Cell(y, "auctions", x) = Base(y.auctions[x]) /\ Cell(y, "ends", x) = EndOf(y.auctions[x])
      BY DEF Cell, Rows, Configs
    <3> QED BY <2>1, <3>1
  <2>3. RowsRun(j, t, d)
    <3> SUFFICES ASSUME NEW l \in Followed, NEW x \in KeysOf(l),
                        Fits(j, l, Cell(t, l, x)) \/ ~ Touches(j, l, x)
                 PROVE  Cell(d, l, x) = IF Touches(j, l, x) THEN Made(j, l, Cell(t, l, x)) ELSE Cell(t, l, x)
      BY DEF RowsRun
    <3>1. CASE l \notin {"auctions", "ends"}
      BY <1>2, <1>3, <2>1, <3>1, OtherFields
    <3>2. CASE l = "auctions"
      <4>1. Touches(j, l, x) <=> a # "auctions" /\ x = i
        BY <1>1, <1>2, <3>2 DEF Touches
      <4> QED BY <1>2, <1>5, <2>2, <3>2, <4>1 DEF Turns
    <3>3. CASE l = "ends"
      <4>1. Touches(j, l, x) <=> a \in {"lognewauct", "auctions"} /\ x = i
        BY <1>1, <1>2, <3>3 DEF Touches
      <4> QED BY <1>2, <1>5, <2>2, <3>3, <4>1 DEF Turns
    <3> QED BY <3>1, <3>2, <3>3
  <2>4. SameConfig(t, d) /\ d.transfers = t.transfers /\ d.simpleTransfers = t.simpleTransfers /\ d.logs = t.logs
    BY <2>1 DEF SameConfig, Fields
  <2>5. ListsRun(j, t, d)
    BY <1>0, <1>1, <1>2, <2>4, NoListsRun DEF Shape
  <2> QED BY <1>1, <1>2, <2>1, <2>3, <2>4, <2>5, RunChange
<1> QED BY <1>4, <1>5

(* An update finds its auction. *)
LEMMA AuctionExists ==
  ASSUME Inv, NEW j, NEW a \in AuctionUpdates, Runs(j, a), j.trace.id \in Ids
  PROVE  LET u == tables.auctions[j.trace.id]
         IN  u # NoRow /\ AuctionShape(u)
<1> DEFINE i == j.trace.id
           u == tables.auctions[i]
<1>1. Now = tables
  BY Alone DEF AuctionUpdates
<1>2. "auctions" \in Followed /\ KeysOf("auctions") = Ids /\ Named("auctions", j) = {i}
      /\ j.callback \in CallbacksOf("auctions") /\ j.callback # "lognewauct"
  BY DEF Followed, DataKinds, Created, KeysOf, Configs, Named, CallbacksOf, AuctionUpdates, Runs
<1>3. Fits(j, "auctions", Cell(tables, "auctions", i))
  BY <1>1, <1>2, JobFits DEF Touches
<1>4. Cell(tables, "auctions", i) = Base(u)
  BY DEF Cell, Rows, Configs
<1>5. Base(u) # NoRow
  BY <1>2, <1>3, <1>4 DEF Fits, AuctionFits, Configs
<1> QED BY <1>5 DEF Base, Inv, ShapesInv, Shape

(* The row of the contract brings the end of the auction only. *)
LEMMA AuctionEnded ==
  ASSUME NEW row, AuctionShape(row), row # NoRow, NEW v
  PROVE  LET r == [row EXCEPT !.end_time = v]
         IN  /\ AuctionShape(r) /\ r # NoRow /\ Base(r) = Base(row)
             /\ EndOf(r) = [state |-> "row", end_time |-> v]
<1> DEFINE s == row.state  b == row.buyer  bids == row.bids  end == row.end_time
           cb == row.claimed_by_buyer  cs == row.claimed_by_seller
<1>1. row = AuctionOf(s, b, bids, end, cb, cs)
  BY AuctionIs
<1> HIDE DEF s, b, bids, end, cb, cs
<1>2. [row EXCEPT !.end_time = v] = AuctionOf(s, b, bids, v, cb, cs)
  BY <1>1, SetEnd
<1>3. /\ Base(row) = AuctionOf(s, b, bids, 0, cb, cs)
      /\ Base(AuctionOf(s, b, bids, v, cb, cs)) = AuctionOf(s, b, bids, 0, cb, cs)
  BY <1>1, AuctionFields
<1>4. LET r == AuctionOf(s, b, bids, v, cb, cs)
      IN  AuctionShape(r) /\ r # NoRow /\ EndOf(r) = [state |-> "row", end_time |-> v]
  BY AuctionFields
<1> QED BY <1>2, <1>3, <1>4

(* Every job of an auction. *)
LEMMA AuctionJobs ==
  ASSUME Inv, NEW j, \/ LogNewAuction(j) \/ AuctionsRow(j) \/ LogAuctionStart(j) \/ CancelAuction(j)
                     \/ AuctionBid(j) \/ AuctionClaimBuyer(j) \/ AuctionClaimSeller(j)
  PROVE  Inv'
<1> DEFINE i == j.trace.id
           u == tables.auctions[i]
<1>0. \A x \in Ids : AuctionShape(tables.auctions[x])
  BY DEF Inv, ShapesInv, Shape
<1>1. ASSUME NEW a \in AuctionUpdates, NEW r, Change(j, a, [tables EXCEPT !.auctions[i] = r]),
             AuctionShape(u) /\ u # NoRow => 
               /\ AuctionShape(r) /\ Base(r) = AuctionMade(j, Base(u)) /\ EndOf(r) = EndOf(u)
      PROVE  Inv'
  <2>1. Runs(j, a) /\ a \notin {"lognewauct", "auctions"}
    BY <1>1 DEF Change, AuctionUpdates
  <2>2. i \in Ids => AuctionShape(u) /\ u # NoRow
    BY <2>1, AuctionExists
  <2>3. i \in Ids => AuctionShape(r) /\ Turns(j, "auctions", Base(u), Base(r)) /\ EndOf(r) = EndOf(u)
    BY <1>1, <2>2 DEF Turns, Made, Configs
  <2> QED BY <1>1, <2>1, <2>3, AuctionJob
<1>2. ASSUME LogNewAuction(j) PROVE Inv'
  <2> DEFINE r == NewAuctionRow(j.trace.end_time)
  <2>1. Change(j, "lognewauct", [tables EXCEPT !.auctions[i] = r])
    BY <1>2 DEF LogNewAuction, NewAuctionRow
  <2>2. j.callback = "lognewauct"
    BY <2>1 DEF Change, Runs
  <2>3. AuctionShape(r) /\ r # NoRow
    BY Zenon DEF AuctionShape, NewAuctionRow, NoRow
  <2>4. Turns(j, "auctions", Base(u), Base(r))
    <3>1. Made(j, "auctions", Base(u)) = NewAuctionRow(0)
      BY <2>2 DEF Made, AuctionMade, Configs
    <3>2. Base(r) = NewAuctionRow(0)
      BY <2>3 DEF Base, NewAuctionRow
    <3> QED BY <3>1, <3>2 DEF Turns
  <2>5. Turns(j, "ends", EndOf(u), EndOf(r))
    BY <2>2, <2>3 DEF Turns, Fits, Made, EndFits, EndMade, EndOf, NewAuctionRow, Configs
  <2> HIDE DEF r
  <2> QED BY <2>1, <2>3, <2>4, <2>5, AuctionJob
<1>3. ASSUME AuctionsRow(j) PROVE Inv'
  <2> DEFINE r == [u EXCEPT !.end_time = j.trace.end_time]
  <2>1. Change(j, "auctions", [tables EXCEPT !.auctions[i] = r])
    BY <1>3 DEF AuctionsRow
  <2>2. j.callback = "auctions"
    BY <2>1 DEF Change, Runs
  <2>3. CASE u = NoRow
    <3>1. r = NoRow
      BY Zenon, <2>3 DEF NoRow
    <3>2. AuctionShape(r) /\ Base(r) = Base(u) /\ EndOf(u) = NoRow
      BY <2>3, <3>1 DEF AuctionShape, EndOf
    <3>3. Turns(j, "ends", EndOf(u), EndOf(r))
      BY <2>2, <3>2 DEF Turns, Fits, EndFits, Configs
    <3> HIDE DEF r
    <3> QED BY <2>1, <3>2, <3>3, AuctionJob
  <2>4. CASE u # NoRow /\ AuctionShape(u)
    <3>1. /\ AuctionShape(r) /\ r # NoRow /\ Base(r) = Base(u)
          /\ EndOf(r) = [state |-> "row", end_time |-> j.trace.end_time]
      BY <2>4, AuctionEnded
    <3>2. Turns(j, "ends", EndOf(u), EndOf(r))
      BY <3>1 DEF Turns, Made, EndMade, Configs
    <3> HIDE DEF r
    <3> QED BY <2>1, <3>1, <3>2, AuctionJob
  <2>5. CASE i \notin Ids
    <3> HIDE DEF r
    <3> QED BY <2>1, <2>5, AuctionJob
  <2> QED BY <1>0, <2>3, <2>4, <2>5
<1>4. ASSUME LogAuctionStart(j) PROVE Inv'
  <2> DEFINE r == [u EXCEPT !.state = "LISTED"]
  <2>1. Change(j, "logauctstart", [tables EXCEPT !.auctions[i] = r])
    BY <1>4 DEF LogAuctionStart
  <2>2. j.callback = "logauctstart"
    BY <2>1 DEF Change, Runs
  <2>3. AuctionShape(u) /\ u # NoRow =>
               AuctionShape(r) /\ Base(r) = AuctionMade(j, Base(u)) /\ EndOf(r) = EndOf(u)
    BY <2>2, AuctionUpdated DEF Updated, AuctionMade
  <2> HIDE DEF r
  <2> QED BY <1>1, <2>1, <2>3 DEF AuctionUpdates
<1>5. ASSUME CancelAuction(j) PROVE Inv'
  <2> DEFINE r == [u EXCEPT !.state = "CANCELED"]
  <2>1. Change(j, "cancelauct", [tables EXCEPT !.auctions[i] = r])
    BY <1>5 DEF CancelAuction
  <2>2. j.callback = "cancelauct"
    BY <2>1 DEF Change, Runs
  <2>3. AuctionShape(u) /\ u # NoRow =>
               AuctionShape(r) /\ Base(r) = AuctionMade(j, Base(u)) /\ EndOf(r) = EndOf(u)
    BY <2>2, AuctionUpdated DEF Updated, AuctionMade
  <2> HIDE DEF r
  <2> QED BY <1>1, <2>1, <2>3 DEF AuctionUpdates
<1>6. ASSUME AuctionBid(j) PROVE Inv'
  <2> DEFINE v == j.trace.bidder
             r == [u EXCEPT !.buyer = v, !.bids = Append(@, v)]
  <2>1. Change(j, "auctionbid", [tables EXCEPT !.auctions[i] = r])
    BY <1>6 DEF AuctionBid
  <2>2. j.callback = "auctionbid"
    BY <2>1 DEF Change, Runs
  <2>3. AuctionShape(u) /\ u # NoRow =>
               AuctionShape(r) /\ Base(r) = AuctionMade(j, Base(u)) /\ EndOf(r) = EndOf(u)
    BY Zenon, <2>2, AuctionBidden DEF Updated, AuctionMade
  <2> HIDE DEF r
  <2> QED BY <1>1, <2>1, <2>3 DEF AuctionUpdates
<1>7. ASSUME AuctionClaimBuyer(j) PROVE Inv'
  <2> DEFINE r == [u EXCEPT !.claimed_by_buyer = TRUE]
  <2>1. Change(j, "auctclaimbuy", [tables EXCEPT !.auctions[i] = r])
    BY <1>7 DEF AuctionClaimBuyer
  <2>2. j.callback = "auctclaimbuy"
    BY <2>1 DEF Change, Runs
  <2>3. AuctionShape(u) /\ u # NoRow =>
               AuctionShape(r) /\ Base(r) = AuctionMade(j, Base(u)) /\ EndOf(r) = EndOf(u)
    BY <2>2, AuctionUpdated DEF Updated, AuctionMade
  <2> HIDE DEF r
  <2> QED BY <1>1, <2>1, <2>3 DEF AuctionUpdates
<1>8. ASSUME AuctionClaimSeller(j) PROVE Inv'
  <2> DEFINE r == [u EXCEPT !.claimed_by_seller = TRUE]
  <2>1. Change(j, "auctclaimsel", [tables EXCEPT !.auctions[i] = r])
    BY <1>8 DEF AuctionClaimSeller
  <2>2. j.callback = "auctclaimsel"
    BY <2>1 DEF Change, Runs
  <2>3. AuctionShape(u) /\ u # NoRow =>
               AuctionShape(r) /\ Base(r) = AuctionMade(j, Base(u)) /\ EndOf(r) = EndOf(u)
    BY <2>2, AuctionUpdated DEF Updated, AuctionMade
  <2> HIDE DEF r
  <2> QED BY <1>1, <2>1, <2>3 DEF AuctionUpdates
<1> QED BY <1>2, <1>3, <1>4, <1>5, <1>6, <1>7, <1>8

(* Every job of a link. *)
LEMMA LinkJobs ==
  ASSUME Inv, NEW j, \/ LogNewLink(j) \/ ClaimLink(j)
                     \/ SetLink(j, "loglinkstart", "CREATED") \/ SetLink(j, "cancellink", "CANCELED")
  PROVE  Inv'
<1> DEFINE i == j.trace.id
           u == tables.links[i]
<1>0. Shape(tables)
  BY DEF Inv, ShapesInv
<1>1. ASSUME NEW a \in {"lognewlink"} \cup LinkUpdates, NEW r, Runs(j, a), JobFrame, memory' = memory,
             tables' = [tables EXCEPT !.links[i] = r], LinkFits(j, u) => r = LinkMade(j, u)
      PROVE  Inv'
  <2>1. tables' = PutRow(tables, "links", i, r)
    BY <1>0, <1>1, RowPut
  <2>2. a \in CallbacksOf("links") /\ a # "minted" /\ "links" \in PlainKinds
    BY DEF CallbacksOf, LinkUpdates, PlainKinds, Configs
  <2>3. Named("links", j) = {i} /\ Turns(j, "links", u, r)
    BY <1>1 DEF Named, Configs, Turns, Fits, Made
  <2> QED BY <1>1, <2>1, <2>2, <2>3, PlainJob
<1>2. ASSUME LogNewLink(j) PROVE Inv'
  <2> DEFINE r == [state |-> "WAITING", claimer |-> "null"]
  <2>1. /\ Runs(j, "lognewlink") /\ JobFrame /\ memory' = memory /\ j.callback = "lognewlink"
        /\ tables' = [tables EXCEPT !.links[i] = r]
    BY <1>2 DEF LogNewLink, Runs
  <2>2. r = LinkMade(j, u)
    BY <2>1 DEF LinkMade
  <2> QED BY <2>1, <2>2, <1>1
<1>3. ASSUME ClaimLink(j) PROVE Inv'
  <2> DEFINE r == [state |-> "CLAIMED", claimer |-> j.trace.claimer]
  <2>1. /\ Runs(j, "claimlink") /\ JobFrame /\ memory' = memory /\ j.callback = "claimlink"
        /\ tables' = [tables EXCEPT !.links[i] = r]
    BY <1>3 DEF ClaimLink, Runs
  <2>2. r = LinkMade(j, u)
    BY <2>1 DEF LinkMade
  <2> QED BY <2>1, <2>2, <1>1 DEF LinkUpdates
<1>4. ASSUME NEW a, NEW s, SetLink(j, a, s), <<a, s>> \in {<<"loglinkstart", "CREATED">>, <<"cancellink", "CANCELED">>}
      PROVE  Inv'
  <2> DEFINE r == [u EXCEPT !.state = s]
  <2>1. /\ Runs(j, a) /\ JobFrame /\ memory' = memory /\ j.callback = a
        /\ tables' = [tables EXCEPT !.links[i] = r]
    BY <1>4 DEF SetLink, Runs
  <2>2. r = LinkMade(j, u)
    BY <1>4, <2>1 DEF LinkMade
  <2>3. a \in LinkUpdates
    BY <1>4 DEF LinkUpdates
  <2> QED BY <2>1, <2>2, <2>3, <1>1
<1> QED BY <1>2, <1>3, <1>4

----------------------------------------
(* Jobs of other rows *)

(* Marketplaces, bonus fees and balances. *)
LEMMA RowJobs ==
  ASSUME Inv, NEW j, Marketplace(j) \/ Bonusfee(j) \/ Balance(j)
  PROVE  Inv'
<1> DEFINE i == j.trace.id
<1>1. ASSUME NEW k \in Rows, NEW w, Change(j, k, [tables EXCEPT !.rows[k][i] = w]),
             w = WrittenMade(j, k, NoRow)
      PROVE  Inv'
  <2> DEFINE v == [tables.rows EXCEPT ![k][i] = w]
             f == "rows"
             d == Put(tables, f, v)
  <2>1. Shape(tables) /\ IsMap(tables.rows, Rows) /\ (\A l \in Rows : IsMap(tables.rows[l], Ids)) /\ IsMap(tables, Fields)
    BY DEF Inv, ShapesInv, Shape
  <2>2. /\ IsMap(v, Rows) /\ \A l \in Rows : IsMap(v[l], Ids)
        /\ \A l \in Rows \ {k} : v[l] = tables.rows[l]
        /\ \A x \in Ids : v[k][x] = IF x = i THEN w ELSE tables.rows[k][x]
    BY <2>1 DEF IsMap
  <2>3. [tables EXCEPT !.rows[k][i] = w] = d
    <3>1. [tables EXCEPT !.rows[k][i] = w] = [tables EXCEPT !.rows = v]
      OBVIOUS
    <3> HIDE DEF v
    <3> QED BY <2>1, <3>1, FieldPut
  <2>4. f \in Fields \ IdTables /\ f = FieldOf(k)
    BY DEF Fields, IdTables, FieldOf, Rows
  <2> HIDE DEF v
  <2>5. FieldShape(f, v)
    BY <2>2 DEF FieldShape
  <2>6. Shape(d) /\ d[f] = v /\ \A g \in Fields : g # f => d[g] = tables[g]
    BY <2>1, <2>4, <2>5, PutShape
  <2>7. Runs(j, k) /\ JobFrame /\ memory' = memory /\ tables' = d
    BY <1>1, <2>3 DEF Change
  <2>8. /\ k \in Followed /\ k \notin {"auctions", "ends"} \cup Configs /\ k \in CallbacksOf(k)
        /\ k \notin {"createlog", "minted", "transfer", "claim"} /\ Named(k, j) = {i}
        /\ \A l \in Rows : KeysOf(l) = Ids
    BY DEF Followed, DataKinds, Written, Configs, CallbacksOf, Rows, Named, KeysOf
  <2> HIDE DEF d
  <2>9. \A l \in Rows : \A x : Cell(tables, l, x) = tables.rows[l][x] /\ Cell(d, l, x) = v[l][x]
    <3>1. d.rows = v
      BY <2>6
    <3>2. \A y : \A l \in Rows : \A x : Cell(y, l, x) = y.rows[l][x]
      BY DEF Cell, Rows, Configs
    <3> QED BY <3>1, <3>2
  <2>10. RowsTurn(j, k, tables, d)
    <3>1. \A r : Made(j, k, r) = w
      BY <1>1 DEF Made, WrittenMade, Rows, Configs
    <3> QED BY <2>2, <2>8, <2>9, <3>1 DEF RowsTurn, Turns
  <2>11. \A l \in Followed : l # k /\ FieldOf(l) = FieldOf(k) =>
           \A x \in KeysOf(l) : Cell(d, l, x) = Cell(tables, l, x)
    <3>1. \A l \in Followed : FieldOf(l) = "rows" => l \in Rows
      BY DEF FieldOf, Followed, DataKinds, Created, Written, Configs
    <3> QED BY <2>2, <2>4, <2>9, <3>1
  <2> HIDE DEF f
  <2> QED BY <2>4, <2>6, <2>7, <2>8, <2>10, <2>11, FieldJob
<1>2. ASSUME Marketplace(j) PROVE Inv'
  <2>1. Change(j, "marketplaces", [tables EXCEPT !.rows["marketplaces"][i] = j.trace.value])
    BY <1>2 DEF Marketplace
  <2>2. j.trace.value = WrittenMade(j, "marketplaces", NoRow)
    BY DEF WrittenMade
  <2> QED BY <1>1, <2>1, <2>2 DEF Rows
<1>3. ASSUME Bonusfee(j) PROVE Inv'
  <2>1. Change(j, "bonusfees", [tables EXCEPT !.rows["bonusfees"][i] = j.trace.value])
    BY <1>3 DEF Bonusfee
  <2>2. j.trace.value = WrittenMade(j, "bonusfees", NoRow)
    BY DEF WrittenMade
  <2> QED BY <1>1, <2>1, <2>2 DEF Rows
<1>4. ASSUME Balance(j) PROVE Inv'
  <2>1. Change(j, "balances", [tables EXCEPT !.rows["balances"][i] =
                                 IF j.trace.value = "some" THEN "some" ELSE "none"])
    BY <1>4 DEF Balance
  <2>2. (IF j.trace.value = "some" THEN "some" ELSE "none") = WrittenMade(j, "balances", NoRow)
    BY DEF WrittenMade, SomeOrNone
  <2> QED BY <1>1, <2>1, <2>2 DEF Rows
<1> QED BY <1>2, <1>3, <1>4

(* A job that writes the row of an account. *)
LEMMA AccountJob ==
  ASSUME Inv, NEW j, NEW a, Runs(j, a), JobFrame, memory' = memory,
         NEW k \in {"authors", "assetBalances"}, a \in CallbacksOf(k), NEW x, Named(k, j) = {x},
         NEW w, \A r : Made(j, k, r) = w, NEW u, u = tables[k],
         tables' = Put(tables, k, [u EXCEPT ![x] = w])
  PROVE  Inv'
<1> DEFINE v == [u EXCEPT ![x] = w]
           d == Put(tables, k, v)
<1>1. Shape(tables) /\ IsMap(u, Accounts)
  BY DEF Inv, ShapesInv, Shape
<1>2. IsMap(v, Accounts) /\ \A y \in Accounts : v[y] = IF y = x THEN w ELSE u[y]
  BY <1>1 DEF IsMap
<1> HIDE DEF v
<1>3. /\ k \in Fields /\ k \in Fields \ IdTables /\ k = FieldOf(k) /\ k \in Followed
      /\ k \notin {"auctions", "ends"} \cup Configs /\ KeysOf(k) = Accounts
      /\ a \notin {"createlog", "minted", "transfer", "claim"}
      /\ \A l \in Followed : FieldOf(l) = k => l = k
  BY DEF Fields, IdTables, FieldOf, Rows, Followed, DataKinds, Written, Configs, KeysOf, CallbacksOf
<1>4. FieldShape(k, v)
  BY <1>2 DEF FieldShape
<1>5. Shape(d) /\ d[k] = v /\ \A g \in Fields : g # k => d[g] = tables[g]
  BY <1>1, <1>3, <1>4, PutShape
<1> HIDE DEF d
<1>6. \A y : Cell(tables, k, y) = u[y] /\ Cell(d, k, y) = v[y]
  BY <1>5 DEF Cell, Rows, Configs
<1>7. RowsTurn(j, k, tables, d)
  BY <1>2, <1>3, <1>6 DEF RowsTurn, Turns
<1>8. \A l \in Followed : l # k /\ FieldOf(l) = FieldOf(k) =>
        \A y \in KeysOf(l) : Cell(d, l, y) = Cell(tables, l, y)
  BY <1>3
<1>9. tables' = d
  BY DEF d, v
<1> QED BY <1>3, <1>5, <1>7, <1>8, <1>9, FieldJob

(* Authors and balances. *)
LEMMA AccountJobs ==
  ASSUME Inv, NEW j, Author(j) \/ AssetBalances(j)
  PROVE  Inv'
<1>0. IsMap(tables, Fields)
  BY DEF Inv, ShapesInv, Shape
<1>1. ASSUME Author(j) PROVE Inv'
  <2> DEFINE a == "authors"
             x == j.trace.author
             w == IF j.trace.present THEN j.trace.value ELSE "none"
             k == "authors"
             u == tables.authors
             v == [u EXCEPT ![x] = w]
  <2>1. Runs(j, a) /\ JobFrame /\ memory' = memory /\ tables' = [tables EXCEPT !.authors = v]
    BY <1>1 DEF Author
  <2>2. [tables EXCEPT !.authors = v] = Put(tables, k, v)
    <3> HIDE DEF v
    <3> QED BY <1>0, FieldPut
  <2>3. a \in CallbacksOf(k) /\ Named(k, j) = {x} /\ u = tables[k] /\ k \in {"authors", "assetBalances"}
    BY DEF CallbacksOf, Named, Configs, Rows
  <2>4. \A r : Made(j, k, r) = w
    BY DEF Made, WrittenMade, Configs
  <2>5. tables' = Put(tables, k, [u EXCEPT ![x] = w])
    BY <2>1, <2>2
  <2> HIDE DEF a, x, w, k, u
  <2> QED BY <2>1, <2>3, <2>4, <2>5, AccountJob
<1>2. ASSUME AssetBalances(j) PROVE Inv'
  <2> DEFINE a == "aabalances"
             x == j.trace.owner
             w == IF j.trace.value = "some" THEN "some" ELSE "none"
             k == "assetBalances"
             u == tables.assetBalances
             v == [u EXCEPT ![x] = w]
  <2>1. Runs(j, a) /\ JobFrame /\ memory' = memory /\ tables' = [tables EXCEPT !.assetBalances = v]
    BY <1>2 DEF AssetBalances, AssetsChange
  <2>2. [tables EXCEPT !.assetBalances = v] = Put(tables, k, v)
    <3> HIDE DEF v
    <3> QED BY <1>0, FieldPut
  <2>3. a \in CallbacksOf(k) /\ Named(k, j) = {x} /\ u = tables[k] /\ k \in {"authors", "assetBalances"}
    BY DEF CallbacksOf, Named, Configs, Rows
  <2>4. \A r : Made(j, k, r) = w
    BY DEF Made, WrittenMade, Configs, SomeOrNone
  <2>5. tables' = Put(tables, k, [u EXCEPT ![x] = w])
    BY <2>1, <2>2
  <2> HIDE DEF a, x, w, k, u
  <2> QED BY <2>1, <2>3, <2>4, <2>5, AccountJob
<1> QED BY <1>1, <1>2

(* Collections, schemas and templates. *)
LEMMA DefinitionJobs ==
  ASSUME Inv, NEW j, Collections(j) \/ Schemas(j) \/ Templates(j)
  PROVE  Inv'
<1> DEFINE i == j.trace.id
<1>0. Shape(tables)
  BY DEF Inv, ShapesInv
<1>1. ASSUME NEW k \in {"collections", "schemas"}, NEW r, Runs(j, k), JobFrame, memory' = memory,
             tables' = PutRow(tables, k, i, r), r = WrittenMade(j, k, NoRow)
      PROVE  Inv'
  <2>1. k \in CallbacksOf(k) /\ k # "minted" /\ k \in PlainKinds /\ Named(k, j) = {i}
    BY DEF CallbacksOf, PlainKinds, Configs, Named, Rows
  <2>2. Turns(j, k, tables[k][i], r)
    BY <1>1 DEF Turns, Made, WrittenMade, Configs
  <2> QED BY <1>1, <2>1, <2>2, PlainJob
<1>2. ASSUME Collections(j) PROVE Inv'
  <2>1. /\ Runs(j, "collections") /\ JobFrame /\ memory' = memory
        /\ tables' = PutRow(tables, "collections", i, j.trace.row)
    BY <1>0, <1>2, RowPut DEF Collections, AssetsChange
  <2>2. j.trace.row = WrittenMade(j, "collections", NoRow)
    BY DEF WrittenMade
  <2> QED BY <1>1, <2>1, <2>2
<1>3. ASSUME Schemas(j) PROVE Inv'
  <2>1. /\ Runs(j, "schemas") /\ JobFrame /\ memory' = memory
        /\ tables' = PutRow(tables, "schemas", i, j.trace.format)
    BY <1>0, <1>3, RowPut DEF Schemas, AssetsChange
  <2>2. j.trace.format = WrittenMade(j, "schemas", NoRow)
    BY DEF WrittenMade
  <2> QED BY <1>1, <2>1, <2>2
<1>4. ASSUME Templates(j) PROVE Inv'
  <2> DEFINE k == "templates"
             r == IF j.trace.present THEN j.trace.row ELSE tables.templates[i]
             d == PutRow(tables, k, i, r)
  <2>1. Runs(j, k) /\ JobFrame /\ memory' = memory
        /\ tables' = IF j.trace.present THEN [tables EXCEPT !.templates[i] = j.trace.row] ELSE tables
    BY <1>4 DEF Templates, AssetsChange
  <2>2. /\ k \in IdTables /\ k \in Fields /\ k \in Followed /\ k = FieldOf(k) /\ KeysOf(k) = Ids
        /\ k \notin {"auctions", "ends"} \cup Configs /\ k \in CallbacksOf(k) /\ Named(k, j) = {i}
        /\ k \notin {"createlog", "minted", "transfer", "claim"}
        /\ \A l \in Followed : FieldOf(l) = k => l = k
    BY DEF IdTables, Fields, Followed, DataKinds, Written, FieldOf, Rows, KeysOf, Configs, CallbacksOf, Named
  <2>3. tables' = d
    <3>1. CASE j.trace.present
      BY <1>0, <2>1, <3>1, RowPut
    <3>2. CASE ~ j.trace.present
      <4>1. IsMap(tables, Fields) /\ IsMap(tables.templates, Ids)
        BY <1>0 DEF Shape, IdTables
      <4>2. [x \in Ids |-> IF x = i THEN r ELSE tables.templates[x]] = tables.templates
        BY <3>2, <4>1 DEF IsMap
      <4> HIDE DEF r
      <4> QED BY <2>1, <3>2, <4>1, <4>2 DEF PutRow, Put, IsMap
    <3> QED BY <3>1, <3>2
  <2>4. /\ Shape(d) /\ d[k] = [x \in Ids |-> IF x = i THEN r ELSE tables[k][x]]
        /\ \A g \in Fields : g # k => d[g] = tables[g]
    BY <1>0, <2>2, PutRowShape
  <2> HIDE DEF d
  <2>5. RowsTurn(j, k, tables, d)
    <3>1. \A y, x : Cell(y, k, x) = y.templates[x]
      BY DEF Cell, Rows, Configs
    <3>2. Made(j, k, tables.templates[i]) = r
      BY DEF Made, WrittenMade, Configs
    <3> QED BY <2>2, <2>4, <3>1, <3>2 DEF RowsTurn, Turns
  <2>6. \A l \in Followed : l # k /\ FieldOf(l) = FieldOf(k) =>
          \A x \in KeysOf(l) : Cell(d, l, x) = Cell(tables, l, x)
    BY <2>2
  <2> HIDE DEF k
  <2> QED BY <2>1, <2>2, <2>3, <2>4, <2>5, <2>6, FieldJob
<1> QED BY <1>2, <1>3, <1>4

(* Jobs on assets that exist. *)
LEMMA MintedJobs ==
  ASSUME Inv, NEW j, LogBackAsset(j) \/ LogSetData(j)
  PROVE  Inv'
<1> DEFINE i == j.trace.id
           u == tables.minted[i]
<1>0. Shape(tables)
  BY DEF Inv, ShapesInv
<1>1. ASSUME NEW a \in AssetUpdates, NEW r, Runs(j, a), JobFrame, memory' = memory,
             tables' = [tables EXCEPT !.minted[i] = r], r = MintedMade(j, u)
      PROVE  Inv'
  <2>1. tables' = PutRow(tables, "minted", i, r)
    BY <1>0, <1>1, RowPut
  <2>2. a \in CallbacksOf("minted") /\ a # "minted" /\ "minted" \in PlainKinds
    BY DEF CallbacksOf, AssetUpdates, PlainKinds, Configs
  <2>3. Named("minted", j) = {i} /\ Turns(j, "minted", u, r)
    BY <1>1 DEF Named, Configs, Turns, Fits, Made
  <2> QED BY <1>1, <2>1, <2>2, <2>3, PlainJob
<1>2. ASSUME LogBackAsset(j) PROVE Inv'
  <2> DEFINE r == [u EXCEPT !.backed = @ + j.trace.amount]
  <2>1. /\ Runs(j, "logbackasset") /\ JobFrame /\ memory' = memory /\ j.callback = "logbackasset"
        /\ tables' = [tables EXCEPT !.minted[i] = r]
    BY <1>2 DEF LogBackAsset, AssetsChange, Runs
  <2>2. r = MintedMade(j, u)
    BY <2>1 DEF MintedMade
  <2> QED BY <2>1, <2>2, <1>1 DEF AssetUpdates
<1>3. ASSUME LogSetData(j) PROVE Inv'
  <2> DEFINE r == [u EXCEPT !.mutable_data = j.trace.new_data]
  <2>1. /\ Runs(j, "logsetdata") /\ JobFrame /\ memory' = memory /\ j.callback = "logsetdata"
        /\ tables' = [tables EXCEPT !.minted[i] = r]
    BY <1>3 DEF LogSetData, AssetsChange, Runs
  <2>2. r = MintedMade(j, u)
    BY <2>1 DEF MintedMade
  <2> QED BY <2>1, <2>2, <1>1 DEF AssetUpdates
<1> QED BY <1>2, <1>3

(* A job about no row. *)
LEMMA UntouchedRows ==
  ASSUME NEW j, NEW t, NEW d, NEW f \in Fields, \A g \in Fields : g # f => d[g] = t[g],
         \A k \in Followed : FieldOf(k) # f, \A k \in Followed : \A x : ~ Touches(j, k, x)
  PROVE  RowsRun(j, t, d)
<1> SUFFICES ASSUME NEW l \in Followed, NEW x \in KeysOf(l)
             PROVE  Cell(d, l, x) = IF Touches(j, l, x) THEN Made(j, l, Cell(t, l, x)) ELSE Cell(t, l, x)
  BY DEF RowsRun
<1>1. Cell(d, l, x) = Cell(t, l, x)
  BY OtherFields
<1> QED BY <1>1

(* A transfer is stored. *)
LEMMA TransferJob ==
  ASSUME Inv, NEW j, StoreTransfer(j)
  PROVE  Inv'
<1> DEFINE f == "transfers"
           t == tables
           v == t.transfers \cup {j.trace.transfer}
           d == Put(t, f, v)
<1>0. Shape(t) /\ IsMap(t, Fields) /\ t.logs \in Nat
  BY DEF Inv, ShapesInv, Shape
<1>1. Runs(j, "stored") /\ JobFrame /\ memory' = memory /\ tables' = [t EXCEPT !.transfers = v] /\ j.callback = "stored"
  BY DEF StoreTransfer, AssetsChange, Runs
<1>2. f \in Fields \ IdTables /\ f \in Fields /\ FieldShape(f, v) /\ \A k \in Followed : FieldOf(k) # f
  BY DEF Fields, IdTables, FieldShape, FieldOf, Followed, DataKinds, Created, Written, Configs, Rows
<1> HIDE DEF v
<1>3. tables' = d
  BY <1>0, <1>1, FieldPut
<1>4. Shape(d) /\ d.transfers = v /\ \A g \in Fields : g # f => d[g] = t[g]
  BY <1>0, <1>2, PutShape
<1> HIDE DEF d
<1>5. \A k \in Followed : \A x : ~ Touches(j, k, x)
  <2>1. \A k \in Followed : "stored" \notin CallbacksOf(k)
    <3>1. KindOf("stored") = "stored"
      BY DEF KindOf, SaleUpdates, AuctionUpdates, BuyofferUpdates, TemplateBuyofferUpdates, LinkUpdates,
             SimpleUpdates, AssetUpdates
    <3>2. "stored" \notin Followed
      BY DEF Followed, DataKinds, Created, Written, Configs, Rows
    <3> QED BY <3>1, <3>2, KindOfCallback
  <2> QED BY <1>1, <2>1 DEF Touches
<1>6. RowsRun(j, t, d)
  BY <1>2, <1>4, <1>5, UntouchedRows
<1>7. d.simpleTransfers = t.simpleTransfers /\ d.logs = t.logs
  BY <1>4 DEF Fields
<1>8. StoredOf({j}) = {j.trace.transfer} /\ SimpleStoredOf({j}) = {}
  BY <1>1 DEF StoredOf, SimpleStoredOf
<1>9. ListsRun(j, t, d)
  BY <1>0, <1>1, <1>4, <1>7, <1>8 DEF ListsRun, v
<1>10. SameConfig(t, d)
  BY <1>4 DEF SameConfig, Fields
<1> QED BY <1>1, <1>3, <1>4, <1>6, <1>9, <1>10, RunChange

(* A log is stored. *)
LEMMA LogJob ==
  ASSUME Inv, NEW j, LogTrace(j)
  PROVE  Inv'
<1> DEFINE f == "logs"
           t == tables
           v == t.logs + 1
           d == Put(t, f, v)
           S == memory.simpleInserts
           M == memory.mints
           T == Into(t, S, M)
           D == Into(d, S, M)
<1>0. Shape(t) /\ IsMap(t, Fields) /\ t.logs \in Nat
  BY DEF Inv, ShapesInv, Shape
<1>1. Runs(j, "log") /\ JobFrame /\ memory' = memory /\ tables' = [t EXCEPT !.logs = v] /\ j.callback = "log"
  BY DEF LogTrace, Runs
<1>2. /\ f \in Fields \ IdTables /\ f \in Fields /\ FieldShape(f, v) /\ \A k \in Followed : FieldOf(k) # f
      /\ f # "simple" /\ f # "minted" /\ "simple" \in Fields /\ "minted" \in Fields
  BY <1>0 DEF Fields, IdTables, FieldShape, FieldOf, Followed, DataKinds, Created, Written, Configs, Rows
<1>3. [t EXCEPT !.logs = v] = d
  <2> HIDE DEF v
  <2> QED BY <1>0, FieldPut
<1> HIDE DEF v
<1>4. Shape(d) /\ d.logs = v /\ \A g \in Fields : g # f => d[g] = t[g]
  BY <1>0, <1>2, PutShape
<1>5. tables' = d
  BY <1>1, <1>3
<1> HIDE DEF d
<1>6. Now = T /\ Now' = D
  BY <1>1, <1>5 DEF Now
<1>7. \A g \in Fields : g # f => D[g] = T[g]
  <2>1. /\ T.simple = SimpleInto(t.simple, S) /\ T.minted = MintedInto(t.minted, M)
        /\ \A g \in Fields : g # "simple" /\ g # "minted" => T[g] = t[g]
    BY IntoFields
  <2>2. /\ D.simple = SimpleInto(d.simple, S) /\ D.minted = MintedInto(d.minted, M)
        /\ \A g \in Fields : g # "simple" /\ g # "minted" => D[g] = d[g]
    BY IntoFields
  <2>3. d.simple = t.simple /\ d.minted = t.minted
    BY <1>2, <1>4
  <2> HIDE DEF T, D
  <2> QED BY <1>4, <2>1, <2>2, <2>3
<1>8. T.logs = t.logs /\ D.logs = v
  BY <1>2, <1>4, IntoFields
<1> HIDE DEF T, D
<1>9. RowsRun(j, T, D)
  <2>1. \A k \in Followed : \A x : ~ Touches(j, k, x)
    BY <1>1, NoLogTouches
  <2> QED BY <1>2, <1>7, <2>1, UntouchedRows
<1>10. ListsRun(j, T, D)
  <2>1. D.transfers = T.transfers /\ D.simpleTransfers = T.simpleTransfers
    BY <1>7 DEF Fields
  <2>2. StoredOf({j}) = {} /\ SimpleStoredOf({j}) = {}
    BY <1>1, NothingStored
  <2>3. D.logs = T.logs + (IF j.callback = "log" THEN 1 ELSE 0)
    BY <1>1, <1>8 DEF v
  <2> QED BY <2>1, <2>2, <2>3 DEF ListsRun
<1>11. SameConfig(t, d)
  BY <1>4 DEF SameConfig, Fields
<1>12. MemoryInv'
  BY <1>1, <1>5, <1>11, MemoryKept
<1>13. (memory.mints # {} \/ memory.simpleInserts # {})' => j.priority = AA_ACTION_MINT_ASSET
  BY <1>1, Amid
<1>14. CollectedOnce(memory.simpleInserts, memory.mints)'
  BY <1>1 DEF Inv, CollectedInv
<1>15. RowsRun(j, Now, Now') /\ ListsRun(j, Now, Now') /\ Shape(tables)'
  BY <1>4, <1>5, <1>6, <1>9, <1>10
<1> QED BY <1>1, <1>12, <1>13, <1>14, <1>15, RunJob DEF Inv, ShapesInv

(* Assets of simpleassets that exist are changed. *)
LEMMA SimpleUpdated ==
  ASSUME Inv, NEW j, NEW a \in SimpleUpdates, NEW rows, NEW T, SimpleUpdate(j, a, rows, T),
         T = SimpleStoredOf({j}), DOMAIN rows = SimpleFound(j),
         \A x \in SimpleFound(j) : rows[x] = SimpleMade(j, tables.simple[x])
  PROVE  Inv'
<1> DEFINE k == "simple"
           t == tables
           v == With(t.simple, rows)
           w == t.simpleTransfers \cup T
           e == Put(t, k, v)
           f == "simpleTransfers"
           d == Put(e, f, w)
<1>0. Shape(t) /\ IsMap(t, Fields) /\ t.logs \in Nat /\ IsMap(t.simple, Assets)
  BY DEF Inv, ShapesInv, Shape
<1>1. Runs(j, a) /\ JobFrame /\ memory' = memory /\ j.callback = a
      /\ tables' = [t EXCEPT !.simple = v, !.simpleTransfers = w]
  BY DEF SimpleUpdate, Runs
<1>2. /\ SimpleFound(j) \subseteq Assets
      /\ \A x \in Assets : x \in SimpleFound(j) <=>
           x \in j.trace.ids /\ t.simple[x] # NoRow /\ (a = "transfer" => t.simple[x].owner = j.trace.from)
  <2>1. j.callback = a
    BY <1>1
  <2>2. \A x : x \in SimpleFound(j) <=>
          /\ x \in Assets /\ x \in j.trace.ids
          /\ tables.simple[x] # NoRow /\ (j.callback = "transfer" => tables.simple[x].owner = j.trace.from)
    BY DEF SimpleFound
  <2>3. \A x \in SimpleFound(j) : x \in Assets
    BY <2>2
  <2> QED BY <2>1, <2>2, <2>3
<1>3. IsMap(v, Assets) /\ \A x \in Assets : v[x] = IF x \in SimpleFound(j) THEN rows[x] ELSE t.simple[x]
  BY <1>0, <1>2 DEF With, IsMap
<1> HIDE DEF v, w
<1>4. /\ k \in Fields \ IdTables /\ f \in Fields \ IdTables /\ FieldShape(k, v) /\ FieldShape(f, w) /\ k # f
      /\ k \in Fields /\ f \in Fields /\ k \in Followed /\ FieldOf(k) = k /\ KeysOf(k) = Assets
      /\ a \in CallbacksOf(k) /\ k \notin {"auctions", "ends"} /\ a \notin {"createlog", "minted", "log", "stored"}
      /\ \A l \in Followed : FieldOf(l) = k => l = k
      /\ \A l \in Followed : FieldOf(l) # f
  BY <1>3 DEF Fields, IdTables, FieldShape, Followed, DataKinds, Created, Written, Configs,
       FieldOf, Rows, KeysOf, CallbacksOf, SimpleUpdates
<1>5. Shape(e) /\ e.simple = v /\ \A g \in Fields : g # k => e[g] = t[g]
  BY <1>0, <1>4, PutShape
<1>6. tables' = d
  <2>1. [t EXCEPT !.simple = v] = e
    BY <1>0, FieldPut
  <2>2. [t EXCEPT !.simple = v, !.simpleTransfers = w] = [[t EXCEPT !.simple = v] EXCEPT !.simpleTransfers = w]
    OBVIOUS
  <2>3. IsMap(e, Fields)
    BY <1>5 DEF Shape
  <2> HIDE DEF e
  <2>4. [e EXCEPT !.simpleTransfers = w] = Put(e, f, w)
    BY <2>3, FieldPut
  <2> QED BY <1>1, <2>1, <2>2, <2>4
<1> HIDE DEF e
<1>7. Shape(d) /\ d.simpleTransfers = w /\ \A g \in Fields : g # f => d[g] = e[g]
  BY <1>4, <1>5, PutShape
<1> HIDE DEF d
<1>8. Named(k, j) = j.trace.ids
  BY DEF Named, Configs
<1>9. RowsTurn(j, k, t, e)
  <2>1. \A y, x : Cell(y, k, x) = y.simple[x]
    BY DEF Cell, Rows, Configs
  <2>2. ASSUME NEW x \in Assets, x \in j.trace.ids, Fits(j, k, t.simple[x])
        PROVE  v[x] = Made(j, k, t.simple[x])
    <3>1. SimpleFits(j, t.simple[x])
      BY <2>2 DEF Fits, Configs
    <3>2. x \in SimpleFound(j)
      BY <1>1, <1>2, <2>2, <3>1 DEF SimpleFits, SimpleUpdates
    <3>3. Made(j, k, t.simple[x]) = SimpleMade(j, t.simple[x])
      BY DEF Made, Configs
    <3> QED BY <1>3, <3>2, <3>3
  <2>3. \A x \in Assets : x \notin j.trace.ids => v[x] = t.simple[x]
    BY <1>2, <1>3
  <2> HIDE DEF k
  <2> QED BY <1>4, <1>5, <1>8, <2>1, <2>2, <2>3 DEF RowsTurn, Turns
<1>10. RowsRun(j, t, e)
  <2>1. \A l \in Followed : l # k /\ FieldOf(l) = FieldOf(k) =>
           \A x \in KeysOf(l) : Cell(e, l, x) = Cell(t, l, x)
    BY <1>4
  <2> HIDE DEF k
  <2> QED BY <1>1, <1>4, <1>5, <1>9, <2>1, FieldRun
<1>11. RowsRun(j, t, d)
  <2>1. ASSUME NEW l \in Followed, NEW x PROVE Cell(d, l, x) = Cell(e, l, x)
    BY <1>4, <1>7, OtherFields
  <2> QED BY <1>10, <2>1 DEF RowsRun
<1>12. ListsRun(j, t, d)
  <2>1. d.transfers = t.transfers /\ d.logs = t.logs
    BY <1>5, <1>7 DEF Fields
  <2>2. StoredOf({j}) = {}
    BY <1>1, <1>4 DEF StoredOf
  <2>3. d.simpleTransfers = t.simpleTransfers \cup SimpleStoredOf({j})
    BY <1>7 DEF w
  <2>4. d.logs = t.logs + (IF j.callback = "log" THEN 1 ELSE 0)
    BY <1>0, <1>1, <1>4, <2>1
  <2>5. d.transfers = t.transfers \cup StoredOf({j})
    BY <2>1, <2>2
  <2> HIDE DEF w
  <2> QED BY <2>3, <2>4, <2>5 DEF ListsRun
<1>13. SameConfig(t, d)
  BY <1>5, <1>7 DEF SameConfig, Fields
<1> QED BY <1>1, <1>4, <1>6, <1>7, <1>11, <1>12, <1>13, RunChange

----------------------------------------
(* Jobs of simple assets, and new assets *)

(* Every update of simple assets. *)
LEMMA SimpleUpdateJobs ==
  ASSUME Inv, NEW j, BurnLog(j) \/ UpdateData(j) \/ ChangeAuthor(j) \/ SimpleTransfer(j) \/ Claim(j)
  PROVE  Inv'
<1>1. ASSUME BurnLog(j) PROVE Inv'
  <2> DEFINE rows == [x \in SimpleFound(j) |-> [tables.simple[x] EXCEPT !.owner = "null", !.burned_by_account = j.trace.owner]]
             T == {}
  <2>1. SimpleUpdate(j, "burnlog", rows, T) /\ "burnlog" \in SimpleUpdates
    BY Zenon, <1>1 DEF BurnLog, SimpleUpdates
  <2>2. j.callback = "burnlog"
    BY <2>1 DEF SimpleUpdate, Runs
  <2>3. DOMAIN rows = SimpleFound(j) /\ \A x \in SimpleFound(j) : rows[x] = SimpleMade(j, tables.simple[x])
    BY <2>2 DEF SimpleMade
  <2>4. T = SimpleStoredOf({j})
    BY <2>2 DEF SimpleStoredOf, StoredTransfer, SimpleStored
  <2> HIDE DEF rows, T
  <2> QED BY <2>1, <2>3, <2>4, SimpleUpdated
<1>2. ASSUME UpdateData(j) PROVE Inv'
  <2> DEFINE rows == [x \in SimpleFound(j) |-> [tables.simple[x] EXCEPT !.mutable_data = j.trace.mdata]]
             T == {}
  <2>1. SimpleUpdate(j, "update", rows, T) /\ "update" \in SimpleUpdates
    BY <1>2 DEF UpdateData, SimpleUpdates
  <2>2. j.callback = "update"
    BY <2>1 DEF SimpleUpdate, Runs
  <2>3. DOMAIN rows = SimpleFound(j) /\ \A x \in SimpleFound(j) : rows[x] = SimpleMade(j, tables.simple[x])
    BY <2>2 DEF SimpleMade
  <2>4. T = SimpleStoredOf({j})
    BY <2>2 DEF SimpleStoredOf, StoredTransfer, SimpleStored
  <2> HIDE DEF rows, T
  <2> QED BY <2>1, <2>3, <2>4, SimpleUpdated
<1>3. ASSUME ChangeAuthor(j) PROVE Inv'
  <2> DEFINE rows == [x \in SimpleFound(j) |-> [tables.simple[x] EXCEPT !.author = j.trace.newauthor]]
             T == {}
  <2>1. SimpleUpdate(j, "changeauthor", rows, T) /\ "changeauthor" \in SimpleUpdates
    BY <1>3 DEF ChangeAuthor, SimpleUpdates
  <2>2. j.callback = "changeauthor"
    BY <2>1 DEF SimpleUpdate, Runs
  <2>3. DOMAIN rows = SimpleFound(j) /\ \A x \in SimpleFound(j) : rows[x] = SimpleMade(j, tables.simple[x])
    BY <2>2 DEF SimpleMade
  <2>4. T = SimpleStoredOf({j})
    BY <2>2 DEF SimpleStoredOf, StoredTransfer, SimpleStored
  <2> HIDE DEF rows, T
  <2> QED BY <2>1, <2>3, <2>4, SimpleUpdated
<1>4. ASSUME SimpleTransfer(j) PROVE Inv'
  <2> DEFINE rows == [x \in SimpleFound(j) |-> [tables.simple[x] EXCEPT !.owner = j.trace.to]]
             T == StoredTransfer(j, j.trace.from)
  <2>1. SimpleUpdate(j, "transfer", rows, T) /\ "transfer" \in SimpleUpdates
    BY <1>4 DEF SimpleTransfer, SimpleUpdates
  <2>2. j.callback = "transfer"
    BY <2>1 DEF SimpleUpdate, Runs
  <2>3. DOMAIN rows = SimpleFound(j) /\ \A x \in SimpleFound(j) : rows[x] = SimpleMade(j, tables.simple[x])
    BY <2>2 DEF SimpleMade
  <2>4. T = SimpleStoredOf({j})
    BY <2>2 DEF SimpleStoredOf, StoredTransfer, SimpleStored
  <2> HIDE DEF rows, T
  <2> QED BY <2>1, <2>3, <2>4, SimpleUpdated
<1>5. ASSUME Claim(j) PROVE Inv'
  <2> DEFINE rows == [x \in SimpleFound(j) |-> [tables.simple[x] EXCEPT !.owner = j.trace.to]]
             T == StoredTransfer(j, j.trace.to)
  <2>1. SimpleUpdate(j, "claim", rows, T) /\ "claim" \in SimpleUpdates
    BY <1>5 DEF Claim, SimpleUpdates
  <2>2. j.callback = "claim"
    BY <2>1 DEF SimpleUpdate, Runs
  <2>3. DOMAIN rows = SimpleFound(j) /\ \A x \in SimpleFound(j) : rows[x] = SimpleMade(j, tables.simple[x])
    BY <2>2 DEF SimpleMade
  <2>4. T = SimpleStoredOf({j})
    BY <2>2 DEF SimpleStoredOf, StoredTransfer, SimpleStored
  <2> HIDE DEF rows, T
  <2> QED BY <2>1, <2>3, <2>4, SimpleUpdated
<1> QED BY <1>1, <1>2, <1>3, <1>4, <1>5

(* What a job that collects an asset leaves. *)
LEMMA CollectRun ==
  ASSUME Inv, NEW j, NEW k \in {"simple", "minted"}, j.callback \in {"createlog", "minted"},
         j.callback \in CallbacksOf(k), NEW d, IsMap(d, Fields), \A g \in Fields : g # k => d[g] = Now[g],
         RowsTurn(j, k, Now, d)
  PROVE  RowsRun(j, Now, d) /\ ListsRun(j, Now, d)
<1>1. /\ k \in Followed /\ k \notin {"auctions", "ends"} /\ k \in Fields /\ k = FieldOf(k)
      /\ k \notin {"transfers", "simpleTransfers", "logs"}
      /\ \A l \in Followed : FieldOf(l) = k => l = k
  BY DEF Followed, DataKinds, Created, Written, Configs, Fields, FieldOf, Rows
<1> DEFINE t == Now
<1> HIDE DEF t
<1>2. /\ \A g \in Fields : g # k => d[g] = t[g]
      /\ RowsTurn(j, k, t, d)
  BY DEF t
<1>3. \A l \in Followed : l # k /\ FieldOf(l) = FieldOf(k) =>
        \A x \in KeysOf(l) : Cell(d, l, x) = Cell(t, l, x)
  BY <1>1
<1>4. RowsRun(j, t, d)
  BY <1>1, <1>2, <1>3, FieldRun
<1>5. t.logs \in Nat
  BY IntoShape DEF Inv, ShapesInv, Shape, Now, t
<1>6. d.transfers = t.transfers /\ d.simpleTransfers = t.simpleTransfers /\ d.logs = t.logs
  BY <1>1, <1>2 DEF Fields
<1>7. j.callback \notin {"stored", "transfer", "claim", "log"} OBVIOUS
<1>8. ListsRun(j, t, d)
  BY <1>5, <1>6, <1>7, NoListsRun
<1> QED BY <1>4, <1>8 DEF t

(* One more asset is collected. *)
LEMMA SimpleIntoOne ==
  ASSUME NEW f, NEW S, NEW r, SimpleOnce(S),
         \A x \in Assets : x \in r.ids => SimpleInto(f, S)[x] = NoRow /\ r.row # NoRow
  PROVE  /\ \A x \in Assets : SimpleInto(f, S \cup {r})[x] = IF x \in r.ids THEN r.row ELSE SimpleInto(f, S)[x]
         /\ SimpleOnce(S \cup {r})
<1> DEFINE R == S \cup {r}
<1>1. ASSUME NEW x \in Assets, x \in r.ids, NEW q \in S PROVE x \notin q.ids
  <2> SUFFICES ASSUME x \in q.ids PROVE FALSE
    OBVIOUS
  <2> DEFINE p == CHOOSE s \in S : x \in s.ids
  <2>1. p \in S /\ x \in p.ids
    OBVIOUS
  <2>2. SimpleInto(f, S)[x] = p.row
    BY DEF SimpleInto
  <2> HIDE DEF p
  <2> QED BY <1>1, <2>1, <2>2 DEF SimpleOnce
<1>2. ASSUME NEW x \in Assets
      PROVE  SimpleInto(f, R)[x] = IF x \in r.ids THEN r.row ELSE SimpleInto(f, S)[x]
  <2> DEFINE p == CHOOSE s \in R : x \in s.ids
             o == CHOOSE s \in S : x \in s.ids
  <2>1. SimpleInto(f, R)[x] = IF \E s \in R : x \in s.ids THEN p.row ELSE f[x]
    BY DEF SimpleInto
  <2>2. SimpleInto(f, S)[x] = IF \E s \in S : x \in s.ids THEN o.row ELSE f[x]
    BY DEF SimpleInto
  <2>3. (\E s \in R : x \in s.ids) => p \in R /\ x \in p.ids
    OBVIOUS
  <2>4. (\E s \in S : x \in s.ids) => o \in S /\ x \in o.ids
    OBVIOUS
  <2> HIDE DEF p, o
  <2>5. CASE x \in r.ids
    <3>1. p = r
      BY <1>1, <2>3, <2>5
    <3> QED BY <2>1, <2>5, <3>1
  <2>6. CASE x \notin r.ids
    <3>1. (\E s \in R : x \in s.ids) <=> (\E s \in S : x \in s.ids)
      BY <2>6
    <3>2. (\E s \in S : x \in s.ids) => p = o
      BY <2>3, <2>4, <2>6 DEF SimpleOnce
    <3> QED BY <2>1, <2>2, <2>6, <3>1, <3>2
  <2> QED BY <2>5, <2>6
<1>3. ASSUME NEW x \in Assets, NEW q \in R, NEW s \in R, x \in q.ids
      PROVE  q.row # NoRow /\ (x \in s.ids => q = s)
  BY <1>1, <1>3 DEF SimpleOnce
<1> QED BY <1>2, <1>3 DEF SimpleOnce

(* One more asset is collected. *)
LEMMA MintedIntoOne ==
  ASSUME NEW f, NEW S, NEW r,
         MintedOnce(S),
         r.id \in Ids => MintedInto(f, S)[r.id] = NoRow
  PROVE  /\ \A x \in Ids : MintedInto(f, S \cup {r})[x] =
                IF x = r.id THEN [state |-> "row", minter |-> r.minter, mutable_data |-> "x", backed |-> 0]
                ELSE MintedInto(f, S)[x]
         /\ MintedOnce(S \cup {r})
<1> DEFINE R == S \cup {r}
           row(q) == [state |-> "row", minter |-> q.minter, mutable_data |-> "x", backed |-> 0]
<1>0. \A q : row(q) # NoRow
  <2>1. \A q : row(q).state = "row"
    OBVIOUS
  <2> HIDE DEF row
  <2> QED BY Zenon, <2>1, IsRow
<1>1. ASSUME NEW q \in S, r.id \in Ids PROVE q.id # r.id
  <2> SUFFICES ASSUME q.id = r.id PROVE FALSE
    OBVIOUS
  <2> DEFINE p == CHOOSE s \in S : s.id = r.id
  <2>2. MintedInto(f, S)[r.id] = row(p)
    BY <1>1 DEF MintedInto
  <2> QED BY <1>0, <1>1, <2>2
<1>2. ASSUME NEW x \in Ids
      PROVE  MintedInto(f, R)[x] = IF x = r.id THEN row(r) ELSE MintedInto(f, S)[x]
  <2> DEFINE p == CHOOSE s \in R : s.id = x
             o == CHOOSE s \in S : s.id = x
  <2>1. MintedInto(f, R)[x] = IF \E s \in R : s.id = x THEN row(p) ELSE f[x]
    BY DEF MintedInto
  <2>2. MintedInto(f, S)[x] = IF \E s \in S : s.id = x THEN row(o) ELSE f[x]
    BY DEF MintedInto
  <2>3. (\E s \in R : s.id = x) => p \in R /\ p.id = x
    OBVIOUS
  <2>4. (\E s \in S : s.id = x) => o \in S /\ o.id = x
    OBVIOUS
  <2> HIDE DEF p, o, row
  <2>5. CASE x = r.id
    <3>1. p = r
      BY <1>1, <2>3, <2>5
    <3> QED BY <2>1, <2>5, <3>1
  <2>6. CASE x # r.id
    <3>1. (\E s \in R : s.id = x) <=> (\E s \in S : s.id = x)
      BY <2>6
    <3>2. (\E s \in S : s.id = x) => p = o
      BY <2>3, <2>4, <2>6 DEF MintedOnce
    <3> QED BY <2>1, <2>2, <2>6, <3>1, <3>2
  <2> QED BY <2>5, <2>6
<1>3. ASSUME NEW x \in Ids, NEW q \in R, NEW s \in R, q.id = x, s.id = x PROVE q = s
  BY <1>1, <1>3 DEF MintedOnce
<1> QED BY <1>2, <1>3 DEF MintedOnce

(* What a job that collects leaves of the memory. *)
LEMMA CollectMemory ==
  ASSUME Inv, JobFrame, NEW v,
         memory' = [memory EXCEPT !.simpleInserts = v] \/ memory' = [memory EXCEPT !.mints = v],
         tables' = tables
  PROVE  /\ IsMap(memory, {"market", "oracle", "tools", "simpleVersion", "simpleInserts", "assetConfig", "mints"})'
         /\ IsMap(memory.assetConfig, {"tokens", "format", "version"})'
         /\ MemoryInv'
         /\ memory' = [memory EXCEPT !.simpleInserts = v]
              => memory'.simpleInserts = v /\ memory'.mints = memory.mints
         /\ memory' = [memory EXCEPT !.mints = v]
              => memory'.mints = v /\ memory'.simpleInserts = memory.simpleInserts
<1> DEFINE F == {"market", "oracle", "tools", "simpleVersion", "simpleInserts", "assetConfig", "mints"}
<1>1. IsMap(memory, F) /\ IsMap(memory.assetConfig, {"tokens", "format", "version"})
  BY DEF Inv, ShapesInv
<1>2. /\ IsMap(memory', F)
      /\ \A g \in F \ {"simpleInserts", "mints"} : memory'[g] = memory[g]
      /\ memory' = [memory EXCEPT !.simpleInserts = v]
              => memory'.simpleInserts = v /\ memory'.mints = memory.mints
      /\ memory' = [memory EXCEPT !.mints = v]
              => memory'.mints = v /\ memory'.simpleInserts = memory.simpleInserts
  BY <1>1 DEF IsMap
<1>3. /\ memory'.market = memory.market /\ memory'.tools = memory.tools
      /\ memory'.simpleVersion = memory.simpleVersion /\ memory'.assetConfig = memory.assetConfig
  BY <1>2
<1>4. running' = running /\ rolledBack' = rolledBack /\ previous' = previous /\ committed' = committed
  BY DEF JobFrame, readerVars, historyVars
<1>5. Remembered(previous)' = Remembered(previous) /\ Remembered(committed)' = Remembered(committed)
  BY <1>4 DEF Remembered
<1>6. MemoryInv'
  BY <1>3, <1>4, <1>5 DEF Inv, MemoryInv
<1> QED BY <1>1, <1>2, <1>3, <1>6

(* The priority of the jobs that collect. *)
LEMMA CollectPriority ==
  ASSUME Inv, NEW j, NEW a \in {"createlog", "minted"}, Runs(j, a)
  PROVE  j.priority = AA_ACTION_MINT_ASSET
<1>1. executing /\ j.callback = a /\ j \in queue
  BY DEF Runs, Inv, IsNext
<1>2. j.priority = PriorityOf(a)
  BY <1>1 DEF Inv, ReaderInv, JobsOK
<1>3. PriorityOf("createlog") = AA_ACTION_MINT_ASSET /\ PriorityOf("minted") = AA_ACTION_MINT_ASSET
  <2>1. {"createlog", "minted"} \cap
          (Creates \cup Updates \cup Rows \cup LinkUpdates \cup SimpleUpdates \cup AssetUpdates) = {}
    BY DEF SimpleUpdates, AssetUpdates, Creates, Updates, SaleUpdates, AuctionUpdates, BuyofferUpdates,
       TemplateBuyofferUpdates, Rows, LinkUpdates
  <2> QED BY <2>1 DEF PriorityOf
<1> QED BY <1>2, <1>3

(* A simple asset is collected. *)
LEMMA CreateLogJob ==
  ASSUME Inv, NEW j, CreateLog(j)
  PROVE  Inv'
<1> DEFINE S == memory.simpleInserts
           M == memory.mints
           r == j.trace
           t == tables
           k == "simple"
           T == Into(t, S, M)
           D == Into(t, S \cup {r}, M)
<1>1. /\ Runs(j, "createlog") /\ JobFrame /\ tables' = tables /\ j.callback = "createlog"
      /\ memory' = [memory EXCEPT !.simpleInserts = S \cup {r}]
  BY DEF CreateLog, Runs
<1>2. Shape(tables)' /\ Shape(t)
  BY <1>1 DEF Inv, ShapesInv
<1>3. /\ IsMap(memory, {"market", "oracle", "tools", "simpleVersion", "simpleInserts", "assetConfig", "mints"})'
      /\ IsMap(memory.assetConfig, {"tokens", "format", "version"})'
      /\ MemoryInv'
      /\ memory'.simpleInserts = S \cup {r} /\ memory'.mints = M
  BY <1>1, CollectMemory
<1>4. Now = T /\ Now' = D
  BY <1>1, <1>3 DEF Now
<1>5. /\ T.simple = SimpleInto(t.simple, S) /\ T.minted = MintedInto(t.minted, M)
      /\ \A g \in Fields : g # "simple" /\ g # "minted" => T[g] = t[g]
  BY IntoFields
<1>6. /\ D.simple = SimpleInto(t.simple, S \cup {r}) /\ D.minted = MintedInto(t.minted, M)
      /\ \A g \in Fields : g # "simple" /\ g # "minted" => D[g] = t[g]
      /\ IsMap(D, Fields)
  BY IntoFields
<1> HIDE DEF T, D
<1>7. /\ k \in Followed /\ KeysOf(k) = Assets /\ "createlog" \in CallbacksOf(k)
      /\ Named(k, j) = r.ids
      /\ \A y, x : Cell(y, k, x) = y.simple[x]
  BY DEF Followed, DataKinds, Created, KeysOf, CallbacksOf, Named, Configs, Cell, Rows
<1>8. ASSUME NEW x \in Assets, x \in r.ids PROVE SimpleInto(t.simple, S)[x] = NoRow /\ r.row # NoRow
  <2>1. Touches(j, k, x)
    BY <1>1, <1>7, <1>8 DEF Touches
  <2>2. Fits(j, k, Cell(Now, k, x))
    BY <1>1, <1>7, <2>1, JobFits
  <2>3. Fits(j, k, T.simple[x])
    BY <1>4, <1>7, <2>2
  <2>4. SimpleFits(j, T.simple[x])
    BY <2>3 DEF Fits, Configs
  <2> QED BY <1>1, <1>5, <2>4 DEF SimpleFits
<1>9. CollectedOnce(S, M)
  BY DEF Inv, CollectedInv
<1>11. /\ \A x \in Assets : SimpleInto(t.simple, S \cup {r})[x] = IF x \in r.ids THEN r.row ELSE SimpleInto(t.simple, S)[x]
       /\ SimpleOnce(S \cup {r})
  <2> DEFINE f == t.simple
  <2>1. \A x \in Assets : x \in r.ids => SimpleInto(f, S)[x] = NoRow /\ r.row # NoRow
    BY <1>8
  <2>3. SimpleOnce(S)
    BY <1>9 DEF CollectedOnce
  <2> HIDE DEF S, r, f
  <2>2. /\ \A x \in Assets : SimpleInto(f, S \cup {r})[x] = IF x \in r.ids THEN r.row ELSE SimpleInto(f, S)[x]
        /\ SimpleOnce(S \cup {r})
    BY <2>1, <2>3, SimpleIntoOne
  <2> QED BY <2>2 DEF f
<1>12. CollectedOnce(memory.simpleInserts, memory.mints)'
  BY <1>3, <1>9, <1>11 DEF CollectedOnce
<1>13. RowsTurn(j, k, T, D)
  <2>1. \A y : Made(j, k, y) = r.row
    BY <1>1 DEF Made, SimpleMade, Configs
  <2>2. \A x \in Assets : D.simple[x] = IF x \in r.ids THEN r.row ELSE T.simple[x]
    BY <1>5, <1>6, <1>11
  <2> HIDE DEF k
  <2> QED BY <1>7, <2>1, <2>2 DEF RowsTurn, Turns
<1>14. \A g \in Fields : g # k => D[g] = T[g]
  BY <1>5, <1>6
<1>15. RowsRun(j, Now, Now') /\ ListsRun(j, Now, Now')
  <2>1. k \in {"simple", "minted"} /\ j.callback \in {"createlog", "minted"} /\ j.callback \in CallbacksOf(k)
    BY <1>1, <1>7
  <2> HIDE DEF k
  <2> QED BY <1>4, <1>6, <1>13, <1>14, <2>1, CollectRun
<1>16. j.priority = AA_ACTION_MINT_ASSET
  BY <1>1, CollectPriority
<1> QED BY <1>1, <1>2, <1>3, <1>12, <1>15, <1>16, RunJob

(* An asset is collected. *)
LEMMA MintedJob ==
  ASSUME Inv, NEW j, Minted(j)
  PROVE  Inv'
<1> DEFINE S == memory.simpleInserts
           M == memory.mints
           r == j.trace
           t == tables
           k == "minted"
           T == Into(t, S, M)
           D == Into(t, S, M \cup {r})
           row == [state |-> "row", minter |-> r.minter, mutable_data |-> "x", backed |-> 0]
<1>1. /\ Runs(j, "minted") /\ JobFrame /\ tables' = tables /\ j.callback = "minted"
      /\ memory' = [memory EXCEPT !.mints = M \cup {r}]
  BY DEF Minted, Runs
<1>2. Shape(tables)' /\ Shape(t)
  BY <1>1 DEF Inv, ShapesInv
<1>3. /\ IsMap(memory, {"market", "oracle", "tools", "simpleVersion", "simpleInserts", "assetConfig", "mints"})'
      /\ IsMap(memory.assetConfig, {"tokens", "format", "version"})'
      /\ MemoryInv'
      /\ memory'.simpleInserts = S /\ memory'.mints = M \cup {r}
  BY <1>1, CollectMemory
<1>4. Now = T /\ Now' = D
  BY <1>1, <1>3 DEF Now
<1>5. /\ T.simple = SimpleInto(t.simple, S) /\ T.minted = MintedInto(t.minted, M)
      /\ \A g \in Fields : g # "simple" /\ g # "minted" => T[g] = t[g]
  BY IntoFields
<1>6. /\ D.simple = SimpleInto(t.simple, S) /\ D.minted = MintedInto(t.minted, M \cup {r})
      /\ \A g \in Fields : g # "simple" /\ g # "minted" => D[g] = t[g]
      /\ IsMap(D, Fields)
  BY IntoFields
<1> HIDE DEF T, D
<1>7. /\ k \in Followed /\ KeysOf(k) = Ids /\ "minted" \in CallbacksOf(k)
      /\ Named(k, j) = {r.id}
      /\ \A y, x : Cell(y, k, x) = y.minted[x]
  BY DEF Followed, DataKinds, Created, KeysOf, CallbacksOf, Named, Configs, Cell, Rows
<1>8. r.id \in Ids => MintedInto(t.minted, M)[r.id] = NoRow
  <2> SUFFICES ASSUME r.id \in Ids
               PROVE  MintedInto(t.minted, M)[r.id] = NoRow
    OBVIOUS
  <2>1. Touches(j, k, r.id)
    BY <1>1, <1>7 DEF Touches
  <2>2. Fits(j, k, Cell(Now, k, r.id))
    BY <1>1, <1>7, <2>1, JobFits
  <2>3. Fits(j, k, T.minted[r.id])
    BY <1>4, <1>7, <2>2
  <2>4. MintedFits(j, T.minted[r.id])
    BY <2>3 DEF Fits, Configs
  <2> QED BY <1>1, <1>5, <2>4 DEF MintedFits
<1>9. CollectedOnce(S, M)
  BY DEF Inv, CollectedInv
<1>10. MintedOnce(M)
  BY <1>9 DEF CollectedOnce
<1>11. /\ \A x \in Ids : MintedInto(t.minted, M \cup {r})[x] = IF x = r.id THEN row ELSE MintedInto(t.minted, M)[x]
       /\ MintedOnce(M \cup {r})
  <2> HIDE DEF M, r
  <2> QED BY <1>8, <1>10, MintedIntoOne
<1>12. CollectedOnce(memory.simpleInserts, memory.mints)'
  BY <1>3, <1>9, <1>11 DEF CollectedOnce
<1>13. RowsTurn(j, k, T, D)
  <2>1. \A y : Made(j, k, y) = row
    BY <1>1 DEF Made, MintedMade, Configs
  <2>2. \A x \in Ids : D.minted[x] = IF x = r.id THEN row ELSE T.minted[x]
    BY <1>5, <1>6, <1>11
  <2> HIDE DEF k, row
  <2> QED BY <1>7, <2>1, <2>2 DEF RowsTurn, Turns
<1>14. \A g \in Fields : g # k => D[g] = T[g]
  BY <1>5, <1>6
<1>15. RowsRun(j, Now, Now') /\ ListsRun(j, Now, Now')
  <2>1. k \in {"simple", "minted"} /\ j.callback \in {"createlog", "minted"} /\ j.callback \in CallbacksOf(k)
    BY <1>1, <1>7
  <2> HIDE DEF k
  <2> QED BY <1>4, <1>6, <1>13, <1>14, <2>1, CollectRun
<1>16. j.priority = AA_ACTION_MINT_ASSET
  BY <1>1, CollectPriority
<1> QED BY <1>1, <1>2, <1>3, <1>12, <1>15, <1>16, RunJob

----------------------------------------
(* Jobs of the configuration *)

(* A job that changes tables and memory. *)
LEMMA RunMemory ==
  ASSUME Inv, NEW j, NEW a, Runs(j, a), JobFrame, a \notin {"createlog", "minted", "log"},
         NEW k \in MemoryFields \ {"simpleInserts", "mints"}, NEW m, memory' = MemoryPut(k, m),
         k = "assetConfig" => IsMap(m, {"tokens", "format", "version"}),
         NEW d, tables' = d, Shape(d), RowsRun(j, tables, d), ListsRun(j, tables, d),
         MemoryInv'
  PROVE  Inv'
<1>1. memory.mints = {} /\ memory.simpleInserts = {} /\ Now = tables
  BY Alone
<1>2. /\ IsMap(memory', MemoryFields)
      /\ memory'.mints = {} /\ memory'.simpleInserts = {}
      /\ memory'.assetConfig = IF k = "assetConfig" THEN m ELSE memory.assetConfig
  BY <1>1 DEF MemoryPut, IsMap, MemoryFields
<1>3. Now' = d
  BY <1>2, IntoNothing DEF Now
<1>4. /\ IsMap(memory, MemoryFields)'
      /\ IsMap(memory.assetConfig, {"tokens", "format", "version"})'
  BY <1>2 DEF Inv, ShapesInv
<1>5. CollectedOnce(memory.simpleInserts, memory.mints)'
  BY <1>2 DEF CollectedOnce, SimpleOnce, MintedOnce
<1>6. (memory.mints # {} \/ memory.simpleInserts # {})' => j.priority = AA_ACTION_MINT_ASSET
  BY <1>2
<1>7. RowsRun(j, Now, Now') /\ ListsRun(j, Now, Now') /\ Shape(tables)'
  BY <1>1, <1>3
<1> QED BY <1>4, <1>5, <1>6, <1>7, RunJob DEF MemoryFields

(* A job of the configuration. *)
LEMMA ConfigJob ==
  ASSUME Inv, NEW j, NEW a, Runs(j, a), JobFrame, NEW k \in Configs, a \in CallbacksOf(k),
         NEW w, FieldShape(k, w), tables' = Put(tables, k, w),
         NEW m, memory' = MemoryPut(k, m),
         k = "assetConfig" => IsMap(m, {"tokens", "format", "version"}),
         ~ ConfigForks /\ memory[k] = tables[k] /\ Fits(j, k, tables[k]) => w = m /\ m = Made(j, k, tables[k])
  PROVE  Inv'
<1> DEFINE t == tables
           d == Put(t, k, w)
<1>0. j.callback = a /\ Shape(t) /\ t.logs \in Nat /\ running
  BY DEF Runs, Inv, ShapesInv, Shape, ReaderInv
<1>1. /\ k \in Fields /\ k \in Fields \ IdTables /\ k = FieldOf(k) /\ k \notin {"auctions", "ends"}
      /\ k \in MemoryFields \ {"simpleInserts", "mints"}
      /\ k \notin {"transfers", "simpleTransfers", "logs"}
      /\ a \notin {"createlog", "minted", "stored", "transfer", "claim", "log"}
      /\ KeysOf(k) = {"config"} /\ Named(k, j) = {"config"}
      /\ \A l \in Followed : FieldOf(l) = k => l = k
      /\ k \in Followed <=> ~ ConfigForks
      /\ \A y, x : Cell(y, k, x) = y[k]
  BY DEF Fields, IdTables, Configs, FieldOf, Rows, CallbacksOf, KeysOf, Named, Followed, DataKinds,
         Created, Written, Cell, MemoryFields
<1>2. Shape(d) /\ d[k] = w /\ \A g \in Fields : g # k => d[g] = t[g]
  BY <1>0, <1>1, PutShape
<1>3. ASSUME ~ ConfigForks PROVE memory[k] = t[k] /\ w = m /\ m = Made(j, k, t[k])
  <2>1. memory[k] = t[k]
    BY <1>0, <1>3 DEF Inv, MemoryInv, Configs
  <2>2. Touches(j, k, "config")
    BY <1>0, <1>1 DEF Touches
  <2>3. Fits(j, k, Cell(Now, k, "config"))
    BY <1>1, <1>3, <2>2, JobFits
  <2>4. Now = t
    BY <1>1, Alone
  <2>5. Fits(j, k, t[k])
    BY <1>1, <2>3, <2>4
  <2> QED BY <1>3, <2>1, <2>5
<1>4. RowsTurn(j, k, t, d) \/ ConfigForks
  BY <1>1, <1>2, <1>3 DEF RowsTurn, Turns
<1> HIDE DEF d
<1>5. \A l \in Followed : l # k /\ FieldOf(l) = FieldOf(k) =>
        \A x \in KeysOf(l) : Cell(d, l, x) = Cell(t, l, x)
  BY <1>1
<1>6. RowsRun(j, t, d)
  BY <1>0, <1>1, <1>2, <1>4, <1>5, FieldRun
<1>7. ListsRun(j, t, d)
  <2>1. d.transfers = t.transfers /\ d.simpleTransfers = t.simpleTransfers /\ d.logs = t.logs
    BY <1>1, <1>2 DEF Fields
  <2> QED BY <1>0, <1>1, <2>1, NoListsRun
<1>8. tables' = d
  BY DEF d
<1>9. MemoryInv'
  <2>1. running' = running /\ rolledBack' = rolledBack /\ previous' = previous /\ committed' = committed
    BY DEF JobFrame, readerVars, historyVars
  <2>2. Remembered(previous)' = Remembered(previous) /\ Remembered(committed)' = Remembered(committed)
    BY <2>1 DEF Remembered
  <2>3. ASSUME ~ ConfigForks, NEW l \in Configs PROVE memory'[l] = d[l]
    <3>1. memory[l] = t[l]
      BY <1>0, <2>3 DEF Inv, MemoryInv, Configs
    <3>2. memory'[l] = IF l = k THEN m ELSE memory[l]
      BY DEF MemoryPut, MemoryFields, Configs
    <3>3. l \in Fields
      BY DEF Fields, Configs
    <3> QED BY <1>2, <1>3, <2>3, <3>1, <3>2, <3>3
  <2>4. ~ ConfigForks => /\ memory'.market = d.market /\ memory'.tools = d.tools
                         /\ memory'.simpleVersion = d.simpleVersion /\ memory'.assetConfig = d.assetConfig
    BY <2>3 DEF Configs
  <2>5. tables'.market = d.market /\ tables'.tools = d.tools /\ tables'.simpleVersion = d.simpleVersion
        /\ tables'.assetConfig = d.assetConfig
    BY <1>8
  <2> QED BY <2>1, <2>2, <2>4, <2>5 DEF Inv, MemoryInv
<1> QED BY <1>1, <1>2, <1>6, <1>7, <1>8, <1>9, RunMemory

(* What grows is longer, or the same. *)
LEMMA GrownSame ==
  ASSUME NEW old, NEW new, Grows(old, new)
  PROVE  Grown(old, new, old) = new
<1>1. old \subseteq new /\ IsFiniteSet(new)
  BY DEF Grows
<1>2. CASE Cardinality(old) = Cardinality(new)
  <2>1. old = new
    BY <1>1, <1>2, FS_Subset
  <2> QED BY <1>2, <2>1 DEF Grown
<1>3. CASE Cardinality(old) # Cardinality(new)
  BY <1>1, <1>3 DEF Grown
<1> QED BY <1>2, <1>3

(* A field of the memory is replaced. *)
LEMMA MemoryIsPut ==
  ASSUME Inv, NEW v
  PROVE  /\ [memory EXCEPT !.market = v] = MemoryPut("market", v)
         /\ [memory EXCEPT !.tools = v] = MemoryPut("tools", v)
         /\ [memory EXCEPT !.simpleVersion = v] = MemoryPut("simpleVersion", v)
         /\ [memory EXCEPT !.assetConfig = v] = MemoryPut("assetConfig", v)
         /\ [memory EXCEPT !.oracle = v] = MemoryPut("oracle", v)
<1>1. memory = [g \in MemoryFields |-> memory[g]]
  BY DEF Inv, ShapesInv, IsMap, MemoryFields
<1>2. [memory EXCEPT !.market = v] = MemoryPut("market", v)
  BY <1>1 DEF MemoryPut, MemoryFields
<1>3. [memory EXCEPT !.tools = v] = MemoryPut("tools", v)
  BY <1>1 DEF MemoryPut, MemoryFields
<1>4. [memory EXCEPT !.simpleVersion = v] = MemoryPut("simpleVersion", v)
  BY <1>1 DEF MemoryPut, MemoryFields
<1>5. [memory EXCEPT !.assetConfig = v] = MemoryPut("assetConfig", v)
  BY <1>1 DEF MemoryPut, MemoryFields
<1>6. [memory EXCEPT !.oracle = v] = MemoryPut("oracle", v)
  BY <1>1 DEF MemoryPut, MemoryFields
<1> QED BY <1>2, <1>3, <1>4, <1>5, <1>6

(* The configuration of the market: additions to what the handler          *)
(* remembers are inserted.                                                 *)
LEMMA MarketConfigJob ==
  ASSUME Inv, NEW j, Config(j)
  PROVE  Inv'
<1> DEFINE k == "market"
           old == memory.market
           new == j.trace.value
           u == tables.market
           w == [version |-> IF old.version # new.version THEN new.version ELSE u.version,
                 tokens  |-> Grown(old.tokens, new.tokens, u.tokens),
                 pairs   |-> Grown(old.pairs, new.pairs, u.pairs)]
<1>0. IsMap(tables, Fields)
  BY DEF Inv, ShapesInv, Shape
<1>1. /\ Runs(j, "config") /\ JobFrame /\ j.callback = "config"
      /\ tables' = [tables EXCEPT !.market = w] /\ memory' = [memory EXCEPT !.market = new]
  BY DEF Config, Runs
<1>2. FieldShape(k, w)
  BY DEF FieldShape, IsMap
<1>3. ASSUME old = u, Fits(j, k, u) PROVE w = new
  <2>1. ConfigFits(j, k, u)
    BY <1>3 DEF Fits, Configs, Rows
  <2>2. /\ Grows(u.tokens, new.tokens) /\ Grows(u.pairs, new.pairs)
        /\ new = [version |-> new.version, tokens |-> new.tokens, pairs |-> new.pairs]
    BY <1>1, <2>1 DEF ConfigFits
  <2>3. Grown(old.tokens, new.tokens, u.tokens) = new.tokens /\ Grown(old.pairs, new.pairs, u.pairs) = new.pairs
    BY <1>3, <2>2, GrownSame
  <2>4. (IF old.version # new.version THEN new.version ELSE u.version) = new.version
    BY <1>3
  <2> QED BY <2>2, <2>3, <2>4
<1>4. new = Made(j, k, u)
  BY <1>1 DEF Made, ConfigMade, Configs, Rows
<1> HIDE DEF w, new, u
<1>5. tables' = Put(tables, k, w) /\ memory' = MemoryPut(k, new)
  BY <1>0, <1>1, FieldPut, MemoryIsPut
<1>6. k \in Configs /\ "config" \in CallbacksOf(k) /\ memory[k] = old /\ tables[k] = u /\ k # "assetConfig"
  BY DEF Configs, CallbacksOf, Rows, u
<1> HIDE DEF k, old
<1>7. ~ ConfigForks /\ memory[k] = tables[k] /\ Fits(j, k, tables[k]) => w = new /\ new = Made(j, k, tables[k])
  BY <1>3, <1>4, <1>6
<1> QED BY <1>1, <1>2, <1>5, <1>6, <1>7, ConfigJob

(* A version that is written when it is not the one remembered. *)
LEMMA VersionJob ==
  ASSUME Inv, NEW j, NEW a, NEW k, <<a, k>> \in {<<"toolsconfig", "tools">>, <<"simpleconfig", "simpleVersion">>},
         Runs(j, a), JobFrame,
         tables' = IF memory[k] = j.trace.version THEN tables ELSE Put(tables, k, j.trace.version),
         memory' = MemoryPut(k, j.trace.version)
  PROVE  Inv'
<1> DEFINE m == j.trace.version
           w == IF memory[k] = m THEN tables[k] ELSE m
<1>1. tables = Put(tables, k, tables[k])
  BY DEF Inv, ShapesInv, Shape, IsMap, Put
<1>2. tables' = Put(tables, k, w)
  BY <1>1
<1>3. j.callback = a
  BY DEF Runs
<1>4. k \in Configs /\ a \in CallbacksOf(k) /\ k # "assetConfig" /\ FieldShape(k, w)
  BY DEF Configs, CallbacksOf, Rows, FieldShape
<1>5. m = Made(j, k, tables[k])
  BY <1>3 DEF Made, ConfigMade, Configs, Rows
<1>6. ~ ConfigForks /\ memory[k] = tables[k] /\ Fits(j, k, tables[k]) => w = m /\ m = Made(j, k, tables[k])
  BY <1>5
<1> HIDE DEF w, m
<1>7. memory' = MemoryPut(k, m)
  BY DEF m
<1> QED BY <1>2, <1>4, <1>6, <1>7, ConfigJob

(* Versions of tools and simpleassets. *)
LEMMA VersionJobs ==
  ASSUME Inv, NEW j, ToolsConfig(j) \/ SimpleTokenConfigs(j)
  PROVE  Inv'
<1> DEFINE v == j.trace.version
<1>0. IsMap(tables, Fields)
  BY DEF Inv, ShapesInv, Shape
<1>1. ASSUME ToolsConfig(j) PROVE Inv'
  <2>1. /\ Runs(j, "toolsconfig") /\ JobFrame /\ memory' = [memory EXCEPT !.tools = v]
        /\ tables' = IF memory.tools = v THEN tables ELSE [tables EXCEPT !.tools = v]
    BY <1>1 DEF ToolsConfig
  <2> HIDE DEF v
  <2>2. [tables EXCEPT !.tools = v] = Put(tables, "tools", v) /\ [memory EXCEPT !.tools = v] = MemoryPut("tools", v)
    BY <1>0, FieldPut, MemoryIsPut
  <2> QED BY <2>1, <2>2, VersionJob DEF v
<1>2. ASSUME SimpleTokenConfigs(j) PROVE Inv'
  <2>1. /\ Runs(j, "simpleconfig") /\ JobFrame /\ memory' = [memory EXCEPT !.simpleVersion = v]
        /\ tables' = IF memory.simpleVersion = v THEN tables ELSE [tables EXCEPT !.simpleVersion = v]
    BY <1>2 DEF SimpleTokenConfigs
  <2> HIDE DEF v
  <2>2. /\ [tables EXCEPT !.simpleVersion = v] = Put(tables, "simpleVersion", v)
        /\ [memory EXCEPT !.simpleVersion = v] = MemoryPut("simpleVersion", v)
    BY <1>0, FieldPut, MemoryIsPut
  <2> QED BY <2>1, <2>2, VersionJob DEF v
<1> QED BY <1>1, <1>2

(* Two of three fields are replaced. *)
LEMMA TwoOfThree ==
  ASSUME NEW u, IsMap(u, {"tokens", "format", "version"}), NEW a, NEW b
  PROVE  [u EXCEPT !.tokens = a, !.format = b] = [tokens |-> a, format |-> b, version |-> u.version]
<1> DEFINE e == [u EXCEPT !.tokens = a]
<1>1. e = [tokens |-> a, format |-> u.format, version |-> u.version]
  BY DEF IsMap
<1>2. [u EXCEPT !.tokens = a, !.format = b] = [e EXCEPT !.format = b] OBVIOUS
<1> HIDE DEF e
<1>3. [e EXCEPT !.format = b] = [tokens |-> a, format |-> b, version |-> u.version]
  BY <1>1
<1> QED BY <1>2, <1>3

(* The configuration of atomicassets. *)
LEMMA AssetConfigJob ==
  ASSUME Inv, NEW j, AssetConfig(j)
  PROVE  Inv'
<1> DEFINE k == "assetConfig"
           old == memory.assetConfig
           new == j.trace.value
           u == tables.assetConfig
           tokens == IF Cardinality(old.tokens) # Cardinality(new.tokens)
                     THEN u.tokens \cup (new.tokens \ old.tokens) ELSE u.tokens
           format == IF old.format # new.format THEN new.format ELSE u.format
           w == [tokens |-> tokens, format |-> format, version |-> u.version]
           m == [tokens |-> new.tokens, format |-> new.format, version |-> old.version]
<1>0. IsMap(tables, Fields) /\ IsMap(u, {"tokens", "format", "version"}) /\ IsMap(old, {"tokens", "format", "version"})
  BY DEF Inv, ShapesInv, Shape
<1>1. /\ Runs(j, "aaconfig") /\ JobFrame /\ j.callback = "aaconfig"
      /\ tables' = [tables EXCEPT !.assetConfig.tokens = tokens, !.assetConfig.format = format]
      /\ memory' = [memory EXCEPT !.assetConfig.tokens = new.tokens, !.assetConfig.format = new.format]
  BY DEF AssetConfig, Runs
<1>2. FieldShape(k, w) /\ IsMap(m, {"tokens", "format", "version"})
  BY DEF FieldShape, IsMap
<1>3. ASSUME old = u, Fits(j, k, u) PROVE w = m
  <2>1. ConfigFits(j, k, u)
    BY <1>3 DEF Fits, Configs, Rows
  <2>2. Grows(u.tokens, new.tokens)
    BY <1>1, <2>1 DEF ConfigFits
  <2>3. Grown(old.tokens, new.tokens, u.tokens) = new.tokens
    BY <1>3, <2>2, GrownSame
  <2>4. tokens = new.tokens
    BY <2>3 DEF Grown
  <2>5. format = new.format
    BY <1>3
  <2> HIDE DEF tokens, format
  <2> QED BY <1>3, <2>4, <2>5
<1>4. m = Made(j, k, u) \/ old # u
  BY <1>1 DEF Made, ConfigMade, Configs, Rows
<1> HIDE DEF tokens, format, new
<1>5. [tables EXCEPT !.assetConfig.tokens = tokens, !.assetConfig.format = format]
        = [tables EXCEPT !.assetConfig = w]
  <2>1. [u EXCEPT !.tokens = tokens, !.format = format] = w
    BY Zenon, <1>0, TwoOfThree
  <2>2. [tables EXCEPT !.assetConfig.tokens = tokens, !.assetConfig.format = format]
          = [tables EXCEPT !.assetConfig = [u EXCEPT !.tokens = tokens, !.format = format]]
    BY <1>0 DEF IsMap, Fields
  <2> QED BY <2>1, <2>2
<1>6. [memory EXCEPT !.assetConfig.tokens = new.tokens, !.assetConfig.format = new.format]
        = [memory EXCEPT !.assetConfig = m]
  <2>1. [old EXCEPT !.tokens = new.tokens, !.format = new.format] = m
    BY Zenon, <1>0, TwoOfThree
  <2>2. memory = [g \in MemoryFields |-> memory[g]]
    BY DEF Inv, ShapesInv, IsMap, MemoryFields
  <2>3. [memory EXCEPT !.assetConfig.tokens = new.tokens, !.assetConfig.format = new.format]
          = [memory EXCEPT !.assetConfig = [old EXCEPT !.tokens = new.tokens, !.format = new.format]]
    BY <2>2 DEF MemoryFields
  <2> QED BY <2>1, <2>3
<1> HIDE DEF w, m, u, old
<1>7. tables' = Put(tables, k, w) /\ memory' = MemoryPut(k, m)
  BY <1>0, <1>1, <1>5, <1>6, FieldPut, MemoryIsPut
<1>8. k \in Configs /\ "aaconfig" \in CallbacksOf(k) /\ memory[k] = old /\ tables[k] = u
  BY DEF Configs, CallbacksOf, Rows, u, old
<1> HIDE DEF k
<1>9. ~ ConfigForks /\ memory[k] = tables[k] /\ Fits(j, k, tables[k]) => w = m /\ m = Made(j, k, tables[k])
  BY <1>3, <1>4, <1>8
<1> QED BY <1>1, <1>2, <1>7, <1>8, <1>9, ConfigJob

(* Its version. *)
LEMMA AssetVersionJob ==
  ASSUME Inv, NEW j, AssetTokenConfigs(j)
  PROVE  Inv'
<1> DEFINE k == "assetConfig"
           old == memory.assetConfig
           new == j.trace.value.version
           u == tables.assetConfig
           w == IF old.version = new THEN u ELSE [u EXCEPT !.version = new]
           m == [old EXCEPT !.version = new]
<1>0. IsMap(tables, Fields) /\ IsMap(u, {"tokens", "format", "version"}) /\ IsMap(old, {"tokens", "format", "version"})
  BY DEF Inv, ShapesInv, Shape
<1>1. /\ Runs(j, "aatokens") /\ JobFrame /\ j.callback = "aatokens"
      /\ tables' = IF old.version = new THEN tables ELSE [tables EXCEPT !.assetConfig.version = new]
      /\ memory' = [memory EXCEPT !.assetConfig.version = new]
  BY DEF AssetTokenConfigs, Runs
<1>2. FieldShape(k, w) /\ IsMap(m, {"tokens", "format", "version"})
  BY <1>0 DEF FieldShape, IsMap
<1>3. ASSUME old = u PROVE w = m
  BY <1>0, <1>3 DEF IsMap
<1>4. m = Made(j, k, u) \/ old # u
  BY <1>0, <1>1 DEF Made, ConfigMade, Configs, Rows, IsMap
<1> HIDE DEF new
<1>5. tables' = [tables EXCEPT !.assetConfig = w]
  <2>1. tables = [tables EXCEPT !.assetConfig = u]
    BY <1>0 DEF IsMap, Fields
  <2>2. [tables EXCEPT !.assetConfig.version = new] = [tables EXCEPT !.assetConfig = [u EXCEPT !.version = new]]
    OBVIOUS
  <2> QED BY <1>1, <2>1, <2>2
<1>6. memory' = [memory EXCEPT !.assetConfig = m]
  BY <1>1
<1> HIDE DEF w, m, u, old
<1>7. tables' = Put(tables, k, w) /\ memory' = MemoryPut(k, m)
  BY <1>0, <1>1, <1>5, <1>6, FieldPut, MemoryIsPut
<1>8. k \in Configs /\ "aatokens" \in CallbacksOf(k) /\ memory[k] = old /\ tables[k] = u
  BY DEF Configs, CallbacksOf, Rows, u, old
<1> HIDE DEF k
<1>9. ~ ConfigForks /\ memory[k] = tables[k] /\ Fits(j, k, tables[k]) => w = m /\ m = Made(j, k, tables[k])
  BY <1>3, <1>4, <1>8
<1> QED BY <1>1, <1>2, <1>7, <1>8, <1>9, ConfigJob

----------------------------------------
(* Jobs of the oracle *)

(* Jobs of the oracle change its field of tables and memory only. *)
LEMMA OracleKept ==
  ASSUME Inv, NEW j, NEW a \in {"pairs", "datapoints"}, Runs(j, a), JobFrame,
         NEW w, IsMap(w, Pairs), tables' = Put(tables, "oracle", w),
         NEW m, memory' = MemoryPut("oracle", m)
  PROVE  Inv'
<1> DEFINE t == tables
           f == "oracle"
           d == Put(t, f, w)
<1>0. j.callback = a /\ Shape(t) /\ t.logs \in Nat
  BY DEF Runs, Inv, ShapesInv, Shape
<1>1. /\ f \in Fields /\ f \in Fields \ IdTables /\ FieldShape(f, w) /\ \A k \in Followed : FieldOf(k) # f
      /\ f \in MemoryFields \ {"simpleInserts", "mints"} /\ f # "assetConfig"
      /\ a \notin {"createlog", "minted", "stored", "transfer", "claim", "log"}
  BY DEF Fields, IdTables, FieldShape, FieldOf, Followed, DataKinds, Created, Written, Configs,
         Rows, MemoryFields
<1>2. Shape(d) /\ \A g \in Fields : g # f => d[g] = t[g]
  BY <1>0, <1>1, PutShape
<1>3. tables' = d OBVIOUS
<1> HIDE DEF d
<1>4. \A k \in Followed : \A x : ~ Touches(j, k, x)
  <2>1. KindOf(a) = a
    BY DEF KindOf, SaleUpdates, AuctionUpdates, BuyofferUpdates, TemplateBuyofferUpdates, LinkUpdates,
           SimpleUpdates, AssetUpdates
  <2>2. a \notin Followed
    BY DEF Followed, DataKinds, Created, Written, Configs, Rows
  <2>3. \A k \in Followed : a \notin CallbacksOf(k)
    BY <2>1, <2>2, KindOfCallback
  <2> QED BY <1>0, <2>3 DEF Touches
<1>5. RowsRun(j, t, d)
  BY <1>1, <1>2, <1>4, UntouchedRows
<1>6. d.transfers = t.transfers /\ d.simpleTransfers = t.simpleTransfers /\ d.logs = t.logs /\ SameConfig(t, d)
  BY <1>2 DEF Fields, SameConfig
<1>7. ListsRun(j, t, d)
  BY <1>0, <1>1, <1>6, NoListsRun
<1>8. MemoryInv'
  <2>1. running' = running /\ rolledBack' = rolledBack /\ previous' = previous /\ committed' = committed
    BY DEF JobFrame, readerVars, historyVars
  <2>2. Remembered(previous)' = Remembered(previous) /\ Remembered(committed)' = Remembered(committed)
    BY <2>1 DEF Remembered
  <2>3. /\ memory'.market = memory.market /\ memory'.tools = memory.tools
        /\ memory'.simpleVersion = memory.simpleVersion /\ memory'.assetConfig = memory.assetConfig
    BY DEF MemoryPut, MemoryFields
  <2>4. /\ tables'.market = t.market /\ tables'.tools = t.tools
        /\ tables'.simpleVersion = t.simpleVersion /\ tables'.assetConfig = t.assetConfig
    BY <1>3, <1>6 DEF SameConfig
  <2> QED BY <2>1, <2>2, <2>3, <2>4 DEF Inv, MemoryInv
<1> HIDE DEF f
<1>9. memory' = MemoryPut(f, m)
  BY DEF f
<1> QED BY <1>1, <1>2, <1>3, <1>5, <1>7, <1>8, <1>9, RunMemory

(* The rows savePair leaves. *)
LEMMA SavedPair ==
  ASSUME Shape(tables), NEW p
  PROVE  SavePair(p) = Put(tables, "oracle",
           [q \in Pairs |-> IF q = p /\ p \notin memory.oracle.pairs THEN PairRow(tables.oracle[p])
                            ELSE tables.oracle[q]])
<1> DEFINE w == [q \in Pairs |-> IF q = p /\ p \notin memory.oracle.pairs THEN PairRow(tables.oracle[p])
                                 ELSE tables.oracle[q]]
           u == tables.oracle
           r == PairRow(tables.oracle[p])
<1>1. IsMap(tables, Fields) /\ IsMap(u, Pairs)
  BY DEF Shape
<1>2. CASE p \in memory.oracle.pairs
  <2>1. w = u
    BY <1>1, <1>2 DEF IsMap
  <2>2. tables = Put(tables, "oracle", u)
    BY <1>1 DEF IsMap, Put
  <2>3. SavePair(p) = tables
    BY <1>2 DEF SavePair
  <2> HIDE DEF w
  <2> QED BY <2>1, <2>2, <2>3 DEF w
<1>3. CASE p \notin memory.oracle.pairs
  <2>1. w = [u EXCEPT ![p] = r]
    <3> HIDE DEF r
    <3>1. w = [q \in Pairs |-> IF q = p THEN r ELSE u[q]]
      BY <1>3 DEF r
    <3> QED BY <1>1, <3>1 DEF IsMap
  <2>2. SavePair(p) = [tables EXCEPT !.oracle[p] = r]
    BY <1>3 DEF SavePair, PairRow
  <2>3. [tables EXCEPT !.oracle[p] = r] = [tables EXCEPT !.oracle = [u EXCEPT ![p] = r]]
    OBVIOUS
  <2> HIDE DEF w, r
  <2> QED BY <1>1, <2>1, <2>2, <2>3, FieldPut DEF w
<1> QED BY <1>2, <1>3

(* The pairs it remembers. *)
LEMMA OracleMemory ==
  ASSUME Inv, NEW s
  PROVE  [memory EXCEPT !.oracle.pairs = s] = MemoryPut("oracle", [memory.oracle EXCEPT !.pairs = s])
<1> DEFINE v == [memory.oracle EXCEPT !.pairs = s]
<1>1. [memory EXCEPT !.oracle.pairs = s] = [memory EXCEPT !.oracle = v]
  OBVIOUS
<1> HIDE DEF v
<1>2. [memory EXCEPT !.oracle = v] = MemoryPut("oracle", v)
  BY MemoryIsPut
<1> QED BY <1>1, <1>2 DEF v

(* A pair is saved. *)
LEMMA SavePairJob ==
  ASSUME Inv, NEW j, SavePairRow(j)
  PROVE  Inv'
<1> DEFINE p == j.trace.name
           w == [q \in Pairs |-> IF q = p /\ p \notin memory.oracle.pairs THEN PairRow(tables.oracle[p])
                                 ELSE tables.oracle[q]]
           s == memory.oracle.pairs \cup {p}
           m == [memory.oracle EXCEPT !.pairs = s]
<1>1. /\ Runs(j, "pairs") /\ JobFrame /\ tables' = SavePair(p)
      /\ memory' = [memory EXCEPT !.oracle.pairs = s]
  BY DEF SavePairRow
<1>2. IsMap(w, Pairs)
  BY DEF IsMap
<1>3. SavePair(p) = Put(tables, "oracle", w)
  BY SavedPair DEF Inv, ShapesInv
<1>4. memory' = MemoryPut("oracle", m)
  BY <1>1, OracleMemory
<1> HIDE DEF w, m
<1> QED BY <1>1, <1>2, <1>3, <1>4, OracleKept

(* What a median changes. *)
LEMMA DatapointPut ==
  ASSUME Inv, NEW j, Datapoint(j)
  PROVE  /\ Runs(j, "datapoints") /\ JobFrame
         /\ tables' = Put(tables, "oracle", DatapointRows(j)) /\ IsMap(DatapointRows(j), Pairs)
         /\ memory' = MemoryPut("oracle", DatapointMemory(j))
<1> DEFINE p == j.trace.name
           s == IF PairMissing(p) THEN memory.oracle.pairs \cup {p} ELSE memory.oracle.pairs
           l == IF UpdateDue(j) THEN j.trace.block ELSE memory.oracle.lastUpdated[p]
           m == [[memory.oracle EXCEPT !.pairs = s] EXCEPT !.lastUpdated[p] = l]
           e == FillPair(p)
           r == [e.oracle[p] EXCEPT !.median = j.trace.block, !.updated_at_block = j.trace.block]
           w == IF UpdateDue(j) THEN [e.oracle EXCEPT ![p] = r] ELSE e.oracle
<1>0. Shape(tables) /\ IsMap(tables, Fields) /\ IsMap(tables.oracle, Pairs)
  BY DEF Inv, ShapesInv, Shape
<1>1. /\ Runs(j, "datapoints") /\ JobFrame
      /\ tables' = IF UpdateDue(j)
                   THEN [e EXCEPT !.oracle[p].median = j.trace.block, !.oracle[p].updated_at_block = j.trace.block]
                   ELSE e
      /\ memory' = [memory EXCEPT !.oracle.pairs = s, !.oracle.lastUpdated[p] = l]
  BY DEF Datapoint
<1>2. e = Put(tables, "oracle", e.oracle) /\ IsMap(e.oracle, Pairs) /\ IsMap(e, Fields)
  <2> DEFINE v == [q \in Pairs |-> IF q = p /\ p \notin memory.oracle.pairs THEN PairRow(tables.oracle[p])
                                   ELSE tables.oracle[q]]
  <2>1. SavePair(p) = Put(tables, "oracle", v)
    BY <1>0, SavedPair
  <2>2. IsMap(v, Pairs)
    BY DEF IsMap
  <2> HIDE DEF v
  <2>3. tables = Put(tables, "oracle", tables.oracle)
    BY <1>0 DEF IsMap, Put
  <2>4. /\ IsMap(Put(tables, "oracle", v), Fields)
        /\ Put(tables, "oracle", v).oracle = v
    BY DEF IsMap, Put, Fields
  <2>5. e = IF PairMissing(p) THEN SavePair(p) ELSE tables
    BY DEF FillPair
  <2> HIDE DEF e
  <2> QED BY <1>0, <2>1, <2>2, <2>3, <2>4, <2>5
<1> HIDE DEF e
<1>3. tables' = Put(tables, "oracle", w)
  <2>1. CASE UpdateDue(j)
    <3>1. [e EXCEPT !.oracle[p].median = j.trace.block, !.oracle[p].updated_at_block = j.trace.block]
            = [e EXCEPT !.oracle = [e.oracle EXCEPT ![p] = r]]
      <4> DEFINE g == [e.oracle EXCEPT ![p].median = j.trace.block]
      <4>1. [e EXCEPT !.oracle[p].median = j.trace.block, !.oracle[p].updated_at_block = j.trace.block]
              = [e EXCEPT !.oracle = [g EXCEPT ![p].updated_at_block = j.trace.block]]
        BY ZenonT(40), <1>2 DEF IsMap, Fields
      <4>2. [g EXCEPT ![p].updated_at_block = j.trace.block] = [e.oracle EXCEPT ![p] = r]
        BY Zenon, <1>2 DEF IsMap
      <4> QED BY <4>1, <4>2
    <3> HIDE DEF r
    <3>2. w = [e.oracle EXCEPT ![p] = r]
      BY <2>1
    <3> HIDE DEF w
    <3>3. [e EXCEPT !.oracle = w] = Put(e, "oracle", w)
      BY <1>2, FieldPut
    <3>4. Put(e, "oracle", w) = Put(tables, "oracle", w)
      BY <1>2 DEF Put, Fields
    <3> QED BY <1>1, <2>1, <3>1, <3>2, <3>3, <3>4
  <2>2. CASE ~ UpdateDue(j)
    BY <1>1, <1>2, <2>2
  <2> QED BY <2>1, <2>2
<1>4. IsMap(w, Pairs)
  <2> HIDE DEF r
  <2> QED BY Zenon, <1>2 DEF IsMap
<1>5. memory' = MemoryPut("oracle", m)
  <2>1. [memory EXCEPT !.oracle.pairs = s, !.oracle.lastUpdated[p] = l] = [memory EXCEPT !.oracle = m]
    <3>1. memory = [g \in MemoryFields |-> memory[g]]
      BY DEF Inv, ShapesInv, IsMap, MemoryFields
    <3> HIDE DEF s, l
    <3> QED BY <3>1 DEF MemoryFields
  <2> HIDE DEF m
  <2> QED BY <1>1, <2>1, MemoryIsPut
<1>6. w = DatapointRows(j) /\ m = DatapointMemory(j)
  BY DEF DatapointRows, DatapointMemory, e
<1> HIDE DEF w, m
<1> QED BY <1>1, <1>3, <1>4, <1>5, <1>6

(* A median is written, or is not due. *)
LEMMA DatapointJob ==
  ASSUME Inv, NEW j, Datapoint(j)
  PROVE  Inv'
BY DatapointPut, OracleKept

----------------------------------------
(* The steps of the reader *)

(* Every job of every handler. *)
LEMMA HandlerJobs ==
  ASSUME Inv, NEW j, MarketJob(j) \/ OracleJob(j) \/ ToolsJob(j) \/ SimpleJob(j) \/ AssetsJob(j) \/ LogTrace(j)
  PROVE  Inv'
<1>1. ASSUME MarketJob(j) PROVE Inv'
  BY <1>1, SaleJobs, AuctionJobs, BuyofferJobs, TemplateBuyofferJobs, MarketConfigJob, RowJobs DEF MarketJob
<1>2. ASSUME OracleJob(j) PROVE Inv'
  BY <1>2, SavePairJob, DatapointJob DEF OracleJob
<1>3. ASSUME ToolsJob(j) PROVE Inv'
  BY <1>3, LinkJobs, VersionJobs DEF ToolsJob
<1>4. ASSUME SimpleJob(j) PROVE Inv'
  BY <1>4, CreateLogJob, SimpleUpdateJobs, AccountJobs, VersionJobs DEF SimpleJob
<1>5. ASSUME AssetsJob(j) PROVE Inv'
  BY <1>5, MintedJob, MintedJobs, TransferJob, AssetConfigJob, AssetVersionJob, DefinitionJobs, AccountJobs DEF AssetsJob
<1>6. ASSUME LogTrace(j) PROVE Inv'
  BY <1>6, LogJob
<1> QED BY <1>1, <1>2, <1>3, <1>4, <1>5, <1>6

(* Nothing is collected between transactions. *)
LEMMA NothingCollected ==
  ASSUME Inv, running, ~ executing \/ lastPriority # AA_ACTION_MINT_ASSET
  PROVE  memory.mints = {} /\ memory.simpleInserts = {} /\ Now = tables
<1>1. memory.mints = {} /\ memory.simpleInserts = {}
  BY DEF Inv, CollectedInv
<1> QED BY <1>1, IntoNothing DEF Now, Inv, ShapesInv

(* executeHeadQueue starts. *)
LEMMA StartKeeps ==
  ASSUME Inv, Start
  PROVE  Inv'
<1>1. /\ running /\ ~ executing /\ executing' = TRUE /\ queue' = liveQueue
      /\ liveQueue' = {} /\ traces' = 0 /\ lastPriority' = None
      /\ started' = [jobs |-> liveQueue, traces |-> traces]
      /\ chain' = chain /\ tables' = tables /\ memory' = memory /\ committed' = committed /\ previous' = previous
      /\ rolledBack' = rolledBack /\ head' = head /\ running' = running /\ forks' = forks
  BY DEF Start, ExecuteHeadQueue, historyVars, boundVars
<1>2. memory.mints = {} /\ memory.simpleInserts = {} /\ Now = tables
  BY <1>1, NothingCollected
<1>3. started'.jobs = liveQueue /\ started'.traces = traces
  BY <1>1
<1>4. Origin' = Origin /\ Pending' = liveQueue /\ Pending = liveQueue /\ tables = Origin
  BY <1>1, <1>3 DEF Origin, Pending, Inv, ReaderInv
<1>5. ShapesInv'
  BY <1>1 DEF Inv, ShapesInv
<1>6. Collected' = tables
  <2>1. Collected' = Now'
    BY <1>5, CollectedThen DEF ShapesInv, Shape
  <2> QED BY <1>1, <1>2, <2>1 DEF Now
<1>7. JobsOK({}, 0)
  BY FS_EmptySet DEF JobsOK
<1>8. ReaderInv'
  BY <1>1, <1>3, <1>7 DEF Inv, ReaderInv
<1>9. CollectedInv'
  BY <1>1, <1>2 DEF Inv, CollectedInv
<1>10. MemoryInv'
  BY <1>1 DEF Inv, MemoryInv, Remembered
<1>11. RestsInv'
  BY <1>1, <1>4, <1>6 DEF Inv, RestsInv
<1> QED BY <1>5, <1>8, <1>9, <1>10, <1>11 DEF Inv

(* A priority is complete: what was collected is inserted. *)
LEMMA PriorityKeeps ==
  ASSUME Inv, PriorityComplete
  PROVE  Inv'
<1>1. /\ executing /\ executing' = TRUE /\ queue' = queue /\ liveQueue' = liveQueue /\ traces' = traces
      /\ lastPriority' = None /\ started' = started
      /\ chain' = chain /\ committed' = committed /\ previous' = previous
      /\ rolledBack' = rolledBack /\ head' = head /\ running' = running /\ forks' = forks /\ running
  BY DEF PriorityComplete, CompletePriority, PriorityDone, JobFrame, historyVars, readerVars, boundVars,
         Inv, ReaderInv
<1>2. Collected = Now
  BY CollectedNow DEF Inv, ShapesInv, Shape, Collected, Now
<1> DEFINE S == memory.simpleInserts
           M == memory.mints
           C == Into(tables, S, M)
<1>3. /\ C.simple = SimpleInto(tables.simple, S) /\ C.minted = MintedInto(tables.minted, M)
      /\ \A g \in Fields : g # "simple" /\ g # "minted" => C[g] = tables[g]
  BY IntoFields
<1>4. Shape(C)
  BY IntoShape DEF Inv, ShapesInv
<1>5. tables' = C /\ memory'.mints = {} /\ memory'.simpleInserts = {} /\ IsMap(memory', MemoryFields)
      /\ \A g \in MemoryFields \ {"mints", "simpleInserts"} : memory'[g] = memory[g]
  <2>1. CASE lastPriority = AA_ACTION_MINT_ASSET
    <3>1. tables' = Collected /\ memory' = [memory EXCEPT !.mints = {}, !.simpleInserts = {}]
      BY <2>1 DEF PriorityComplete, Collected
    <3>2. IsMap(memory, MemoryFields)
      BY DEF Inv, ShapesInv, MemoryFields
    <3>3. /\ IsMap(memory', MemoryFields) /\ memory'.mints = {} /\ memory'.simpleInserts = {}
          /\ \A g \in MemoryFields \ {"mints", "simpleInserts"} : memory'[g] = memory[g]
      BY Zenon, <3>1, <3>2 DEF IsMap, MemoryFields
    <3> QED BY <1>2, <3>1, <3>3 DEF Now
  <2>2. CASE lastPriority # AA_ACTION_MINT_ASSET
    <3>1. tables' = tables /\ memory' = memory
      BY <2>2 DEF PriorityComplete
    <3>2. memory.mints = {} /\ memory.simpleInserts = {} /\ Now = tables
      BY <1>1, <2>2, NothingCollected
    <3>3. IsMap(memory, MemoryFields)
      BY DEF Inv, ShapesInv, MemoryFields
    <3> QED BY <3>1, <3>2, <3>3 DEF Now
  <2> QED BY <2>1, <2>2
<1> HIDE DEF C
<1>6. ShapesInv'
  <2>1. memory'.assetConfig = memory.assetConfig
    BY <1>5 DEF MemoryFields
  <2> QED BY <1>1, <1>4, <1>5, <2>1 DEF Inv, ShapesInv, MemoryFields
<1>7. Collected' = C
  <2>1. Collected' = Now'
    BY <1>6, CollectedThen DEF ShapesInv, Shape
  <2> QED BY <1>4, <1>5, <2>1, IntoNothing DEF Now
<1>8. Origin' = Origin /\ Pending' = Pending
  BY <1>1 DEF Origin, Pending
<1>9. ReaderInv'
  BY <1>1, <1>8 DEF Inv, ReaderInv
<1>10. CollectedInv'
  BY <1>1, <1>5 DEF CollectedInv, CollectedOnce, SimpleOnce, MintedOnce
<1>11. MemoryInv'
  <2>1. /\ C.market = tables.market /\ C.tools = tables.tools /\ C.simpleVersion = tables.simpleVersion
        /\ C.assetConfig = tables.assetConfig
    BY <1>3 DEF Fields
  <2>2. /\ memory'.market = memory.market /\ memory'.tools = memory.tools
        /\ memory'.simpleVersion = memory.simpleVersion /\ memory'.assetConfig = memory.assetConfig
    BY <1>5 DEF MemoryFields
  <2> QED BY <1>1, <1>5, <2>1, <2>2 DEF Inv, MemoryInv, Remembered
<1>12. RestsInv'
  <2>1. Rests(C, queue, chain)
    BY <1>1, <1>2 DEF Inv, RestsInv, Now, C
  <2> QED BY <1>1, <1>7, <1>8, <2>1 DEF Inv, RestsInv
<1> QED BY <1>6, <1>9, <1>10, <1>11, <1>12 DEF Inv

(* With nothing left to execute, the row is the one asked for. *)
LEMMA RestsIs ==
  ASSUME NEW t, NEW c
  PROVE  Rests(t, {}, c) <=>
           /\ \A k \in Followed : \A x \in KeysOf(k) : Cell(t, k, x) = Due(c, k, x)
           /\ t.transfers = c.transfers /\ t.simpleTransfers = c.simpleTransfers
           /\ t.logs + 0 = c.logs
<1>1. \A k, x : JobsOn(k, x, {}) = {}
  BY DEF JobsOn
<1>2. \A k, u, v : Leads(k, {}, u, v) <=> u = v
  BY LeadsNowhere
<1>3. \A k, x : Follows(k, x, t, {}, c) <=> Cell(t, k, x) = Due(c, k, x)
  BY <1>1, <1>2 DEF Follows
<1>4. StoredOf({}) = {} /\ SimpleStoredOf({}) = {} /\ LogsOf({}) = {} /\ Cardinality({}) = 0
  BY FS_EmptySet DEF StoredOf, SimpleStoredOf, LogsOf
<1> QED BY <1>3, <1>4 DEF Rests

(* A transaction ends. *)
LEMMA CommittedKeeps ==
  ASSUME Inv, running, executing \/ ~ executing, ~ executing => liveQueue = {},
         executing => queue = {} /\ lastPriority = None,
         executing' = FALSE, lastPriority' = None, liveQueue' = liveQueue, traces' = traces, queue' = queue,
         Committed
  PROVE  Inv'
<1>1. /\ committed' = [chain |-> chain, tables |-> tables]
      /\ previous' = IF rolledBack THEN previous ELSE committed
      /\ rolledBack' = FALSE /\ chain' = chain /\ tables' = tables /\ memory' = memory
      /\ running' = running /\ forks' = forks /\ liveQueue = {} /\ queue = {}
  BY DEF Committed, boundVars, Inv, ReaderInv
<1>2. lastPriority # AA_ACTION_MINT_ASSET \/ ~ executing
  BY DEF None, AA_ACTION_MINT_ASSET, ATOMICASSETS_BASE_PRIORITY
<1>3. memory.mints = {} /\ memory.simpleInserts = {} /\ Now = tables
  BY <1>2, NothingCollected
<1>4. Rests(tables, {}, chain)
  <2>1. CASE executing
    <3>1. Collected = Now
      BY CollectedNow DEF Inv, ShapesInv, Shape, Collected, Now
    <3> QED BY <1>1, <1>3, <2>1, <3>1 DEF Inv, RestsInv
  <2>2. CASE ~ executing
    BY <1>1, <2>2 DEF Inv, RestsInv, ReaderInv, Pending
  <2> QED BY <2>1, <2>2
<1>5. committed'.chain = chain /\ committed'.tables = tables
  BY <1>1
<1>6. Origin' = tables /\ Pending' = {}
  BY <1>1, <1>5 DEF Origin, Pending
<1>7. ShapesInv'
  BY <1>1, <1>5 DEF Inv, ShapesInv
<1>8. ReaderInv'
  BY <1>1, <1>6 DEF Inv, ReaderInv
<1>9. CollectedInv'
  BY <1>1, <1>3 DEF Inv, CollectedInv
<1>10. MemoryInv'
  BY <1>1 DEF Inv, MemoryInv
<1>11. RestsInv'
  BY <1>1, <1>4, <1>5, <1>6 DEF Inv, RestsInv
<1> QED BY <1>7, <1>8, <1>9, <1>10, <1>11 DEF Inv

(* Both ways to commit. *)
LEMMA CommitKeeps ==
  ASSUME Inv, Commit \/ CommitEmpty
  PROVE  Inv'
<1>1. ASSUME Commit PROVE Inv'
  <2>1. /\ executing /\ queue = {} /\ ~ PriorityDone /\ executing' = FALSE /\ lastPriority' = None
        /\ liveQueue' = liveQueue /\ traces' = traces /\ queue' = queue /\ Committed
    BY <1>1 DEF Commit, FinishQueue
  <2>2. lastPriority = None /\ running
    BY <2>1 DEF PriorityDone, Inv, ReaderInv
  <2> QED BY <2>1, <2>2, CommittedKeeps
<1>2. ASSUME CommitEmpty PROVE Inv'
  BY <1>2, CommittedKeeps DEF CommitEmpty, processorVars, Inv, ReaderInv
<1> QED BY <1>1, <1>2

(* The reader reaches the head of the chain. *)
LEMMA ReachHeadKeeps ==
  ASSUME Inv, ReachHead
  PROVE  Inv'
<1>1. /\ running /\ ~ head /\ ~ executing /\ liveQueue = {} /\ head' = TRUE /\ previous' = committed
      /\ UNCHANGED <<liveQueue, traces, executing, queue, lastPriority, chain, tables, memory, committed,
                     rolledBack, started, running, forks>>
  BY DEF ReachHead, processorVars, boundVars
<1>2. ~ rolledBack
  BY <1>1 DEF Inv, ReaderInv
<1>3. Origin' = Origin /\ Pending' = Pending
  BY <1>1, <1>2 DEF Origin, Pending
<1>4. ShapesInv'
  BY <1>1 DEF Inv, ShapesInv
<1>5. ReaderInv'
  BY <1>1, <1>3 DEF Inv, ReaderInv
<1>6. CollectedInv'
  BY <1>1 DEF Inv, CollectedInv
<1>7. MemoryInv'
  BY <1>1, <1>2 DEF Inv, MemoryInv
<1>8. RestsInv'
  BY <1>1, <1>3 DEF Inv, RestsInv
<1> QED BY <1>4, <1>5, <1>6, <1>7, <1>8 DEF Inv

(* Tables with nothing left to execute have the contracts' configuration. *)
LEMMA RestsConfig ==
  ASSUME ~ ConfigForks, NEW t, NEW c, Rests(t, {}, c)
  PROVE  <<t.market, t.tools, t.simpleVersion, t.assetConfig>> = ConfigDue(c)
<1>1. \A k \in Configs : k \in Followed /\ KeysOf(k) = {"config"} /\ \A x : Cell(t, k, x) = t[k]
  BY DEF Followed, KeysOf, Configs, Cell, Rows
<1>2. \A k \in Configs : t[k] = Due(c, k, "config")
  BY <1>1, RestsIs
<1> QED BY <1>2 DEF ConfigDue, Configs

(* A fork that takes nothing back that is remembered leaves the            *)
(* configuration.                                                          *)
LEMMA RememberedConfig ==
  ASSUME NEW s, NEW r, Remembered(s) = Remembered(r)
  PROVE  ConfigDue(s.chain) = ConfigDue(r.chain)
<1>1. /\ s.chain.market = r.chain.market /\ s.chain.tools = r.chain.tools
      /\ s.chain.simpleVersion = r.chain.simpleVersion /\ s.chain.assetConfig = r.chain.assetConfig
  BY DEF Remembered
<1> QED BY <1>1 DEF ConfigDue, Due, Configs, Rows, SinceOne

(* The last block is taken back. *)
LEMMA ForkKeeps ==
  ASSUME Inv, ForkSwitch
  PROVE  Inv'
<1>1. /\ running /\ head /\ ~ executing /\ liveQueue = {} /\ ~ rolledBack /\ forks' = forks + 1
      /\ chain' = previous.chain /\ tables' = previous.tables /\ rolledBack' = TRUE
      /\ UNCHANGED <<liveQueue, traces, executing, queue, lastPriority, memory, committed, previous, started,
                     running, head>>
      /\ ConfigForks \/ Remembered(previous) = Remembered(committed)
  BY DEF ForkSwitch, Fork, processorVars, historyVars
<1>2. Origin' = previous.tables /\ Pending' = {}
  BY <1>1 DEF Origin, Pending
<1>3. ShapesInv'
  BY <1>1 DEF Inv, ShapesInv
<1>4. ReaderInv'
  BY <1>1, <1>2 DEF Inv, ReaderInv
<1>5. CollectedInv'
  BY <1>1 DEF Inv, CollectedInv
<1>6. MemoryInv'
  <2>1. ASSUME ~ ConfigForks
        PROVE  <<committed.tables.market, committed.tables.tools, committed.tables.simpleVersion, committed.tables.assetConfig>>
                 = <<previous.tables.market, previous.tables.tools, previous.tables.simpleVersion, previous.tables.assetConfig>>
    <3>1. Rests(committed.tables, {}, committed.chain) /\ Rests(previous.tables, {}, previous.chain)
      BY DEF Inv, RestsInv
    <3>2. ConfigDue(previous.chain) = ConfigDue(committed.chain)
      BY <1>1, <2>1, RememberedConfig
    <3> QED BY <2>1, <3>1, <3>2, RestsConfig
  <2>2. tables = committed.tables
    BY <1>1 DEF Inv, ReaderInv, Origin
  <2> QED BY <1>1, <2>1, <2>2 DEF Inv, MemoryInv, Remembered
<1>7. RestsInv'
  BY <1>1, <1>2 DEF Inv, RestsInv
<1> QED BY <1>3, <1>4, <1>5, <1>6, <1>7 DEF Inv

(* The reader stops: the transaction is given up and its jobs come again. *)
LEMMA StoppedKeeps ==
  ASSUME Inv, Stopped, executing' = FALSE, queue' = {}, lastPriority' = None,
         liveQueue' = Pending, JobsOK(liveQueue', traces')
  PROVE  Inv'
<1>1. /\ running' = FALSE /\ tables' = Origin
      /\ UNCHANGED <<chain, memory, committed, previous, rolledBack, head, forks, started>>
  BY DEF Stopped, historyVars, Origin
<1>2. Origin' = Origin /\ Pending' = Pending
  BY <1>1 DEF Origin, Pending
<1>3. ShapesInv'
  BY <1>1 DEF Inv, ShapesInv, Origin
<1>4. ReaderInv'
  BY <1>1, <1>2 DEF Inv, ReaderInv
<1>5. CollectedInv'
  BY <1>1 DEF Inv, CollectedInv
<1>6. MemoryInv'
  BY <1>1 DEF Inv, MemoryInv, Remembered
<1>7. RestsInv'
  BY <1>1, <1>2 DEF Inv, RestsInv
<1> QED BY <1>3, <1>4, <1>5, <1>6, <1>7 DEF Inv

(* A crash, or a job that throws. *)
LEMMA StopKeeps ==
  ASSUME Inv, Crash \/ \E j \in queue : Throw(j)
  PROVE  Inv'
<1>1. ASSUME Crash PROVE Inv'
  <2>1. ~ executing /\ Stopped
        /\ UNCHANGED <<liveQueue, traces, executing, queue, lastPriority>>
    BY <1>1 DEF Crash, processorVars
  <2>2. executing' = FALSE /\ queue' = {} /\ lastPriority' = None /\ liveQueue' = Pending /\ JobsOK(liveQueue', traces')
    BY <2>1 DEF Inv, ReaderInv, Pending
  <2> QED BY <2>1, <2>2, StoppedKeeps
<1>2. ASSUME NEW j \in queue, Throw(j) PROVE Inv'
  <2>1. /\ executing /\ executing' = FALSE /\ queue' = {} /\ lastPriority' = None
        /\ liveQueue' = started.jobs /\ traces' = started.traces /\ Stopped
    BY <1>2 DEF Throw
  <2>2. liveQueue' = Pending /\ JobsOK(liveQueue', traces')
    BY <2>1 DEF Inv, ReaderInv, Pending
  <2> QED BY <2>1, <2>2, StoppedKeeps
<1> QED BY <1>1, <1>2

----------------------------------------
(* A new process *)

(* Pairs that init inserts. *)
LEMMA InitPairsIs ==
  ASSUME NEW t, Shape(t)
  PROVE  /\ Shape(InitPairs(t))
         /\ \A f \in Fields : f # "oracle" => InitPairs(t)[f] = t[f]
         /\ InitPairs(t).oracle =
              [p \in Pairs |-> IF chain.oracle[p].listed /\ committed.tables.oracle[p] = NoRow
                               THEN NewPair ELSE t.oracle[p]]
<1> DEFINE w == [p \in Pairs |-> IF chain.oracle[p].listed /\ committed.tables.oracle[p] = NoRow
                                 THEN NewPair ELSE t.oracle[p]]
           f == "oracle"
           d == Put(t, f, w)
<1>1. InitPairs(t) = [t EXCEPT !.oracle = w]
  BY DEF InitPairs
<1>2. IsMap(w, Pairs) /\ IsMap(t, Fields)
  BY DEF IsMap, Shape
<1>3. FieldShape(f, w) /\ f \in Fields \ IdTables
  BY <1>2 DEF FieldShape, Fields, IdTables
<1> HIDE DEF w
<1>4. InitPairs(t) = d
  BY <1>1, <1>2, FieldPut
<1>5. Shape(d) /\ d[f] = w /\ \A g \in Fields : g # f => d[g] = t[g]
  BY <1>3, PutShape
<1> QED BY <1>4, <1>5 DEF w

(* They are followed by no row. *)
LEMMA RestsFilled ==
  ASSUME NEW t, Shape(t), NEW Q, NEW c, Rests(t, Q, c)
  PROVE  Rests(InitPairs(t), Q, c)
<1> DEFINE d == InitPairs(t)
           f == "oracle"
<1>1. \A g \in Fields : g # f => d[g] = t[g]
  BY InitPairsIs
<1>2. f \in Fields /\ \A k \in Followed : FieldOf(k) # f
  BY DEF Fields, FieldOf, Followed, DataKinds, Created, Written, Configs, Rows
<1>3. d.transfers = t.transfers /\ d.simpleTransfers = t.simpleTransfers /\ d.logs = t.logs
  BY <1>1 DEF Fields
<1> HIDE DEF d
<1>4. \A k \in Followed : \A x : Cell(d, k, x) = Cell(t, k, x)
  BY <1>1, <1>2, OtherFields
<1>5. \A k \in Followed : \A x \in KeysOf(k) : Follows(k, x, d, Q, c)
  <2> SUFFICES ASSUME NEW k \in Followed, NEW x \in KeysOf(k)
               PROVE  Follows(k, x, d, Q, c)
    OBVIOUS
  <2>1. Follows(k, x, t, Q, c) /\ Cell(d, k, x) = Cell(t, k, x)
    BY <1>4 DEF Rests
  <2> QED BY <2>1 DEF Follows
<1>6. Rests(d, Q, c)
  BY <1>3, <1>5 DEF Rests
<1> QED BY <1>6 DEF d

(* A new process loads its memory from the tables. *)
LEMMA NewProcessKeeps ==
  ASSUME Inv, NewProcess
  PROVE  Inv'
<1> DEFINE F == [t \in {tables, committed.tables, previous.tables} |-> InitPairs(t)]
           C == InitPairs(committed.tables)
           P == InitPairs(previous.tables)
           T == InitPairs(tables)
<1>1. /\ ~ running /\ running' = TRUE /\ memory' = Loaded(committed.tables)
      /\ tables' = F[tables] /\ committed' = [committed EXCEPT !.tables = F[@]]
      /\ previous' = [previous EXCEPT !.tables = F[@]]
      /\ UNCHANGED <<liveQueue, traces, executing, queue, lastPriority, chain, rolledBack, started, head, forks>>
  BY DEF NewProcess, Restart, processorVars, boundVars
<1>2. F[tables] = T /\ F[committed.tables] = C /\ F[previous.tables] = P
  OBVIOUS
<1> HIDE DEF F, C, P, T
<1>3. ~ executing /\ tables = Origin /\ Pending = liveQueue
  BY <1>1 DEF Inv, ReaderInv, Pending
<1>4. tables' = T /\ committed' = [chain |-> committed.chain, tables |-> C]
      /\ previous' = [chain |-> previous.chain, tables |-> P]
  BY <1>1, <1>2 DEF Inv, ShapesInv
<1>5. /\ committed'.chain = committed.chain /\ committed'.tables = C
      /\ previous'.chain = previous.chain /\ previous'.tables = P
  BY <1>4
<1>6. Shape(T) /\ Shape(C) /\ Shape(P)
  BY InitPairsIs DEF Inv, ShapesInv, T, C, P
<1>7. Origin' = T /\ Pending' = liveQueue
  BY <1>1, <1>3, <1>4, <1>5 DEF Origin, Pending, T, C, P
<1>8. /\ memory'.market = committed.tables.market /\ memory'.tools = committed.tables.tools
      /\ memory'.simpleVersion = committed.tables.simpleVersion /\ memory'.assetConfig = committed.tables.assetConfig
      /\ memory'.mints = {} /\ memory'.simpleInserts = {}
      /\ IsMap(memory', MemoryFields)
  BY <1>1 DEF Loaded, IsMap, MemoryFields
<1>9. ShapesInv'
  <2>1. IsMap(committed.tables.assetConfig, {"tokens", "format", "version"})
    BY DEF Inv, ShapesInv, Shape
  <2> QED BY <1>1, <1>4, <1>5, <1>6, <1>8, <2>1 DEF Inv, ShapesInv, MemoryFields
<1>10. ReaderInv'
  BY <1>1, <1>3, <1>4, <1>7 DEF Inv, ReaderInv
<1>11. CollectedInv'
  BY <1>1, <1>3, <1>8 DEF CollectedInv, CollectedOnce, SimpleOnce, MintedOnce
<1>12. MemoryInv'
  <2> SUFFICES ASSUME ~ ConfigForks
               PROVE  MemoryInv'
    BY DEF MemoryInv
  <2>1. /\ T.market = tables.market /\ T.tools = tables.tools /\ T.simpleVersion = tables.simpleVersion
        /\ T.assetConfig = tables.assetConfig
    <3>1. \A f \in Fields : f # "oracle" => T[f] = tables[f]
      BY InitPairsIs DEF Inv, ShapesInv, T
    <3> QED BY <3>1 DEF Fields
  <2>2. <<tables.market, tables.tools, tables.simpleVersion, tables.assetConfig>>
          = <<committed.tables.market, committed.tables.tools, committed.tables.simpleVersion, committed.tables.assetConfig>>
    <3>1. CASE rolledBack
      <4>1. Rests(committed.tables, {}, committed.chain) /\ Rests(previous.tables, {}, previous.chain)
        BY DEF Inv, RestsInv
      <4>2. ConfigDue(previous.chain) = ConfigDue(committed.chain)
        BY <3>1, RememberedConfig DEF Inv, MemoryInv
      <4>3. tables = previous.tables
        BY <1>3, <3>1 DEF Origin
      <4>4. <<previous.tables.market, previous.tables.tools, previous.tables.simpleVersion, previous.tables.assetConfig>>
              = ConfigDue(previous.chain)
        BY <4>1, RestsConfig
      <4>5. <<committed.tables.market, committed.tables.tools, committed.tables.simpleVersion, committed.tables.assetConfig>>
              = ConfigDue(committed.chain)
        BY <4>1, RestsConfig
      <4> QED BY <4>2, <4>3, <4>4, <4>5
    <3>2. CASE ~ rolledBack
      BY <1>3, <3>2 DEF Origin
    <3> QED BY <3>1, <3>2
  <2>3. /\ memory'.market = tables'.market /\ memory'.tools = tables'.tools
        /\ memory'.simpleVersion = tables'.simpleVersion /\ memory'.assetConfig = tables'.assetConfig
    BY <1>4, <1>8, <2>1, <2>2
  <2>4. rolledBack => Remembered(previous)' = Remembered(committed)'
    <3> SUFFICES ASSUME rolledBack
                 PROVE  Remembered(previous)' = Remembered(committed)'
      OBVIOUS
    <3>1. Remembered(previous) = Remembered(committed)
      BY DEF Inv, MemoryInv
    <3>2. /\ previous.chain.market = committed.chain.market /\ previous.chain.tools = committed.chain.tools
          /\ previous.chain.simpleVersion = committed.chain.simpleVersion
          /\ previous.chain.assetConfig = committed.chain.assetConfig
          /\ [p \in Pairs |-> previous.tables.oracle[p] = NoRow] = [p \in Pairs |-> committed.tables.oracle[p] = NoRow]
      BY <3>1 DEF Remembered
    <3>3. \A p \in Pairs : previous.tables.oracle[p] = NoRow <=> committed.tables.oracle[p] = NoRow
      <4> SUFFICES ASSUME NEW p \in Pairs
                   PROVE  (previous.tables.oracle[p] = NoRow) = (committed.tables.oracle[p] = NoRow)
        OBVIOUS
      <4> DEFINE g == [q \in Pairs |-> previous.tables.oracle[q] = NoRow]
                 h == [q \in Pairs |-> committed.tables.oracle[q] = NoRow]
      <4>1. g[p] = (previous.tables.oracle[p] = NoRow) /\ h[p] = (committed.tables.oracle[p] = NoRow)
        BY Zenon
      <4>2. g = h
        BY <3>2
      <4> HIDE DEF g, h
      <4>3. g[p] = h[p]
        BY <4>2
      <4> QED BY <4>1, <4>3, Zenon
    <3>4. \A p \in Pairs : P.oracle[p] = NoRow <=> C.oracle[p] = NoRow
      <4>1. P.oracle = [p \in Pairs |-> IF chain.oracle[p].listed /\ committed.tables.oracle[p] = NoRow
                                        THEN NewPair ELSE previous.tables.oracle[p]]
        BY InitPairsIs DEF Inv, ShapesInv, P
      <4>2. C.oracle = [p \in Pairs |-> IF chain.oracle[p].listed /\ committed.tables.oracle[p] = NoRow
                                        THEN NewPair ELSE committed.tables.oracle[p]]
        BY InitPairsIs DEF Inv, ShapesInv, C
      <4> QED BY <3>3, <4>1, <4>2
    <3>5. [p \in Pairs |-> P.oracle[p] = NoRow] = [p \in Pairs |-> C.oracle[p] = NoRow]
      <4>1. \A p \in Pairs : (P.oracle[p] = NoRow) = (C.oracle[p] = NoRow)
        BY <3>4
      <4> QED BY <4>1, Zenon
    <3> QED BY <1>5, <3>2, <3>5 DEF Remembered
  <2> QED BY <1>1, <2>3, <2>4 DEF MemoryInv
<1>13. RestsInv'
  <2>1. Rests(T, liveQueue, chain)
    BY <1>3, RestsFilled DEF Inv, ShapesInv, RestsInv, T
  <2>2. Rests(C, {}, committed.chain) /\ Rests(P, {}, previous.chain)
    BY RestsFilled DEF Inv, ShapesInv, RestsInv, C, P
  <2> QED BY <1>1, <1>3, <1>5, <1>7, <2>1, <2>2 DEF RestsInv
<1> QED BY <1>9, <1>10, <1>11, <1>12, <1>13 DEF Inv

----------------------------------------
(* The beginning *)

(* Contracts before the first block. *)
LEMMA StartShape ==
  ASSUME HandlersAssumption
  PROVE  ChainShape(ChainAtStart)
<1> DEFINE c == ChainAtStart
<1>1. IsMap(c, Fields)
  BY DEF ChainAtStart, IsMap, Fields
<1>2. /\ c.logs = 0 /\ c.sales = Unset(Ids) /\ c.auctions = Unset(Ids) /\ c.buyoffers = Unset(Ids)
      /\ c.templateBuyoffers = Unset(Ids) /\ c.links = Unset(Ids) /\ c.minted = Unset(Ids)
      /\ c.collections = Unset(Ids) /\ c.schemas = [i \in Ids |-> 0] /\ c.templates = Unset(Ids)
      /\ c.market = Blank /\ c.rows = [t \in Rows |-> [i \in Ids |-> "none"]]
      /\ c.oracle = [p \in Pairs |-> [listed |-> FALSE, last |-> 0]] /\ c.tools = 0
      /\ c.simple = Unset(Assets) /\ c.authors = [a \in Accounts |-> "none"] /\ c.simpleVersion = 0
      /\ c.assetConfig = [tokens |-> {}, format |-> 0, version |-> 0]
      /\ c.assetBalances = [a \in Accounts |-> "none"]
      /\ c.transfers = {} /\ c.simpleTransfers = {}
  BY DEF ChainAtStart, Blank
<1> HIDE DEF c
<1>3. \A f \in IdTables : IsMap(c[f], Ids)
  BY <1>2 DEF IdTables, IsMap, Unset
<1>4. \A i \in Ids : AuctionShape(c.auctions[i])
  BY <1>2 DEF AuctionShape, Unset
<1>5. /\ IsMap(c.rows, Rows) /\ \A f \in Rows : IsMap(c.rows[f], Ids)
  BY <1>2 DEF IsMap
<1>6. /\ IsMap(c.oracle, Pairs) /\ IsMap(c.simple, Assets)
      /\ IsMap(c.authors, Accounts) /\ IsMap(c.assetBalances, Accounts)
  BY <1>2 DEF IsMap, Unset
<1>7. /\ IsMap(c.market, {"version", "tokens", "pairs"})
      /\ IsMap(c.assetConfig, {"tokens", "format", "version"})
  BY <1>2 DEF IsMap, Blank
<1>8. Shape(c)
  BY <1>1, <1>2, <1>3, <1>4, <1>5, <1>6, <1>7 DEF Shape
<1>9. ASSUME NEW i \in Ids
      PROVE  /\ c.buyoffers[i] = [state |-> c.buyoffers[i].state]
             /\ c.templateBuyoffers[i].state # "LISTED"
             /\ c.templates[i] = NoRow /\ c.minted[i] = NoRow
  <2>1. /\ c.buyoffers[i] = NoRow /\ c.templateBuyoffers[i] = NoRow
        /\ c.templates[i] = NoRow /\ c.minted[i] = NoRow
    BY <1>2 DEF Unset
  <2>2. NoRow = [state |-> NoRow.state] /\ NoRow.state # "LISTED"
    BY DEF NoRow
  <2> QED BY <2>1, <2>2
<1>10. \A x \in Assets : c.simple[x] = NoRow
  BY <1>2 DEF Unset
<1>11. /\ c.market.version = 0 /\ c.market.tokens = {} /\ c.market.pairs = {}
       /\ c.assetConfig.version = 0 /\ c.assetConfig.tokens = {}
  BY <1>2 DEF Blank
<1>12. IsFiniteSet({})
  BY FS_EmptySet
<1> QED BY <1>2, <1>8, <1>9, <1>10, <1>11, <1>12 DEF ChainShape, c

(* Rows that init inserts. *)
LEMMA StartTables ==
  ASSUME NEW t, t = [ChainAtStart EXCEPT !.oracle = Unset(Pairs), !.market.version = 1, !.tools = 1,
                                        !.simpleVersion = 1, !.assetConfig.version = 1]
  PROVE  /\ IsMap(t, Fields)
         /\ t.oracle = Unset(Pairs) /\ t.market = [version |-> 1, tokens |-> {}, pairs |-> {}] /\ t.tools = 1
         /\ t.simpleVersion = 1 /\ t.assetConfig = [tokens |-> {}, format |-> 0, version |-> 1]
         /\ \A f \in Fields : f \notin {"oracle", "market", "tools", "simpleVersion", "assetConfig"}
              => t[f] = ChainAtStart[f]
<1> DEFINE c == ChainAtStart
           m == [version |-> 1, tokens |-> {}, pairs |-> {}]
           a == [tokens |-> {}, format |-> 0, version |-> 1]
           u == Unset(Pairs)
<1>1. IsMap(c, Fields) /\ c.market = Blank /\ c.assetConfig = [tokens |-> {}, format |-> 0, version |-> 0]
  BY DEF ChainAtStart, IsMap, Fields, Blank
<1>2. [c.market EXCEPT !.version = 1] = m /\ [c.assetConfig EXCEPT !.version = 1] = a
  BY <1>1 DEF Blank
<1> HIDE DEF c, m, a, u
<1>3. t = [c EXCEPT !.oracle = u, !.market = m, !.tools = 1, !.simpleVersion = 1, !.assetConfig = a]
  <2>1. t = [c EXCEPT !.oracle = u, !.market.version = 1, !.tools = 1, !.simpleVersion = 1, !.assetConfig.version = 1]
    BY DEF c, u
  <2> QED BY <1>1, <1>2, <2>1 DEF IsMap, Fields
<1>4. /\ IsMap(t, Fields) /\ t.oracle = u /\ t.market = m /\ t.tools = 1
      /\ t.simpleVersion = 1 /\ t.assetConfig = a
      /\ \A f \in Fields : f \notin {"oracle", "market", "tools", "simpleVersion", "assetConfig"} => t[f] = c[f]
  BY <1>1, <1>3 DEF IsMap, Fields
<1> QED BY <1>4 DEF c, m, a, u

(* The invariant holds in the beginning. *)
LEMMA InitHolds ==
  ASSUME HandlersAssumption, Init
  PROVE  Inv
<1> DEFINE c == ChainAtStart
           t == tables
<1>1. /\ chain = c /\ memory = Loaded(t) /\ liveQueue = {} /\ traces = 0 /\ executing = FALSE
      /\ queue = {} /\ lastPriority = None /\ committed = [chain |-> chain, tables |-> tables]
      /\ previous = committed /\ rolledBack = FALSE /\ running = TRUE /\ forks = 0
  BY DEF Init, InitReader
<1>2. /\ IsMap(t, Fields)
      /\ t.oracle = Unset(Pairs) /\ t.market = [version |-> 1, tokens |-> {}, pairs |-> {}] /\ t.tools = 1
      /\ t.simpleVersion = 1 /\ t.assetConfig = [tokens |-> {}, format |-> 0, version |-> 1]
      /\ \A f \in Fields : f \notin {"oracle", "market", "tools", "simpleVersion", "assetConfig"}
              => t[f] = c[f]
  BY StartTables DEF Init
<1>3. ChainShape(c)
  BY StartShape
<1>4. Shape(t)
  <2>1. \A f \in IdTables : t[f] = c[f]
    BY <1>2 DEF IdTables, Fields
  <2>2. /\ t.auctions = c.auctions /\ t.rows = c.rows /\ t.simple = c.simple /\ t.authors = c.authors
        /\ t.assetBalances = c.assetBalances /\ t.logs = c.logs
    BY <1>2 DEF Fields
  <2>3. /\ IsMap(t.oracle, Pairs) /\ IsMap(t.market, {"version", "tokens", "pairs"})
        /\ IsMap(t.assetConfig, {"tokens", "format", "version"})
    BY <1>2 DEF IsMap, Unset
  <2>4. Shape(c)
    BY <1>3 DEF ChainShape
  <2> HIDE DEF c, t
  <2>5. \A f \in IdTables : IsMap(t[f], Ids)
    BY <2>1, <2>4 DEF Shape
  <2> QED BY <1>2, <2>2, <2>3, <2>4, <2>5 DEF Shape
<1>5. committed.chain = chain /\ committed.tables = tables
  BY <1>1
<1>6. ShapesInv
  <2>1. /\ IsMap(memory, {"market", "oracle", "tools", "simpleVersion", "simpleInserts", "assetConfig", "mints"})
        /\ memory.assetConfig = t.assetConfig
    BY <1>1 DEF Loaded, IsMap
  <2> QED BY <1>1, <1>3, <1>4, <1>5, <2>1 DEF ShapesInv, Shape
<1>7. JobsOK({}, 0)
  BY FS_EmptySet DEF JobsOK
<1>8. ReaderInv
  BY <1>1, <1>5, <1>7 DEF ReaderInv, Origin
<1>9. memory.mints = {} /\ memory.simpleInserts = {} /\ memory.market = t.market /\ memory.tools = t.tools
      /\ memory.simpleVersion = t.simpleVersion /\ memory.assetConfig = t.assetConfig
  BY <1>1 DEF Loaded
<1>10. CollectedInv
  BY <1>1, <1>9 DEF CollectedInv, CollectedOnce, SimpleOnce, MintedOnce
<1>11. MemoryInv
  BY <1>1, <1>9 DEF MemoryInv
<1>12. ASSUME NEW k \in Followed, NEW x \in KeysOf(k) PROVE Cell(t, k, x) = Due(c, k, x)
  <2>1. CASE k \in Configs
    <3>1. Cell(t, k, x) = t[k]
      BY <2>1 DEF Cell, Configs, Rows
    <3>2. /\ c.market = Blank /\ c.tools = 0 /\ c.simpleVersion = 0
          /\ c.assetConfig = [tokens |-> {}, format |-> 0, version |-> 0]
      BY DEF ChainAtStart, Blank
    <3> HIDE DEF c, t
    <3>3. /\ Due(c, "market", x) = t.market /\ Due(c, "assetConfig", x) = t.assetConfig
          /\ Due(c, "tools", x) = t.tools /\ Due(c, "simpleVersion", x) = t.simpleVersion
      BY <1>2, <3>2 DEF Due, SinceOne, Configs, Rows, Blank
    <3> QED BY <2>1, <3>1, <3>3 DEF Configs
  <2>2. CASE k \notin Configs
    <3>1. FieldOf(k) \in Fields /\ FieldOf(k) \notin {"oracle", "market", "tools", "simpleVersion", "assetConfig"}
      BY <2>2 DEF FieldOf, Followed, DataKinds, Created, Written, Configs, Rows, Fields
    <3>2. Cell(t, k, x) = Cell(c, k, x)
      <4>1. t[FieldOf(k)] = c[FieldOf(k)]
        BY <1>2, <3>1
      <4> HIDE DEF t, c
      <4> QED
        BY <2>2, <4>1 DEF Cell, FieldOf, Rows, Configs, Followed, DataKinds, Created, Written
    <3>3. Due(c, k, x) = Cell(c, k, x)
      <4>1. CASE k = "balances"
        <5>1. x \in Ids
          BY <4>1 DEF KeysOf, Configs
        <5>2. c.rows["balances"][x] = "none"
          BY <5>1 DEF ChainAtStart, Rows
        <5> QED BY <4>1, <5>2 DEF Due, Cell, SomeOrNone, Rows, Configs
      <4>2. CASE k = "assetBalances"
        <5>1. x \in Accounts
          BY <4>2 DEF KeysOf, Configs
        <5>2. c.assetBalances[x] = "none"
          BY <5>1 DEF ChainAtStart
        <5> QED BY <4>2, <5>2 DEF Due, Cell, SomeOrNone, Rows, Configs
      <4>3. CASE k = "templates"
        <5>1. x \in Ids
          BY <4>3 DEF KeysOf, Configs
        <5>2. c.templates[x] = NoRow
          BY <5>1 DEF ChainAtStart, Unset
        <5>3. c.templates[x].state # "deleted"
          <6>1. NoRow.state # "deleted"
            BY DEF NoRow
          <6> HIDE DEF c
          <6> QED BY <5>2, <6>1
        <5> HIDE DEF c
        <5>4. Due(c, "templates", x) = c.templates[x]
          BY <5>3 DEF Due, Rows, Configs
        <5>5. Cell(c, "templates", x) = c.templates[x]
          BY DEF Cell, Rows, Configs
        <5> QED BY <4>3, <5>4, <5>5
      <4>4. CASE k \notin {"balances", "assetBalances", "templates"}
        BY <2>2, <4>4 DEF Due, Configs
      <4> QED BY <4>1, <4>2, <4>3, <4>4
    <3> QED BY <3>2, <3>3
  <2> QED BY <2>1, <2>2
<1>13. Rests(t, {}, c)
  <2>1. t.transfers = c.transfers /\ t.simpleTransfers = c.simpleTransfers /\ t.logs = c.logs
    BY <1>2 DEF Fields
  <2>2. t.logs + 0 = c.logs
    BY <1>4, <2>1 DEF Shape
  <2> QED BY <1>12, <2>1, <2>2, RestsIs
<1>14. RestsInv
  BY <1>1, <1>5, <1>13 DEF RestsInv, Origin, Pending
<1> QED BY <1>6, <1>8, <1>10, <1>11, <1>14 DEF Inv

----------------------------------------
(* The inductive invariant holds *)

(* Every step keeps the invariant. *)
LEMMA NextKeeps ==
  ASSUME HandlersAssumption, Inv, [Next]_vars
  PROVE  Inv'
<1>1. ASSUME Contract PROVE Inv'
  BY <1>1, ContractKeeps
<1>2. ASSUME Handler PROVE Inv'
  <2>1. ASSUME NEW j \in queue,
               MarketJob(j) \/ OracleJob(j) \/ ToolsJob(j) \/ SimpleJob(j) \/ AssetsJob(j) \/ LogTrace(j)
        PROVE  Inv'
    BY <2>1, HandlerJobs
  <2>2. ASSUME NEW j \in queue, Throw(j) PROVE Inv'
    BY <2>2, StopKeeps
  <2>3. \/ Start \/ PriorityComplete \/ Commit \/ CommitEmpty
        \/ \E j \in queue : \/ MarketJob(j) \/ OracleJob(j) \/ ToolsJob(j) \/ SimpleJob(j)
                            \/ AssetsJob(j) \/ LogTrace(j) \/ Throw(j)
    BY <1>2 DEF Handler
  <2> QED BY <2>1, <2>2, <2>3, StartKeeps, PriorityKeeps, CommitKeeps
<1>3. ASSUME ForkSwitch PROVE Inv'
  BY <1>3, ForkKeeps
<1>4. ASSUME NewProcess PROVE Inv'
  BY <1>4, NewProcessKeeps
<1>5. ASSUME Crash \/ ReachHead PROVE Inv'
  BY <1>5, StopKeeps, ReachHeadKeeps
<1>6. ASSUME UNCHANGED vars PROVE Inv'
  <2>1. UNCHANGED <<chain, tables, memory, committed, previous, rolledBack, started, head, running, forks,
                    liveQueue, traces, executing, queue, lastPriority>>
    BY <1>6 DEF vars, contractVars, processorVars, historyVars, readerVars, boundVars
  <2>2. ShapesInv' = ShapesInv
    BY <2>1 DEF ShapesInv
  <2>3. Origin' = Origin /\ Pending' = Pending /\ Collected' = Collected
    BY <2>1 DEF Origin, Pending, Collected, AssetsInserted, SimpleInserted
  <2>4. ReaderInv' = ReaderInv
    BY <2>1, <2>3 DEF ReaderInv
  <2>5. CollectedInv' = CollectedInv
    BY <2>1 DEF CollectedInv
  <2>6. MemoryInv' = MemoryInv
    BY <2>1 DEF MemoryInv
  <2>7. RestsInv' = RestsInv
    BY <2>1, <2>3 DEF RestsInv
  <2> QED BY <2>2, <2>4, <2>5, <2>6, <2>7 DEF Inv
<1> QED BY <1>1, <1>2, <1>3, <1>4, <1>5, <1>6 DEF Next

(* Whenever the handlers run, executing the jobs left in their order would *)
(* make the tables those of the contracts' history: through commits,       *)
(* forks, throws, crashes and restarts, for any ids, assets, accounts and  *)
(* pairs.                                                                  *)
THEOREM Invariance == Spec => []Inv
<1>1. Init => Inv
  BY InitHolds, HandlersAssumption
<1>2. Inv /\ [Next]_vars => Inv'
  BY NextKeeps, HandlersAssumption
<1> QED BY <1>1, <1>2, PTL DEF Spec

----------------------------------------
(* Tables and configuration *)

(* Maps that agree. *)
LEMMA SameMaps ==
  ASSUME NEW f, NEW g, NEW D, IsMap(f, D), IsMap(g, D), \A x \in D : f[x] = g[x]
  PROVE  f = g
<1>1. [x \in D |-> f[x]] = [x \in D |-> g[x]] OBVIOUS
<1> QED BY <1>1 DEF IsMap

(* The two parts of the row of an auction. *)
LEMMA BaseAndEnd ==
  ASSUME NEW r, NEW s, AuctionShape(r), AuctionShape(s), Base(r) = Base(s), EndOf(r) = EndOf(s)
  PROVE  r = s
<1>1. \A e : NoRow # [state |-> "row", end_time |-> e]
  BY Zenon DEF NoRow
<1>2. (r = NoRow) <=> (s = NoRow)
  BY <1>1 DEF EndOf
<1>3. CASE r # NoRow
  <2>1. /\ r = [state |-> r.state, buyer |-> r.buyer, bids |-> r.bids, end_time |-> r.end_time,
                claimed_by_buyer |-> r.claimed_by_buyer, claimed_by_seller |-> r.claimed_by_seller]
        /\ s = [state |-> s.state, buyer |-> s.buyer, bids |-> s.bids, end_time |-> s.end_time,
                claimed_by_buyer |-> s.claimed_by_buyer, claimed_by_seller |-> s.claimed_by_seller]
    BY <1>2, <1>3 DEF AuctionShape
  <2>2. [r EXCEPT !.end_time = 0] = [s EXCEPT !.end_time = 0]
    BY <1>2, <1>3 DEF Base
  <2>3. r.end_time = s.end_time
    BY <1>2, <1>3 DEF EndOf
  <2>4. /\ [r EXCEPT !.end_time = 0] =
             [state |-> r.state, buyer |-> r.buyer, bids |-> r.bids, end_time |-> 0,
              claimed_by_buyer |-> r.claimed_by_buyer, claimed_by_seller |-> r.claimed_by_seller]
        /\ [s EXCEPT !.end_time = 0] =
             [state |-> s.state, buyer |-> s.buyer, bids |-> s.bids, end_time |-> 0,
              claimed_by_buyer |-> s.claimed_by_buyer, claimed_by_seller |-> s.claimed_by_seller]
    BY <2>1
  <2>5. /\ r.state = s.state /\ r.buyer = s.buyer /\ r.bids = s.bids
        /\ r.claimed_by_buyer = s.claimed_by_buyer /\ r.claimed_by_seller = s.claimed_by_seller
    BY <2>2, <2>4
  <2> QED BY <2>1, <2>3, <2>5
<1> QED BY <1>2, <1>3

(* Tables with nothing left to execute are those of the contracts. *)
LEMMA UpToDateRests ==
  ASSUME Inv, UpToDate
  PROVE  Rests(tables, {}, chain) /\ Shape(tables) /\ ChainShape(chain)
BY DEF UpToDate, Inv, RestsInv, ShapesInv, ReaderInv, Pending

(* The tables, one by one. *)
LEMMA SameColumns ==
  ASSUME NEW t, NEW c, Shape(t), ChainShape(c), Rests(t, {}, c)
  PROVE  /\ \A f \in IdTables \ {"templates"} : t[f] = c[f]
         /\ t.simple = c.simple /\ t.authors = c.authors
         /\ \A i \in Ids : t.templates[i] = Due(c, "templates", i)
         /\ \A a \in Accounts : t.assetBalances[a] = SomeOrNone(c.assetBalances[a])
         /\ t.transfers = c.transfers /\ t.simpleTransfers = c.simpleTransfers /\ t.logs = c.logs
<1>0. Shape(c)
  BY DEF ChainShape
<1>1. \A k \in Followed : \A x \in KeysOf(k) : Cell(t, k, x) = Due(c, k, x)
  BY RestsIs
<1>2. t.transfers = c.transfers /\ t.simpleTransfers = c.simpleTransfers /\ t.logs = c.logs
  BY <1>0, RestsIs DEF Shape
<1>3. ASSUME NEW f \in IdTables \ {"templates", "auctions"} PROVE t[f] = c[f]
  <2>1. f \in Followed /\ KeysOf(f) = Ids /\ f \in IdTables
    BY DEF IdTables, Followed, DataKinds, Created, Written, KeysOf, Configs
  <2>2. \A x \in Ids : Cell(t, f, x) = t[f][x] /\ Due(c, f, x) = c[f][x]
    BY DEF IdTables, Cell, Due, Rows, Configs
  <2>3. \A x \in Ids : t[f][x] = c[f][x]
    BY <1>1, <2>1, <2>2
  <2>4. IsMap(t[f], Ids) /\ IsMap(c[f], Ids)
    BY <1>0, <2>1 DEF Shape
  <2> QED BY <2>3, <2>4, SameMaps
<1>4. t.auctions = c.auctions
  <2>1. ASSUME NEW i \in Ids PROVE t.auctions[i] = c.auctions[i]
    <3>1. /\ "auctions" \in Followed /\ "ends" \in Followed
          /\ KeysOf("auctions") = Ids /\ KeysOf("ends") = Ids
      BY DEF Followed, DataKinds, Created, KeysOf, Configs
    <3>2. /\ Cell(t, "auctions", i) = Base(t.auctions[i]) /\ Due(c, "auctions", i) = Base(c.auctions[i])
          /\ Cell(t, "ends", i) = EndOf(t.auctions[i]) /\ Due(c, "ends", i) = EndOf(c.auctions[i])
      BY DEF Cell, Due, Rows, Configs
    <3>3. Base(t.auctions[i]) = Base(c.auctions[i]) /\ EndOf(t.auctions[i]) = EndOf(c.auctions[i])
      BY <1>1, <3>1, <3>2
    <3>4. AuctionShape(t.auctions[i]) /\ AuctionShape(c.auctions[i])
      BY <1>0 DEF Shape
    <3> QED BY <3>3, <3>4, BaseAndEnd
  <2>2. IsMap(t.auctions, Ids) /\ IsMap(c.auctions, Ids)
    BY <1>0 DEF Shape, IdTables
  <2> QED BY <2>1, <2>2, SameMaps
<1>5. t.simple = c.simple
  <2>1. /\ "simple" \in Followed /\ KeysOf("simple") = Assets
        /\ \A x : Cell(t, "simple", x) = t.simple[x] /\ Due(c, "simple", x) = c.simple[x]
    BY DEF Followed, DataKinds, Created, KeysOf, Cell, Due, Rows, Configs
  <2>2. \A x \in Assets : t.simple[x] = c.simple[x]
    BY <1>1, <2>1
  <2>3. IsMap(t.simple, Assets) /\ IsMap(c.simple, Assets)
    BY <1>0 DEF Shape
  <2> QED BY <2>2, <2>3, SameMaps
<1>6. t.authors = c.authors
  <2>1. /\ "authors" \in Followed /\ KeysOf("authors") = Accounts
        /\ \A x : Cell(t, "authors", x) = t.authors[x] /\ Due(c, "authors", x) = c.authors[x]
    BY DEF Followed, DataKinds, Written, KeysOf, Cell, Due, Rows, Configs
  <2>2. \A x \in Accounts : t.authors[x] = c.authors[x]
    BY <1>1, <2>1
  <2>3. IsMap(t.authors, Accounts) /\ IsMap(c.authors, Accounts)
    BY <1>0 DEF Shape
  <2> QED BY <2>2, <2>3, SameMaps
<1>7. ASSUME NEW i \in Ids PROVE t.templates[i] = Due(c, "templates", i)
  <2>1. /\ "templates" \in Followed /\ KeysOf("templates") = Ids
        /\ Cell(t, "templates", i) = t.templates[i]
    BY DEF Followed, DataKinds, Written, KeysOf, Cell, Rows, Configs
  <2> QED BY <1>1, <2>1
<1>8. ASSUME NEW a \in Accounts PROVE t.assetBalances[a] = SomeOrNone(c.assetBalances[a])
  <2>1. /\ "assetBalances" \in Followed /\ KeysOf("assetBalances") = Accounts
        /\ Cell(t, "assetBalances", a) = t.assetBalances[a]
        /\ Due(c, "assetBalances", a) = SomeOrNone(c.assetBalances[a])
    BY DEF Followed, DataKinds, Written, KeysOf, Cell, Due, Rows, Configs
  <2> QED BY <1>1, <2>1
<1> QED BY <1>2, <1>3, <1>4, <1>5, <1>6, <1>7, <1>8

(* The rows of the market. *)
LEMMA SameRows ==
  ASSUME NEW t, NEW c, Shape(t), ChainShape(c), Rests(t, {}, c)
  PROVE  t.rows = Shown(c.rows)
<1> DEFINE s == Shown(c.rows)
<1>0. Shape(c)
  BY DEF ChainShape
<1>1. \A k \in Followed : \A x \in KeysOf(k) : Cell(t, k, x) = Due(c, k, x)
  BY RestsIs
<1>2. IsMap(c.rows, Rows)
  BY <1>0 DEF Shape
<1>3. /\ IsMap(s, Rows)
      /\ s.balances = [i \in Ids |-> IF c.rows.balances[i] = "some" THEN "some" ELSE "none"]
      /\ \A k \in Rows : k # "balances" => s[k] = c.rows[k]
  BY <1>2 DEF Shown, IsMap, Rows
<1> HIDE DEF s
<1>4. ASSUME NEW k \in Rows PROVE t.rows[k] = s[k]
  <2>1. k \in Followed /\ KeysOf(k) = Ids /\ \A x : Cell(t, k, x) = t.rows[k][x]
    BY DEF Followed, DataKinds, Written, KeysOf, Cell, Rows, Configs
  <2>2. \A x \in Ids : Due(c, k, x) = IF k = "balances" THEN SomeOrNone(c.rows.balances[x]) ELSE c.rows[k][x]
    BY DEF Due, Cell, Rows, Configs
  <2>3. \A x \in Ids : t.rows[k][x] = IF k = "balances" THEN SomeOrNone(c.rows.balances[x]) ELSE c.rows[k][x]
    BY <1>1, <2>1, <2>2
  <2>4. IsMap(t.rows[k], Ids) /\ IsMap(c.rows[k], Ids)
    BY <1>0 DEF Shape
  <2>5. CASE k = "balances"
    BY <1>3, <2>3, <2>4, <2>5 DEF IsMap, SomeOrNone
  <2>6. CASE k # "balances"
    BY <1>3, <2>3, <2>4, <2>6 DEF IsMap
  <2> QED BY <2>5, <2>6
<1>5. IsMap(t.rows, Rows)
  BY DEF Shape
<1>6. t.rows = s
  BY <1>3, <1>4, <1>5 DEF IsMap
<1> QED BY <1>6 DEF s

(* With nothing left to execute the tables are what the contracts' history *)
(* amounts to, though executeHeadQueue orders the jobs of many blocks by   *)
(* priority and forks and crashes have them executed again.                *)
THEOREM TablesMatchHolds == Spec => []TablesMatch
<1>1. ASSUME Inv, UpToDate
      PROVE  MarketMatches /\ ToolsMatch /\ SimpleMatch /\ AssetsMatch /\ tables.logs = chain.logs
  <2>1. Shape(tables) /\ ChainShape(chain) /\ Rests(tables, {}, chain)
    BY <1>1, UpToDateRests
  <2>2. /\ \A f \in IdTables \ {"templates"} : tables[f] = chain[f]
        /\ tables.simple = chain.simple /\ tables.authors = chain.authors
        /\ \A i \in Ids : tables.templates[i] = Due(chain, "templates", i)
        /\ \A a \in Accounts : tables.assetBalances[a] = SomeOrNone(chain.assetBalances[a])
        /\ tables.transfers = chain.transfers /\ tables.simpleTransfers = chain.simpleTransfers
        /\ tables.logs = chain.logs
    BY <2>1, SameColumns
  <2>3. tables.rows = Shown(chain.rows)
    BY <2>1, SameRows
  <2>4. MarketMatches
    BY <2>2, <2>3 DEF MarketMatches, IdTables
  <2>5. ToolsMatch /\ SimpleMatch
    BY <2>2 DEF ToolsMatch, SimpleMatch, IdTables
  <2>6. AssetsMatch
    <3>1. \A i \in Ids : tables.templates[i] = IF chain.templates[i].state = "deleted"
                                              THEN [chain.templates[i] EXCEPT !.state = "row"]
                                              ELSE chain.templates[i]
      BY <2>2 DEF Due, Configs, Rows
    <3>2. \A a \in Accounts : tables.assetBalances[a] = "some" <=> chain.assetBalances[a] = "some"
      BY <2>2 DEF SomeOrNone
    <3> QED BY <2>2, <3>1, <3>2 DEF AssetsMatch, IdTables
  <2> QED BY <2>2, <2>4, <2>5, <2>6
<1>2. Inv => TablesMatch
  BY <1>1 DEF TablesMatch
<1> QED BY <1>2, Invariance, PTL

(* The configuration of the four handlers, which they only change by       *)
(* comparing with what they remember since init, is that of the contracts, *)
(* if no fork takes configuration back.                                    *)
THEOREM ConfigMatchesHolds ==
  ASSUME ~ ConfigForks
  PROVE  Spec => []ConfigMatches
<1>1. ASSUME Inv, UpToDate
      PROVE  MarketConfigMatches /\ ToolsConfigMatches /\ SimpleConfigMatches /\ AssetConfigMatches
  <2>1. Rests(tables, {}, chain) /\ ChainShape(chain)
    BY <1>1, UpToDateRests
  <2>2. <<tables.market, tables.tools, tables.simpleVersion, tables.assetConfig>> = ConfigDue(chain)
    BY <2>1, RestsConfig
  <2>3. /\ tables.market = Due(chain, "market", "config") /\ tables.tools = Due(chain, "tools", "config")
        /\ tables.simpleVersion = Due(chain, "simpleVersion", "config")
        /\ tables.assetConfig = Due(chain, "assetConfig", "config")
    BY <2>2 DEF ConfigDue
  <2>4. /\ chain.market.version # 0 => Due(chain, "market", "config") = chain.market
        /\ Due(chain, "tools", "config") = SinceOne(chain.tools)
        /\ Due(chain, "simpleVersion", "config") = SinceOne(chain.simpleVersion)
        /\ Due(chain, "assetConfig", "config") =
             [tokens |-> chain.assetConfig.tokens, format |-> chain.assetConfig.format,
              version |-> SinceOne(chain.assetConfig.version)]
    BY DEF Due, Configs, Rows
  <2> QED
    BY <2>3, <2>4 DEF MarketConfigMatches, ToolsConfigMatches, SimpleConfigMatches, AssetConfigMatches,
                      SinceOne
<1>2. Inv => ConfigMatches
  BY <1>1 DEF ConfigMatches
<1> QED BY <1>2, Invariance, PTL

----------------------------------------
(* Settled rows *)

(* What a job of another callback leaves alone. *)
LEMMA OtherMarketJob ==
  ASSUME NEW j, MarketJob(j), IsMap(tables, Fields), NEW k \in SettledKinds,
         j.callback \notin CallbacksOf(k)
  PROVE  tables'[k] = tables[k]
<1>1. /\ k = "sales" => j.callback \notin {"lognewsale", "logsalestart", "cancelsale", "purchasesale"}
      /\ k = "buyoffers" => j.callback \notin {"lognewbuyo", "cancelbuyo", "acceptbuyo", "declinebuyo"}
      /\ k = "templateBuyoffers" => j.callback \notin {"lognewtbuyo", "canceltbuyo", "fulfilltbuyo"}
  BY DEF CallbacksOf, SaleUpdates, BuyofferUpdates, TemplateBuyofferUpdates, Configs
<1>2. k \in Fields
  BY DEF SettledKinds, Fields
<1>3. ASSUME LogNewSale(j) \/ LogSaleStart(j) \/ CancelSale(j) \/ PurchaseSale(j)
      PROVE  tables'[k] = tables[k]
  <2>1. k # "sales"
    BY <1>1, <1>3 DEF LogNewSale, LogSaleStart, CancelSale, PurchaseSale, Change, Runs
  <2> QED
    BY <1>2, <1>3, <2>1 DEF LogNewSale, LogSaleStart, CancelSale, PurchaseSale, Change, IsMap
<1>4. ASSUME \/ LogNewAuction(j) \/ AuctionsRow(j) \/ LogAuctionStart(j) \/ CancelAuction(j)
             \/ AuctionBid(j) \/ AuctionClaimBuyer(j) \/ AuctionClaimSeller(j)
      PROVE  tables'[k] = tables[k]
  <2>1. k # "auctions"
    BY DEF SettledKinds
  <2> QED
    BY Zenon, <1>2, <1>4, <2>1 DEF LogNewAuction, AuctionsRow, LogAuctionStart, CancelAuction, AuctionBid,
                            AuctionClaimBuyer, AuctionClaimSeller, Change, IsMap
<1>5. ASSUME \/ LogNewBuyoffer(j) \/ CloseBuyoffer(j, "cancelbuyo", "CANCELED")
             \/ CloseBuyoffer(j, "acceptbuyo", "ACCEPTED") \/ CloseBuyoffer(j, "declinebuyo", "DECLINED")
      PROVE  tables'[k] = tables[k]
  <2>1. k # "buyoffers"
    BY <1>1, <1>5 DEF LogNewBuyoffer, CloseBuyoffer, Change, Runs
  <2> QED BY <1>2, <1>5, <2>1 DEF LogNewBuyoffer, CloseBuyoffer, Change, IsMap
<1>6. ASSUME LogNewTemplateBuyoffer(j) \/ CancelTemplateBuyoffer(j) \/ FulfillTemplateBuyoffer(j)
      PROVE  tables'[k] = tables[k]
  <2>1. k # "templateBuyoffers"
    BY <1>1, <1>6 DEF LogNewTemplateBuyoffer, CancelTemplateBuyoffer, FulfillTemplateBuyoffer, Change, Runs
  <2> QED
    BY <1>2, <1>6, <2>1 DEF LogNewTemplateBuyoffer, CancelTemplateBuyoffer, FulfillTemplateBuyoffer,
                            Change, IsMap
<1>7. ASSUME Config(j) \/ Marketplace(j) \/ Bonusfee(j) \/ Balance(j) PROVE tables'[k] = tables[k]
  <2>1. k # "market" /\ k # "rows"
    BY DEF SettledKinds
  <2> QED BY <1>2, <1>7, <2>1 DEF Config, Marketplace, Bonusfee, Balance, Change, IsMap
<1> QED BY <1>3, <1>4, <1>5, <1>6, <1>7 DEF MarketJob

LEMMA OtherToolsJob ==
  ASSUME NEW j, ToolsJob(j), IsMap(tables, Fields), NEW k \in SettledKinds,
         j.callback \notin CallbacksOf(k)
  PROVE  tables'[k] = tables[k]
<1>1. k = "links" => j.callback \notin {"lognewlink", "loglinkstart", "cancellink", "claimlink"}
  BY DEF CallbacksOf, LinkUpdates, Configs
<1>2. k \in Fields /\ k # "tools"
  BY DEF SettledKinds, Fields
<1>3. ASSUME \/ LogNewLink(j) \/ SetLink(j, "loglinkstart", "CREATED")
             \/ SetLink(j, "cancellink", "CANCELED") \/ ClaimLink(j)
      PROVE  tables'[k] = tables[k]
  <2>1. k # "links"
    BY <1>1, <1>3 DEF LogNewLink, SetLink, ClaimLink, Runs
  <2> QED BY <1>2, <1>3, <2>1 DEF LogNewLink, SetLink, ClaimLink, IsMap
<1>4. ASSUME ToolsConfig(j) PROVE tables'[k] = tables[k]
  BY <1>2, <1>4 DEF ToolsConfig, IsMap
<1> QED BY <1>3, <1>4 DEF ToolsJob

(* Handlers of other contracts. *)
LEMMA OtherTables ==
  ASSUME NEW j, SimpleJob(j) \/ AssetsJob(j) \/ LogTrace(j), IsMap(tables, Fields), NEW k \in OwnKinds
  PROVE  tables'[k] = tables[k]
<1>1. k \in Fields /\ k \notin {"simple", "simpleTransfers", "authors", "simpleVersion", "minted", "transfers",
                               "assetConfig", "collections", "schemas", "templates", "assetBalances", "logs"}
  BY DEF OwnKinds, SettledKinds, Fields
<1>2. ASSUME SimpleJob(j) PROVE tables'[k] = tables[k]
  <2>1. ASSUME NEW a, NEW rows, NEW transfers, SimpleUpdate(j, a, rows, transfers)
        PROVE  tables'[k] = tables[k]
    BY <1>1, <2>1 DEF SimpleUpdate, IsMap
  <2>2. ASSUME BurnLog(j) \/ UpdateData(j) \/ ChangeAuthor(j) \/ SimpleTransfer(j) \/ Claim(j)
        PROVE  tables'[k] = tables[k]
    <3>1. \E a, rows, transfers : SimpleUpdate(j, a, rows, transfers)
      BY Zenon, <2>2 DEF BurnLog, UpdateData, ChangeAuthor, SimpleTransfer, Claim
    <3> QED BY <3>1, <2>1
  <2>3. ASSUME CreateLog(j) \/ Author(j) \/ SimpleTokenConfigs(j) PROVE tables'[k] = tables[k]
    BY <1>1, <2>3 DEF CreateLog, Author, SimpleTokenConfigs, IsMap
  <2> QED BY <1>2, <2>2, <2>3 DEF SimpleJob
<1>3. ASSUME AssetsJob(j) PROVE tables'[k] = tables[k]
  <2>1. ASSUME Minted(j) \/ LogBackAsset(j) \/ LogSetData(j) \/ StoreTransfer(j)
        PROVE  tables'[k] = tables[k]
    BY <1>1, <2>1 DEF Minted, LogBackAsset, LogSetData, StoreTransfer, AssetsChange, IsMap
  <2>2. ASSUME AssetConfig(j) \/ AssetTokenConfigs(j) PROVE tables'[k] = tables[k]
    BY <1>1, <2>2 DEF AssetConfig, AssetTokenConfigs, IsMap
  <2>3. ASSUME Collections(j) \/ Schemas(j) \/ Templates(j) \/ AssetBalances(j)
        PROVE  tables'[k] = tables[k]
    BY <1>1, <2>3 DEF Collections, Schemas, Templates, AssetBalances, AssetsChange, IsMap
  <2> QED BY <1>3, <2>1, <2>2, <2>3 DEF AssetsJob
<1>4. ASSUME LogTrace(j) PROVE tables'[k] = tables[k]
  BY <1>1, <1>4 DEF LogTrace, IsMap
<1> QED BY <1>2, <1>3, <1>4

(* A job leaves the rows it is not about. *)
LEMMA UntouchedRow ==
  ASSUME Inv, NEW j, AnyJob(j), NEW k \in SettledKinds, NEW x \in Ids, ~ Touches(j, k, x)
  PROVE  tables'[k][x] = tables[k][x]
<1>1. /\ IsMap(tables, Fields) /\ IsMap(tables.sales, Ids) /\ IsMap(tables.buyoffers, Ids)
      /\ IsMap(tables.templateBuyoffers, Ids) /\ IsMap(tables.links, Ids)
      /\ k \in Fields
  BY DEF Inv, ShapesInv, Shape, IdTables, SettledKinds, Fields
<1>2. ASSUME SimpleJob(j) \/ AssetsJob(j) \/ LogTrace(j) PROVE tables'[k] = tables[k]
  BY <1>1, <1>2, OtherTables DEF OwnKinds
<1>3. ASSUME OracleJob(j) PROVE tables'[k] = tables[k]
  <2>1. k # "oracle"
    BY DEF SettledKinds
  <2> QED
    BY Zenon, <1>1, <1>3, <2>1 DEF OracleJob, SavePairRow, Datapoint, FillPair, SavePair, IsMap
<1>4. ASSUME MarketJob(j) \/ ToolsJob(j), j.callback \notin CallbacksOf(k) PROVE tables'[k] = tables[k]
  <2>1. ASSUME MarketJob(j) PROVE tables'[k] = tables[k]
    BY <1>1, <1>4, <2>1, OtherMarketJob
  <2>2. ASSUME ToolsJob(j) PROVE tables'[k] = tables[k]
    BY <1>1, <1>4, <2>2, OtherToolsJob
  <2> QED BY <1>4, <2>1, <2>2
<1>5. ASSUME MarketJob(j) \/ ToolsJob(j), j.callback \in CallbacksOf(k), k \in {"sales", "links"}
      PROVE  tables'[k][x] = tables[k][x]
  <2>1. x # j.trace.id
    BY <1>5 DEF Touches, Named, Configs
  <2>2. CASE k = "sales"
    <3>1. j.callback \in {"lognewsale", "logsalestart", "cancelsale", "purchasesale"}
      BY <1>5, <2>2 DEF CallbacksOf, SaleUpdates, Configs
    <3>2. ASSUME ToolsJob(j) PROVE FALSE
      BY <3>1, <3>2 DEF ToolsJob, LogNewLink, SetLink, ClaimLink, ToolsConfig, Runs
    <3>3. LogNewSale(j) \/ LogSaleStart(j) \/ CancelSale(j) \/ PurchaseSale(j)
      BY Zenon, <1>5, <3>1, <3>2 DEF MarketJob, LogNewAuction, AuctionsRow, LogAuctionStart, CancelAuction, AuctionBid,
           AuctionClaimBuyer, AuctionClaimSeller, LogNewBuyoffer, CloseBuyoffer, LogNewTemplateBuyoffer,
           CancelTemplateBuyoffer, FulfillTemplateBuyoffer, Config, Marketplace, Bonusfee, Balance, Change, Runs
    <3> QED
      BY ZenonT(60), <1>1, <2>1, <2>2, <3>3 DEF LogNewSale, LogSaleStart, CancelSale, PurchaseSale, Change, IsMap
  <2>3. CASE k = "links"
    <3>1. j.callback \in {"lognewlink", "loglinkstart", "cancellink", "claimlink"}
      BY <1>5, <2>3 DEF CallbacksOf, LinkUpdates, Configs
    <3>2. ASSUME MarketJob(j) PROVE FALSE
      BY Zenon, <3>1, <3>2 DEF MarketJob, LogNewSale, LogSaleStart, CancelSale, PurchaseSale,
           LogNewAuction, AuctionsRow, LogAuctionStart, CancelAuction, AuctionBid,
           AuctionClaimBuyer, AuctionClaimSeller, LogNewBuyoffer, CloseBuyoffer, LogNewTemplateBuyoffer,
           CancelTemplateBuyoffer, FulfillTemplateBuyoffer, Config, Marketplace, Bonusfee, Balance, Change, Runs
    <3>3. \/ LogNewLink(j) \/ SetLink(j, "loglinkstart", "CREATED")
          \/ SetLink(j, "cancellink", "CANCELED") \/ ClaimLink(j)
      BY <1>5, <3>1, <3>2 DEF ToolsJob, ToolsConfig, Runs
    <3> QED BY <1>1, <2>1, <2>3, <3>3 DEF LogNewLink, SetLink, ClaimLink, IsMap
  <2> QED BY <1>5, <2>2, <2>3
<1>6. ASSUME MarketJob(j) \/ ToolsJob(j), j.callback \in CallbacksOf(k), k = "buyoffers"
      PROVE  tables'[k][x] = tables[k][x]
  <2>1. j.callback \in {"lognewbuyo", "cancelbuyo", "acceptbuyo", "declinebuyo"}
    BY <1>6 DEF CallbacksOf, BuyofferUpdates, Configs
  <2>2. x = j.trace.id => j.callback = "lognewbuyo" /\ ~ j.trace.authorized
    BY <1>6, <2>1 DEF Touches, Named, Creates, Configs
  <2>3. ASSUME ToolsJob(j) PROVE FALSE
    BY <2>1, <2>3 DEF ToolsJob, LogNewLink, SetLink, ClaimLink, ToolsConfig, Runs
  <2>4. \/ LogNewBuyoffer(j) \/ CloseBuyoffer(j, "cancelbuyo", "CANCELED")
        \/ CloseBuyoffer(j, "acceptbuyo", "ACCEPTED") \/ CloseBuyoffer(j, "declinebuyo", "DECLINED")
    BY Zenon, <1>6, <2>1, <2>3 DEF MarketJob, LogNewSale, LogSaleStart, CancelSale, PurchaseSale,
         LogNewAuction, AuctionsRow, LogAuctionStart, CancelAuction, AuctionBid,
         AuctionClaimBuyer, AuctionClaimSeller, LogNewTemplateBuyoffer,
         CancelTemplateBuyoffer, FulfillTemplateBuyoffer, Config, Marketplace, Bonusfee, Balance, Change, Runs
  <2>5. CASE LogNewBuyoffer(j)
    BY <1>1, <1>6, <2>2, <2>5 DEF LogNewBuyoffer, Change, IsMap
  <2>6. CASE ~ LogNewBuyoffer(j)
    <3>1. x # j.trace.id
      BY <2>2, <2>4, <2>6 DEF CloseBuyoffer, Change, Runs
    <3> QED BY <1>1, <1>6, <2>4, <2>6, <3>1 DEF CloseBuyoffer, Change, IsMap
  <2> QED BY <2>5, <2>6
<1>7. ASSUME MarketJob(j) \/ ToolsJob(j), j.callback \in CallbacksOf(k), k = "templateBuyoffers"
      PROVE  tables'[k][x] = tables[k][x]
  <2>1. j.callback \in {"lognewtbuyo", "canceltbuyo", "fulfilltbuyo"}
    BY <1>7 DEF CallbacksOf, TemplateBuyofferUpdates, Configs
  <2>2. x = j.trace.id => j.callback = "lognewtbuyo" /\ ~ j.trace.authorized
    BY <1>7, <2>1 DEF Touches, Named, Creates, Configs
  <2>3. ASSUME ToolsJob(j) PROVE FALSE
    BY <2>1, <2>3 DEF ToolsJob, LogNewLink, SetLink, ClaimLink, ToolsConfig, Runs
  <2>4. LogNewTemplateBuyoffer(j) \/ CancelTemplateBuyoffer(j) \/ FulfillTemplateBuyoffer(j)
    BY Zenon, <1>7, <2>1, <2>3 DEF MarketJob, LogNewSale, LogSaleStart, CancelSale, PurchaseSale,
         LogNewAuction, AuctionsRow, LogAuctionStart, CancelAuction, AuctionBid,
         AuctionClaimBuyer, AuctionClaimSeller, LogNewBuyoffer, CloseBuyoffer,
         Config, Marketplace, Bonusfee, Balance, Change, Runs
  <2>5. CASE LogNewTemplateBuyoffer(j)
    BY <1>1, <1>7, <2>2, <2>5 DEF LogNewTemplateBuyoffer, Change, IsMap
  <2>6. CASE ~ LogNewTemplateBuyoffer(j)
    <3>1. x # j.trace.id
      BY <2>2, <2>4, <2>6 DEF CancelTemplateBuyoffer, FulfillTemplateBuyoffer, Change, Runs
    <3> QED
      BY <1>1, <1>7, <2>4, <2>6, <3>1 DEF CancelTemplateBuyoffer, FulfillTemplateBuyoffer, Change, IsMap
  <2> QED BY <2>5, <2>6
<1> QED BY <1>2, <1>3, <1>4, <1>5, <1>6, <1>7 DEF AnyJob, SettledKinds

(* Every job of a handler is the next of the queue. *)
LEMMA JobRuns ==
  ASSUME NEW j, AnyJob(j)
  PROVE  \E a : Runs(j, a)
<1>1. ASSUME MarketJob(j) PROVE \E a : Runs(j, a)
  BY Zenon, <1>1 DEF MarketJob, LogNewSale, LogSaleStart, CancelSale, PurchaseSale,
       LogNewAuction, AuctionsRow, LogAuctionStart, CancelAuction, AuctionBid,
       AuctionClaimBuyer, AuctionClaimSeller, LogNewBuyoffer, CloseBuyoffer, LogNewTemplateBuyoffer,
       CancelTemplateBuyoffer, FulfillTemplateBuyoffer, Config, Marketplace, Bonusfee, Balance, Change
<1>2. ASSUME OracleJob(j) PROVE \E a : Runs(j, a)
  BY <1>2 DEF OracleJob, SavePairRow, Datapoint
<1>3. ASSUME ToolsJob(j) PROVE \E a : Runs(j, a)
  BY <1>3 DEF ToolsJob, LogNewLink, SetLink, ClaimLink, ToolsConfig
<1>4. ASSUME SimpleJob(j) PROVE \E a : Runs(j, a)
  BY <1>4 DEF SimpleJob, CreateLog, BurnLog, UpdateData, ChangeAuthor, SimpleTransfer, Claim, SimpleUpdate,
       Author, SimpleTokenConfigs
<1>5. ASSUME AssetsJob(j) PROVE \E a : Runs(j, a)
  BY <1>5 DEF AssetsJob, Minted, LogBackAsset, LogSetData, StoreTransfer, AssetConfig, AssetTokenConfigs,
       Collections, Schemas, Templates, AssetBalances, AssetsChange
<1>6. ASSUME LogTrace(j) PROVE \E a : Runs(j, a)
  BY <1>6 DEF LogTrace
<1> QED BY <1>1, <1>2, <1>3, <1>4, <1>5, <1>6 DEF AnyJob

(* No job is about a row that is settled. *)
LEMMA SettledUntouched ==
  ASSUME Inv, NEW j, AnyJob(j), NEW k \in SettledKinds, NEW x \in Ids,
         tables[k][x].state \in Settled \cup {"CLAIMED"}
  PROVE  ~ Touches(j, k, x)
<1> SUFFICES ASSUME Touches(j, k, x) PROVE FALSE
  OBVIOUS
<1>1. k \in Followed /\ KeysOf(k) = Ids
  BY DEF SettledKinds, Followed, DataKinds, Created, KeysOf, Configs
<1>2. PICK a : Runs(j, a)
  BY JobRuns
<1>3. Fits(j, k, Cell(Now, k, x))
  BY <1>1, <1>2, JobFits
<1>4. Cell(Now, k, x) = tables[k][x]
  <2>1. Cell(Now, k, x) = Cell(tables, k, x)
    BY <1>1, IntoCells DEF Now, SettledKinds
  <2>2. Cell(tables, k, x) = tables[k][x]
    BY DEF Cell, SettledKinds, Rows, Configs
  <2> QED BY <2>1, <2>2
<1> DEFINE r == tables[k][x]
<1>5. Fits(j, k, r) /\ r.state \in {"CANCELED", "SOLD", "DECLINED", "ACCEPTED", "CLAIMED"}
  BY <1>3, <1>4 DEF Settled
<1> HIDE DEF r
<1>6. r # NoRow
  <2>1. NoRow.state = "no row"
    BY DEF NoRow
  <2> QED BY Zenon, <1>5, <2>1
<1>7. CASE k = "sales"
  BY <1>5, <1>6, <1>7 DEF Fits, SaleFits, Configs
<1>8. CASE k = "buyoffers"
  BY <1>5, <1>6, <1>8 DEF Fits, BuyofferFits, Configs
<1>9. CASE k = "templateBuyoffers"
  BY <1>5, <1>6, <1>9 DEF Fits, TemplateBuyofferFits, Configs
<1>10. CASE k = "links"
  BY <1>5, <1>6, <1>10 DEF Fits, LinkFits, Configs
<1> QED BY <1>7, <1>8, <1>9, <1>10 DEF SettledKinds

(* A contract changes one field, and not the oracle's. *)
LEMMA SentField ==
  ASSUME IsMap(chain, Fields), NEW f \in Fields, f \notin {"oracle", "block"}, NEW v, NEW ts, NEW L,
         Send([chain EXCEPT ![f] = v], ts, L)
  PROVE  SentOf(L)
<1> DEFINE c == [chain EXCEPT ![f] = v]
<1>1. IsMap(c, Fields) /\ c.oracle = chain.oracle /\ c.block = chain.block
  BY DEF IsMap, Fields
<1>2. Send(c, ts, L) OBVIOUS
<1> HIDE DEF c
<1> QED BY <1>1, <1>2 DEF SentOf

(* What the contracts send, one by one. *)
LEMMA MarketSent ==
  ASSUME IsMap(chain, Fields), NEW i,
         \/ NewSale(i) \/ Sale(i) \/ Configuration \/ NewAuction(i) \/ Auction(i)
         \/ Buyoffer(i) \/ TemplateBuyoffer(i) \/ MarketRows(i)
  PROVE  SentOf(MarketListeners)
<1>0. {"sales", "auctions", "buyoffers", "templateBuyoffers", "market", "rows", "logs"} \subseteq Fields
  BY DEF Fields
<1>1. ASSUME NewSale(i) \/ Sale(i) PROVE SentOf(MarketListeners)
  <2>1. ASSUME NEW a, NEW data, NEW new, SaleAction(i, a, data, new) PROVE SentOf(MarketListeners)
    BY <1>0, <2>1, SentField DEF SaleAction, Emit
  <2>2. \E a, data, new : SaleAction(i, a, data, new)
    BY Zenon, <1>1 DEF NewSale, Sale
  <2> QED BY <2>1, <2>2
<1>2. ASSUME NewAuction(i) \/ Auction(i) PROVE SentOf(MarketListeners)
  <2>1. ASSUME NEW a, NEW data, NEW new, AuctionAction(i, a, data, new) PROVE SentOf(MarketListeners)
    BY <1>0, <2>1, SentField DEF AuctionAction, Emit
  <2>2. \E a, data, new : AuctionAction(i, a, data, new)
    BY Zenon, <1>2 DEF NewAuction, Auction
  <2> QED BY <2>1, <2>2
<1>3. ASSUME Configuration PROVE SentOf(MarketListeners)
  <2>1. ASSUME NEW v, Configure(v) PROVE SentOf(MarketListeners)
    BY <1>0, <2>1, SentField DEF Configure, Emit
  <2>2. \E v : Configure(v)
    BY <1>3 DEF Configuration
  <2> QED BY <2>1, <2>2
<1>4. ASSUME MarketRows(i) PROVE SentOf(MarketListeners)
  <2>1. ASSUME NEW t, NEW v, SetRow(t, i, v) PROVE SentOf(MarketListeners)
    BY <1>0, <2>1, SentField DEF SetRow, Emit
  <2>2. \E t, v : SetRow(t, i, v)
    BY Zenon, <1>4 DEF MarketRows
  <2> QED BY <2>1, <2>2
<1>5. ASSUME NEW ts, Emit(chain, ts) PROVE SentOf(MarketListeners)
  BY <1>5 DEF Emit, SentOf
<1>6. ASSUME Buyoffer(i) PROVE SentOf(MarketListeners)
  <2>1. ASSUME NEW v, NEW ts, Emit([chain EXCEPT !.buyoffers[i] = v], ts) PROVE SentOf(MarketListeners)
    BY <1>0, <2>1, SentField DEF Emit
  <2>2. (\E v, ts : Emit([chain EXCEPT !.buyoffers[i] = v], ts)) \/ \E ts : Emit(chain, ts)
    BY <1>6 DEF Buyoffer
  <2> QED BY <1>5, <2>1, <2>2
<1>7. ASSUME TemplateBuyoffer(i) PROVE SentOf(MarketListeners)
  <2>1. ASSUME NEW v, NEW ts, Emit([chain EXCEPT !.templateBuyoffers[i] = v], ts) PROVE SentOf(MarketListeners)
    BY <1>0, <2>1, SentField DEF Emit
  <2>2. (\E v, ts : Emit([chain EXCEPT !.templateBuyoffers[i] = v], ts)) \/ \E ts : Emit(chain, ts)
    BY <1>7 DEF TemplateBuyoffer
  <2> QED BY <1>5, <2>1, <2>2
<1> QED BY <1>1, <1>2, <1>3, <1>4, <1>6, <1>7

LEMMA ToolsSent ==
  ASSUME IsMap(chain, Fields), NEW i, Link(i) \/ NewVersion
  PROVE  SentOf(ToolsListeners)
<1>0. {"links", "tools"} \subseteq Fields
  BY DEF Fields
<1>1. ASSUME Link(i) PROVE SentOf(ToolsListeners)
  <2>1. ASSUME NEW a, NEW data, NEW row, LinkAction(i, a, data, row) PROVE SentOf(ToolsListeners)
    BY <1>0, <2>1, SentField DEF LinkAction
  <2>2. \E a, data, row : LinkAction(i, a, data, row)
    BY <1>1 DEF Link
  <2> QED BY <2>1, <2>2
<1>2. ASSUME NewVersion PROVE SentOf(ToolsListeners)
  BY <1>0, <1>2, SentField DEF NewVersion
<1> QED BY <1>1, <1>2

LEMMA SimpleSentOf ==
  ASSUME IsMap(chain, Fields), SimpleAsset \/ SimpleAuthor \/ SimpleVersion
  PROVE  SentOf(SimpleListeners)
<1>0. {"simple", "simpleTransfers", "authors", "simpleVersion"} \subseteq Fields
  BY DEF Fields
<1>1. ASSUME NEW rows, NEW a, NEW data, SimpleAction(WithSimple(rows), a, data) PROVE SentOf(SimpleListeners)
  BY <1>0, <1>1, SentField DEF SimpleAction, WithSimple
<1>2. ASSUME NEW act, NEW a, NEW b, NEW ids, SimpleMove(act, a, b, ids) PROVE SentOf(SimpleListeners)
  <2> DEFINE sequence == Cardinality(chain.simpleTransfers) + 1
             moved == [x \in ids |-> [chain.simple[x] EXCEPT !.owner = b]]
             new == {[transfer_id |-> sequence, recipient |-> b, assets |-> ids,
                      sender |-> IF act = "claim" THEN b ELSE a]}
             data == [ids |-> ids, from |-> a, to |-> b, global_sequence |-> sequence]
             c == [WithSimple(moved) EXCEPT !.simpleTransfers = @ \cup new]
  <2>1. SimpleAction(c, act, data)
    BY <1>2 DEF SimpleMove
  <2> HIDE DEF sequence, moved, new, data
  <2>2. IsMap(c, Fields) /\ c.oracle = chain.oracle /\ c.block = chain.block
    BY DEF WithSimple, IsMap, Fields
  <2> HIDE DEF c
  <2> QED BY <2>1, <2>2 DEF SimpleAction, SentOf
<1>3. ASSUME SimpleAsset PROVE SentOf(SimpleListeners)
  <2>1. \/ \E rows, a, data : SimpleAction(WithSimple(rows), a, data)
        \/ \E act, a, b, ids : SimpleMove(act, a, b, ids)
    BY Zenon, <1>3 DEF SimpleAsset
  <2> QED BY <1>1, <1>2, <2>1
<1>4. ASSUME SimpleAuthor PROVE SentOf(SimpleListeners)
  BY <1>0, <1>4, SentField DEF SimpleAuthor, SimpleAction
<1>5. ASSUME SimpleVersion PROVE SentOf(SimpleListeners)
  BY <1>0, <1>5, SentField DEF SimpleVersion, SimpleAction
<1> QED BY <1>3, <1>4, <1>5

LEMMA AssetsSent ==
  ASSUME IsMap(chain, Fields), NEW i,
         \/ MintedAsset(i) \/ Collection(i) \/ Definition(i) \/ AssetConfiguration \/ AssetBalance(i)
  PROVE  SentOf(AssetListeners)
<1>0. {"minted", "transfers", "collections", "schemas", "templates", "assetConfig", "assetBalances"}
        \subseteq Fields
  BY DEF Fields
<1>1. ASSUME NEW f \in Fields, f \notin {"oracle", "block"}, NEW v, NEW ts,
             AssetsAction([chain EXCEPT ![f] = v], ts)
      PROVE  SentOf(AssetListeners)
  BY <1>1, SentField DEF AssetsAction
<1>2. ASSUME NEW f \in Fields, f \notin {"oracle", "block"}, NEW v, NEW a, NEW t, NEW data,
             Define(a, [chain EXCEPT ![f] = v], t, data)
      PROVE  SentOf(AssetListeners)
  BY <1>2, SentField DEF Define, AssetsAction
<1>3. ASSUME MintedAsset(i) PROVE SentOf(AssetListeners)
  <2>1. ASSUME NEW v, NEW ts, AssetsAction([chain EXCEPT !.minted[i] = v], ts) PROVE SentOf(AssetListeners)
    BY <1>0, <2>1, SentField DEF AssetsAction
  <2>2. ASSUME NEW v, NEW ts, AssetsAction([chain EXCEPT !.transfers = @ \cup v], ts) PROVE SentOf(AssetListeners)
    BY <1>0, <2>2, SentField DEF AssetsAction
  <2>3. \/ \E v, ts : AssetsAction([chain EXCEPT !.minted[i] = v], ts)
        \/ \E v, ts : AssetsAction([chain EXCEPT !.transfers = @ \cup v], ts)
    BY <1>3 DEF MintedAsset
  <2> QED BY <2>1, <2>2, <2>3
<1>4. ASSUME Collection(i) PROVE SentOf(AssetListeners)
  <2>1. ASSUME NEW v, NEW a, NEW t, NEW data, Define(a, [chain EXCEPT !.collections[i] = v], t, data)
        PROVE  SentOf(AssetListeners)
    BY <1>0, <2>1, SentField DEF Define, AssetsAction
  <2>2. \E v, a, t, data : Define(a, [chain EXCEPT !.collections[i] = v], t, data)
    BY <1>4 DEF Collection
  <2> QED BY <2>1, <2>2
<1>5. ASSUME Definition(i) PROVE SentOf(AssetListeners)
  <2>1. ASSUME NEW v, NEW a, NEW t, NEW data, Define(a, [chain EXCEPT !.schemas[i] = v], t, data)
        PROVE  SentOf(AssetListeners)
    BY <1>0, <2>1, SentField DEF Define, AssetsAction
  <2>2. ASSUME NEW v, NEW a, NEW t, NEW data, Define(a, [chain EXCEPT !.templates[i] = v], t, data)
        PROVE  SentOf(AssetListeners)
    BY <1>0, <2>2, SentField DEF Define, AssetsAction
  <2>3. ASSUME NEW ts, AssetsAction([chain EXCEPT !.templates[i].state = "deleted"], ts)
        PROVE  SentOf(AssetListeners)
    BY <1>0, <2>3, SentField DEF AssetsAction
  <2>4. \/ \E v, a, t, data : Define(a, [chain EXCEPT !.schemas[i] = v], t, data)
        \/ \E v, a, t, data : Define(a, [chain EXCEPT !.templates[i] = v], t, data)
        \/ \E ts : AssetsAction([chain EXCEPT !.templates[i].state = "deleted"], ts)
    BY <1>5 DEF Definition
  <2> QED BY <2>1, <2>2, <2>3, <2>4
<1>6. ASSUME AssetConfiguration PROVE SentOf(AssetListeners)
  <2>1. ASSUME NEW v, NEW ts, AssetsAction([chain EXCEPT !.assetConfig = v], ts) PROVE SentOf(AssetListeners)
    BY <1>0, <2>1, SentField DEF AssetsAction
  <2>2. \E v, ts : AssetsAction([chain EXCEPT !.assetConfig = v], ts)
    BY <1>6 DEF AssetConfiguration
  <2> QED BY <2>1, <2>2
<1>7. ASSUME AssetBalance(i) PROVE SentOf(AssetListeners)
  BY <1>0, <1>7, SentField DEF AssetBalance, AssetsAction
<1> QED BY <1>3, <1>4, <1>5, <1>6, <1>7

(* A contract other than the oracle leaves the oracle alone. *)
LEMMA ContractSends ==
  ASSUME IsMap(chain, Fields), Contract
  PROVE  \/ \E L \in {MarketListeners, ToolsListeners, SimpleListeners, AssetListeners} : SentOf(L)
         \/ \E p \in Pairs : Pair(p) \/ Median(p)
<1>1. ASSUME NEW i, \/ NewSale(i) \/ Sale(i) \/ Configuration \/ NewAuction(i) \/ Auction(i)
                    \/ Buyoffer(i) \/ TemplateBuyoffer(i) \/ MarketRows(i)
      PROVE  SentOf(MarketListeners)
  BY <1>1, MarketSent
<1>2. ASSUME NEW i, Link(i) \/ NewVersion PROVE SentOf(ToolsListeners)
  BY <1>2, ToolsSent
<1>3. ASSUME SimpleAsset \/ SimpleAuthor \/ SimpleVersion PROVE SentOf(SimpleListeners)
  BY <1>3, SimpleSentOf
<1>4. ASSUME NEW i, \/ MintedAsset(i) \/ Collection(i) \/ Definition(i) \/ AssetConfiguration \/ AssetBalance(i)
      PROVE  SentOf(AssetListeners)
  BY <1>4, AssetsSent
<1> QED BY <1>1, <1>2, <1>3, <1>4 DEF Contract

(* What an action of a contract leaves alone. *)
LEMMA ContractFrame ==
  ASSUME IsMap(chain, Fields), Contract
  PROVE  /\ UNCHANGED <<tables, memory, committed, previous, rolledBack, started, head, running, forks>>
         /\ ~ executing /\ UNCHANGED <<executing, queue, lastPriority>>
<1>1. ASSUME NEW c, NEW ts, NEW L, Send(c, ts, L)
      PROVE  /\ UNCHANGED <<tables, memory, committed, previous, rolledBack, started, head, running, forks>>
             /\ ~ executing /\ UNCHANGED <<executing, queue, lastPriority>>
  BY <1>1 DEF Send, ProcessTraces, historyVars, readerVars
<1>2. \E c, ts, L : Send(c, ts, L)
  BY Zenon, ContractSends DEF SentOf, Pair, Median, OracleAction
<1> QED BY <1>1, <1>2

(* No step changes a settled row but a fork and the end of the process. *)
LEMMA SettledStays ==
  ASSUME Inv, [Next]_vars, forks' = forks, running', NEW k \in SettledKinds, NEW x \in Ids,
         tables[k][x].state \in Settled \cup {"CLAIMED"}
  PROVE  tables'[k][x] = tables[k][x]
<1>1. k \in Fields /\ k \notin {"oracle", "simple", "minted"} /\ IsMap(chain, Fields) /\ Shape(tables)
  BY Zenon DEF SettledKinds, Fields, Inv, ShapesInv, ChainShape, Shape
<1>2. ASSUME NEW j, AnyJob(j) PROVE tables'[k][x] = tables[k][x]
  BY <1>2, SettledUntouched, UntouchedRow
<1>3. ASSUME Contract PROVE tables' = tables
  BY <1>1, <1>3, ContractFrame
<1>4. ASSUME Start \/ Commit \/ CommitEmpty \/ ReachHead PROVE tables' = tables
  BY <1>4 DEF Start, Commit, CommitEmpty, ReachHead, Committed
<1>5. ASSUME PriorityComplete PROVE tables'[k] = tables[k]
  <2>1. tables' = Collected \/ tables' = tables
    BY <1>5 DEF PriorityComplete, Collected
  <2>2. Collected = Into(tables, memory.simpleInserts, memory.mints)
    BY <1>1, CollectedNow DEF Shape, Collected
  <2>3. Into(tables, memory.simpleInserts, memory.mints)[k] = tables[k]
    BY <1>1, IntoFields
  <2> QED BY <2>1, <2>2, <2>3
<1>6. ASSUME NEW j, Throw(j) PROVE FALSE
  BY <1>6 DEF Throw, Stopped
<1>7. ASSUME Crash PROVE FALSE
  BY <1>7 DEF Crash, Stopped
<1>8. ASSUME ForkSwitch PROVE FALSE
  <2>1. forks \in Nat /\ forks' = forks + 1
    BY <1>8 DEF ForkSwitch, Fork, Inv, ReaderInv
  <2> QED BY <2>1
<1>9. ASSUME NewProcess PROVE tables'[k] = tables[k]
  <2> DEFINE F == [t \in {tables, committed.tables, previous.tables} |-> InitPairs(t)]
  <2>1. tables' = F[tables]
    BY <1>9 DEF NewProcess, Restart
  <2>2. F[tables] = InitPairs(tables) OBVIOUS
  <2>3. InitPairs(tables)[k] = tables[k]
    BY <1>1, InitPairsIs
  <2> QED BY <2>1, <2>2, <2>3
<1>10. ASSUME UNCHANGED vars PROVE tables' = tables
  BY <1>10 DEF vars, contractVars
<1>11. ASSUME Handler PROVE tables'[k][x] = tables[k][x]
  <2>1. \/ Start \/ PriorityComplete \/ Commit \/ CommitEmpty
        \/ \E j \in queue : AnyJob(j) \/ Throw(j)
    BY <1>11 DEF Handler, AnyJob
  <2> QED BY <1>2, <1>4, <1>5, <1>6, <2>1
<1> QED BY <1>3, <1>4, <1>7, <1>8, <1>9, <1>10, <1>11 DEF Next

(* A sale, buyoffer or link that is settled stays as it is, unless a fork  *)
(* or the end of the transaction that settled it takes it back.            *)
THEOREM SettledForGoodHolds == Spec => SettledForGood
<1> DEFINE Kept == forks' = forks /\ running' =>
                     \A r \in SettledRows(tables) : tables'[r[1]][r[2]] = tables[r[1]][r[2]]
<1>1. ASSUME Inv, [Next]_vars, forks' = forks, running', NEW r \in SettledRows(tables)
      PROVE  tables'[r[1]][r[2]] = tables[r[1]][r[2]]
  <2>1. /\ r[1] \in SettledKinds /\ r[2] \in Ids
        /\ tables[r[1]][r[2]].state \in Settled \cup {"CLAIMED"}
    BY <1>1 DEF SettledRows, SettledKinds
  <2> QED BY <1>1, <2>1, SettledStays
<1>2. Inv /\ [Next]_vars => [Kept]_vars
  BY <1>1
<1> QED BY <1>2, Invariance, PTL DEF Spec, SettledForGood

----------------------------------------
(* Medians *)

(* A median that was written, or was not due. *)
LEMMA FreshRun ==
  ASSUME NEW Q, NEW n, JobsOK(Q, n), NEW c, MedianOrder(Q, c), NEW j, IsNextIn(j, Q), j.callback = "datapoints",
         NEW p \in Pairs, p = j.trace.name, NEW r, Fresh(p, r, Q, c), NEW r2, MedianIn(r2) \in Nat,
         c.oracle[p].last \in Nat, UpdateInterval \in Nat, j.trace.block <= MedianIn(r2) + UpdateInterval
  PROVE  Fresh(p, r2, Q \ {j}, c)
<1>1. j \in OracleJobs(Q, p) /\ j \in Q
  BY DEF OracleJobs, IsNextIn
<1>2. CASE j.trace.block = c.oracle[p].last
  <2>1. ASSUME NEW i \in OracleJobs(Q, p), i # j PROVE FALSE
    <3>1. i \in Q /\ i.callback = "datapoints" /\ i.trace.name = p
      BY <2>1 DEF OracleJobs
    <3>2. /\ i.index \in 1 .. n /\ j.index \in 1 .. n /\ n \in Nat
          /\ i.priority = j.priority /\ i.priority \in Nat
      BY <1>1, <3>1 DEF JobsOK
    <3>3. i.index # j.index
      BY <1>1, <2>1, <3>1 DEF JobsOK
    <3>4. ~ (i.index < j.index)
      BY <3>1, <3>2 DEF IsNextIn, Before
    <3>5. j.index < i.index
      BY <3>2, <3>3, <3>4
    <3>6. j.trace.block < i.trace.block
      BY <1>1, <3>1, <3>5 DEF MedianOrder
    <3>7. i.trace.block <= c.oracle[p].last /\ i.trace.block \in Nat
      BY <3>1 DEF MedianOrder
    <3> QED BY <1>2, <3>6, <3>7
  <2>2. OracleJobs(Q \ {j}, p) = {}
    BY <2>1 DEF OracleJobs
  <2> QED BY <1>2, <2>2 DEF Fresh
<1>3. CASE j.trace.block # c.oracle[p].last
  <2>1. PICK i \in OracleJobs(Q, p) : i.trace.block = c.oracle[p].last
    BY <1>1 DEF Fresh
  <2>2. i \in OracleJobs(Q \ {j}, p)
    BY <1>3, <2>1 DEF OracleJobs
  <2> QED BY <2>1, <2>2 DEF Fresh
<1> QED BY <1>2, <1>3

(* Jobs of other pairs and callbacks. *)
LEMMA FreshOther ==
  ASSUME NEW Q, NEW j, NEW p, ~ (j.callback = "datapoints" /\ j.trace.name = p),
         NEW c, NEW r, NEW r2, Fresh(p, r, Q, c), MedianIn(r2) = MedianIn(r)
  PROVE  Fresh(p, r2, Q \ {j}, c)
<1>1. OracleJobs(Q \ {j}, p) = OracleJobs(Q, p)
  BY DEF OracleJobs
<1> QED BY <1>1 DEF Fresh

(* The order of the other jobs stays. *)
LEMMA OrderRun ==
  ASSUME NEW Q, NEW c, MedianOrder(Q, c), NEW j
  PROVE  MedianOrder(Q \ {j}, c)
BY DEF MedianOrder

(* The row of a pair that is saved keeps its median. *)
LEMMA PairSaved ==
  ASSUME NEW r \in PriceRows
  PROVE  /\ PairRow(r) \in PriceRows /\ PairRow(r) # NoRow /\ MedianIn(PairRow(r)) = MedianIn(r)
         /\ MedianIn(r) \in Nat
<1>1. CASE r = NoRow
  <2>1. PairRow(r) = NewPair
    BY <1>1 DEF PairRow
  <2>2. NewPair \in PriceRows /\ NewPair # NoRow /\ NewPair.median = 0
    BY Zenon DEF NewPair, PriceRows, NoRow
  <2> QED BY <1>1, <2>1, <2>2 DEF MedianIn
<1>2. CASE r # NoRow
  <2>1. r.median \in Nat
    BY <1>2 DEF PriceRows
  <2>2. PairRow(r) = [state |-> "row", median |-> r.median, updated_at_block |-> 0]
    BY <1>2 DEF PairRow, NewPair
  <2>3. PairRow(r) \in PriceRows /\ PairRow(r) # NoRow /\ PairRow(r).median = r.median
    <3>1. PairRow(r) \in [state : {"row"}, median : Nat, updated_at_block : Nat]
      BY <2>1, <2>2
    <3>2. PairRow(r).state = "row" /\ NoRow.state = "no row" /\ PairRow(r).median = r.median
      BY <2>2 DEF NoRow
    <3> QED BY Zenon, <3>1, <3>2 DEF PriceRows
  <2> QED BY <1>2, <2>1, <2>3 DEF MedianIn
<1> QED BY <1>1, <1>2

----------------------------------------
(* Medians: jobs *)

(* Handlers of other contracts leave the oracle's rows and memory alone. *)
LEMMA MarketOracle ==
  ASSUME Inv, NEW j, MarketJob(j)
  PROVE  /\ tables'.oracle = tables.oracle /\ memory'.oracle = memory.oracle
         /\ JobFrame /\ \E a : a # "datapoints" /\ Runs(j, a)
<1>1. IsMap(tables, Fields) /\ IsMap(memory, MemoryFields) /\ "oracle" \in Fields /\ "oracle" \in MemoryFields
  BY DEF Inv, ShapesInv, Shape, Fields, MemoryFields
<1>2. ASSUME \/ LogNewSale(j) \/ LogSaleStart(j) \/ CancelSale(j) \/ PurchaseSale(j)
             \/ LogNewBuyoffer(j) \/ CloseBuyoffer(j, "cancelbuyo", "CANCELED")
             \/ CloseBuyoffer(j, "acceptbuyo", "ACCEPTED") \/ CloseBuyoffer(j, "declinebuyo", "DECLINED")
             \/ LogNewTemplateBuyoffer(j) \/ CancelTemplateBuyoffer(j) \/ FulfillTemplateBuyoffer(j)
      PROVE  /\ tables'.oracle = tables.oracle /\ memory'.oracle = memory.oracle
             /\ JobFrame /\ \E a : a # "datapoints" /\ Runs(j, a)
  BY Zenon, <1>1, <1>2 DEF LogNewSale, LogSaleStart, CancelSale, PurchaseSale, LogNewBuyoffer, CloseBuyoffer,
       LogNewTemplateBuyoffer, CancelTemplateBuyoffer, FulfillTemplateBuyoffer, Change, IsMap
<1>3. ASSUME \/ LogNewAuction(j) \/ AuctionsRow(j) \/ LogAuctionStart(j) \/ CancelAuction(j)
             \/ AuctionBid(j) \/ AuctionClaimBuyer(j) \/ AuctionClaimSeller(j)
      PROVE  /\ tables'.oracle = tables.oracle /\ memory'.oracle = memory.oracle
             /\ JobFrame /\ \E a : a # "datapoints" /\ Runs(j, a)
  BY Zenon, <1>1, <1>3 DEF LogNewAuction, AuctionsRow, LogAuctionStart, CancelAuction, AuctionBid,
       AuctionClaimBuyer, AuctionClaimSeller, Change, IsMap
<1>4. ASSUME Config(j) \/ Marketplace(j) \/ Bonusfee(j) \/ Balance(j)
      PROVE  /\ tables'.oracle = tables.oracle /\ memory'.oracle = memory.oracle
             /\ JobFrame /\ \E a : a # "datapoints" /\ Runs(j, a)
  BY <1>1, <1>4 DEF Config, Marketplace, Bonusfee, Balance, Change, IsMap
<1> QED BY <1>2, <1>3, <1>4 DEF MarketJob

LEMMA ToolsOracle ==
  ASSUME Inv, NEW j, ToolsJob(j)
  PROVE  /\ tables'.oracle = tables.oracle /\ memory'.oracle = memory.oracle
         /\ JobFrame /\ \E a : a # "datapoints" /\ Runs(j, a)
<1>1. IsMap(tables, Fields) /\ IsMap(memory, MemoryFields) /\ "oracle" \in Fields /\ "oracle" \in MemoryFields
  BY DEF Inv, ShapesInv, Shape, Fields, MemoryFields
<1> QED BY <1>1 DEF ToolsJob, LogNewLink, SetLink, ClaimLink, ToolsConfig, IsMap

LEMMA OtherOracle ==
  ASSUME Inv, NEW j, SimpleJob(j) \/ AssetsJob(j) \/ LogTrace(j)
  PROVE  /\ tables'.oracle = tables.oracle /\ memory'.oracle = memory.oracle
         /\ JobFrame /\ \E a : a # "datapoints" /\ Runs(j, a)
<1>1. IsMap(tables, Fields) /\ IsMap(memory, MemoryFields) /\ "oracle" \in MemoryFields
  BY DEF Inv, ShapesInv, Shape, MemoryFields
<1>2. tables'.oracle = tables.oracle
  BY <1>1, OtherTables DEF OwnKinds
<1>3. ASSUME SimpleJob(j)
      PROVE  memory'.oracle = memory.oracle /\ JobFrame /\ \E a : a # "datapoints" /\ Runs(j, a)
  <2>1. ASSUME BurnLog(j) \/ UpdateData(j) \/ ChangeAuthor(j) \/ SimpleTransfer(j) \/ Claim(j)
        PROVE  memory'.oracle = memory.oracle /\ JobFrame /\ \E a : a # "datapoints" /\ Runs(j, a)
    <3>1. \E a, rows, transfers : a # "datapoints" /\ SimpleUpdate(j, a, rows, transfers)
      BY Zenon, <2>1 DEF BurnLog, UpdateData, ChangeAuthor, SimpleTransfer, Claim
    <3> QED BY <3>1 DEF SimpleUpdate
  <2>2. ASSUME CreateLog(j) \/ Author(j) \/ SimpleTokenConfigs(j)
        PROVE  memory'.oracle = memory.oracle /\ JobFrame /\ \E a : a # "datapoints" /\ Runs(j, a)
    BY <1>1, <2>2 DEF CreateLog, Author, SimpleTokenConfigs, IsMap
  <2> QED BY <1>3, <2>1, <2>2 DEF SimpleJob
<1>4. ASSUME AssetsJob(j)
      PROVE  memory'.oracle = memory.oracle /\ JobFrame /\ \E a : a # "datapoints" /\ Runs(j, a)
  <2>1. ASSUME Minted(j) \/ AssetConfig(j) \/ AssetTokenConfigs(j)
        PROVE  memory'.oracle = memory.oracle /\ JobFrame /\ \E a : a # "datapoints" /\ Runs(j, a)
    BY <1>1, <2>1 DEF Minted, AssetConfig, AssetTokenConfigs, IsMap
  <2>2. ASSUME \/ LogBackAsset(j) \/ LogSetData(j) \/ StoreTransfer(j)
               \/ Collections(j) \/ Schemas(j) \/ Templates(j) \/ AssetBalances(j)
        PROVE  memory'.oracle = memory.oracle /\ JobFrame /\ \E a : a # "datapoints" /\ Runs(j, a)
    BY <2>2 DEF LogBackAsset, LogSetData, StoreTransfer, Collections, Schemas, Templates, AssetBalances,
         AssetsChange
  <2> QED BY <1>4, <2>1, <2>2 DEF AssetsJob
<1>5. ASSUME LogTrace(j)
      PROVE  memory'.oracle = memory.oracle /\ JobFrame /\ \E a : a # "datapoints" /\ Runs(j, a)
  BY <1>5 DEF LogTrace
<1> QED BY <1>2, <1>3, <1>4, <1>5

(* A job of the oracle or another one. *)
LEMMA RunMedians ==
  ASSUME Inv, MedianInv, NEW j, NEW a, Runs(j, a), JobFrame,
         forks = 0 =>
           /\ RowsOf(tables') /\ IsMap(memory'.oracle, {"pairs", "lastUpdated"})
           /\ memory'.oracle.lastUpdated \in [Pairs -> Nat] /\ LastUpdated(memory'.oracle, tables')
           /\ \A p \in Pairs : Fresh(p, tables'.oracle[p], queue \ {j}, chain)
  PROVE  MedianInv'
<1>1. /\ executing /\ executing' = TRUE /\ queue' = queue \ {j}
      /\ UNCHANGED <<chain, committed, rolledBack, started, running, forks>>
  BY DEF Runs, JobFrame, historyVars, readerVars, boundVars, Inv, ReaderInv
<1>2. Pending' = Pending
  BY <1>1 DEF Pending
<1> SUFFICES ASSUME forks = 0
             PROVE  MedianInv'
  BY <1>1 DEF MedianInv
<1>3. MedianOrder(queue \ {j}, chain)
  BY <1>1, OrderRun DEF MedianInv
<1>4. /\ ~ rolledBack' /\ PairsOf(chain') /\ RowsOf(tables') /\ RowsOf(committed'.tables)
      /\ IsMap(memory'.oracle, {"pairs", "lastUpdated"}) /\ memory'.oracle.lastUpdated \in [Pairs -> Nat]
      /\ LastUpdated(memory'.oracle, tables')
  BY <1>1 DEF MedianInv
<1>5. MedianOrder(Pending', chain') /\ \A p \in Pairs : Fresh(p, committed'.tables.oracle[p], Pending', chain')
  BY <1>1, <1>2 DEF MedianInv
<1>6. MedianOrder(queue', chain') /\ \A p \in Pairs : Fresh(p, tables'.oracle[p], queue', chain')
  BY <1>1, <1>3
<1> QED BY <1>4, <1>5, <1>6 DEF MedianInv

(* So they keep the invariant. *)
LEMMA OtherMedians ==
  ASSUME Inv, MedianInv, NEW j, MarketJob(j) \/ ToolsJob(j) \/ SimpleJob(j) \/ AssetsJob(j) \/ LogTrace(j)
  PROVE  MedianInv'
<1>1. /\ tables'.oracle = tables.oracle /\ memory'.oracle = memory.oracle
      /\ JobFrame /\ \E a : a # "datapoints" /\ Runs(j, a)
  BY MarketOracle, ToolsOracle, OtherOracle
<1>2. PICK a : a # "datapoints" /\ Runs(j, a)
  BY <1>1
<1>3. executing /\ running /\ j.callback # "datapoints"
  BY <1>2 DEF Runs, Inv, ReaderInv
<1>4. ASSUME forks = 0
      PROVE  /\ RowsOf(tables') /\ IsMap(memory'.oracle, {"pairs", "lastUpdated"})
             /\ memory'.oracle.lastUpdated \in [Pairs -> Nat] /\ LastUpdated(memory'.oracle, tables')
             /\ \A p \in Pairs : Fresh(p, tables'.oracle[p], queue \ {j}, chain)
  <2>1. /\ RowsOf(tables) /\ IsMap(memory.oracle, {"pairs", "lastUpdated"})
        /\ memory.oracle.lastUpdated \in [Pairs -> Nat] /\ LastUpdated(memory.oracle, tables)
        /\ \A p \in Pairs : Fresh(p, tables.oracle[p], queue, chain)
    BY <1>3, <1>4 DEF MedianInv
  <2>2. \A p \in Pairs : Fresh(p, tables.oracle[p], queue \ {j}, chain)
    BY <1>3, <2>1, FreshOther
  <2> QED BY <1>1, <2>1, <2>2 DEF RowsOf, LastUpdated
<1> QED BY <1>1, <1>2, <1>4, RunMedians

(* The job that runs is the next. *)
LEMMA IsNextJob ==
  ASSUME Inv, NEW j, NEW a, Runs(j, a)
  PROVE  executing /\ running /\ j.callback = a /\ IsNextIn(j, queue) /\ j \in queue /\ JobsOK(queue, started.traces)
BY DEF Runs, IsNext, IsNextIn, Inv, ReaderInv

(* A pair that is saved keeps its median. *)
LEMMA SavePairMedians ==
  ASSUME Inv, MedianInv, NEW j, SavePairRow(j)
  PROVE  MedianInv'
<1> DEFINE p == j.trace.name
           w == [q \in Pairs |-> IF q = p /\ p \notin memory.oracle.pairs THEN PairRow(tables.oracle[p])
                                 ELSE tables.oracle[q]]
           s == memory.oracle.pairs \cup {p}
           m == [memory.oracle EXCEPT !.pairs = s]
<1>1. /\ Runs(j, "pairs") /\ JobFrame /\ tables' = SavePair(p)
      /\ memory' = [memory EXCEPT !.oracle.pairs = s]
  BY DEF SavePairRow
<1>2. tables'.oracle = w
  <2>1. SavePair(p) = Put(tables, "oracle", w)
    BY SavedPair DEF Inv, ShapesInv
  <2> HIDE DEF w
  <2> QED BY <1>1, <2>1 DEF Put, Fields
<1>3. memory'.oracle = m
  <2>1. memory' = MemoryPut("oracle", m)
    BY <1>1, OracleMemory
  <2> HIDE DEF m
  <2> QED BY <2>1 DEF MemoryPut, MemoryFields
<1>4. executing /\ running /\ j.callback = "pairs"
  BY <1>1, IsNextJob
<1>5. ASSUME forks = 0
      PROVE  /\ RowsOf(tables') /\ IsMap(memory'.oracle, {"pairs", "lastUpdated"})
             /\ memory'.oracle.lastUpdated \in [Pairs -> Nat] /\ LastUpdated(memory'.oracle, tables')
             /\ \A q \in Pairs : Fresh(q, tables'.oracle[q], queue \ {j}, chain)
  <2>1. /\ RowsOf(tables) /\ IsMap(memory.oracle, {"pairs", "lastUpdated"})
        /\ memory.oracle.lastUpdated \in [Pairs -> Nat] /\ LastUpdated(memory.oracle, tables)
        /\ \A q \in Pairs : Fresh(q, tables.oracle[q], queue, chain)
    BY <1>4, <1>5 DEF MedianInv
  <2>2. /\ IsMap(m, {"pairs", "lastUpdated"}) /\ m.lastUpdated = memory.oracle.lastUpdated
    BY <2>1 DEF IsMap
  <2>3. ASSUME NEW q \in Pairs
        PROVE  /\ w[q] \in PriceRows /\ MedianIn(w[q]) = MedianIn(tables.oracle[q])
               /\ tables.oracle[q] # NoRow => w[q] # NoRow
    <3>1. tables.oracle[q] \in PriceRows
      BY <2>1 DEF RowsOf
    <3>2. w[q] = tables.oracle[q] \/ w[q] = PairRow(tables.oracle[q])
      OBVIOUS
    <3> HIDE DEF w
    <3> QED BY <3>1, <3>2, PairSaved
  <2> HIDE DEF w, m
  <2>4. \A q \in Pairs : Fresh(q, w[q], queue \ {j}, chain)
    BY <1>4, <2>1, <2>3, FreshOther
  <2>5. \A q \in Pairs : memory.oracle.lastUpdated[q] = 0
                          \/ (w[q] # NoRow /\ memory.oracle.lastUpdated[q] <= w[q].median)
    BY <2>1, <2>3 DEF LastUpdated, MedianIn
  <2> QED BY <1>2, <1>3, <2>1, <2>2, <2>3, <2>4, <2>5 DEF RowsOf, LastUpdated
<1> QED BY <1>1, <1>5, RunMedians

(* The row of the pair of the job j after it, and those of others. *)
LEMMA DatapointRow ==
  ASSUME Inv, NEW j, Datapoint(j), NEW p \in Pairs, p = j.trace.name, RowsOf(tables), j.trace.block \in Nat
  PROVE  LET r == tables.oracle[p]
             n == tables'.oracle[p]
         IN  /\ \A q \in Pairs \ {p} : tables'.oracle[q] = tables.oracle[q]
             /\ UpdateDue(j) => n \in PriceRows /\ n # NoRow /\ n.median = j.trace.block
             /\ ~ UpdateDue(j) => n = r \/ n = PairRow(r)
<1> DEFINE r == tables.oracle[p]
           e == FillPair(p)
           w == DatapointRows(j)
           b == j.trace.block
<1>1. tables'.oracle = w
  BY DatapointPut DEF Put, Fields
<1>2. /\ e.oracle[p] = r \/ e.oracle[p] = PairRow(r)
      /\ \A q \in Pairs \ {p} : e.oracle[q] = tables.oracle[q]
      /\ IsMap(e.oracle, Pairs)
  <2> DEFINE v == [q \in Pairs |-> IF q = p /\ p \notin memory.oracle.pairs THEN PairRow(tables.oracle[p])
                                   ELSE tables.oracle[q]]
  <2>1. SavePair(p) = Put(tables, "oracle", v)
    BY SavedPair DEF Inv, ShapesInv
  <2>2. SavePair(p).oracle = v
    <3> HIDE DEF v
    <3> QED BY <2>1 DEF Put, Fields
  <2>3. e = SavePair(p) \/ e = tables
    BY DEF FillPair
  <2>4. IsMap(tables.oracle, Pairs) /\ IsMap(v, Pairs)
    BY DEF Inv, ShapesInv, Shape, IsMap
  <2>5. (v[p] = r \/ v[p] = PairRow(r)) /\ \A q \in Pairs \ {p} : v[q] = tables.oracle[q]
    OBVIOUS
  <2> HIDE DEF v, e
  <2> QED BY <2>2, <2>3, <2>4, <2>5
<1>3. UpdateDue(j) => e.oracle[p] # NoRow
  BY DEF Datapoint, OracleThrows, Runs
<1>4. r \in PriceRows /\ PairRow(r) \in PriceRows
  BY PairSaved DEF RowsOf
<1>5. w = IF UpdateDue(j)
          THEN [e.oracle EXCEPT ![p] = [e.oracle[p] EXCEPT !.median = b, !.updated_at_block = b]]
          ELSE e.oracle
  BY DEF DatapointRows
<1> HIDE DEF e, w, b
<1>6. CASE UpdateDue(j)
  <2>1. e.oracle[p] \in [state : {"row"}, median : Nat, updated_at_block : Nat]
    BY <1>2, <1>3, <1>4, <1>6 DEF PriceRows
  <2> DEFINE o == e.oracle[p]
             n == [o EXCEPT !.median = b, !.updated_at_block = b]
  <2>2. n = [state |-> "row", median |-> b, updated_at_block |-> b]
    <3>1. o = [state |-> "row", median |-> o.median, updated_at_block |-> o.updated_at_block]
      BY <2>1
    <3> DEFINE h == [state |-> "row", median |-> b, updated_at_block |-> o.updated_at_block]
    <3>2. [o EXCEPT !.median = b] = h
      BY <3>1
    <3>3. n = [h EXCEPT !.updated_at_block = b]
      <4> HIDE DEF o, h
      <4> QED BY <3>1, <3>2
    <3> QED BY <3>3
  <2>3. n \in PriceRows /\ n.median = b
    BY <2>2 DEF PriceRows, b
  <2>4. n # NoRow
    <3>1. n.state = "row" /\ NoRow.state = "no row"
      BY <2>2 DEF NoRow
    <3> QED BY Zenon, <3>1
  <2> HIDE DEF n
  <2>5. w = [e.oracle EXCEPT ![p] = n]
    BY <1>5, <1>6 DEF n
  <2>6. w[p] = n /\ \A q \in Pairs \ {p} : w[q] = e.oracle[q]
    BY <1>2, <2>5 DEF IsMap
  <2> QED BY <1>1, <1>2, <1>6, <2>3, <2>4, <2>6 DEF b
<1>7. CASE ~ UpdateDue(j)
  BY <1>1, <1>2, <1>5, <1>7
<1> QED BY <1>6, <1>7

(* A median that is due is written and remembered; one that is not is new  *)
(* enough.                                                                 *)
LEMMA DatapointMedians ==
  ASSUME HandlersAssumption, Inv, MedianInv, NEW j, Datapoint(j)
  PROVE  MedianInv'
<1> DEFINE p == j.trace.name
           b == j.trace.block
           u == memory.oracle.lastUpdated
           l == IF UpdateDue(j) THEN b ELSE u[p]
<1>1. /\ Runs(j, "datapoints") /\ JobFrame /\ memory'.oracle = DatapointMemory(j)
  BY DatapointPut DEF MemoryPut, MemoryFields
<1>2. executing /\ running /\ j.callback = "datapoints" /\ IsNextIn(j, queue) /\ j \in queue
      /\ JobsOK(queue, started.traces)
  BY <1>1, IsNextJob
<1>3. ASSUME forks = 0
      PROVE  /\ RowsOf(tables') /\ IsMap(memory'.oracle, {"pairs", "lastUpdated"})
             /\ memory'.oracle.lastUpdated \in [Pairs -> Nat] /\ LastUpdated(memory'.oracle, tables')
             /\ \A q \in Pairs : Fresh(q, tables'.oracle[q], queue \ {j}, chain)
  <2>1. /\ RowsOf(tables) /\ IsMap(memory.oracle, {"pairs", "lastUpdated"})
        /\ u \in [Pairs -> Nat] /\ LastUpdated(memory.oracle, tables)
        /\ MedianOrder(queue, chain) /\ PairsOf(chain)
        /\ \A q \in Pairs : Fresh(q, tables.oracle[q], queue, chain)
    BY <1>2, <1>3 DEF MedianInv
  <2>2. p \in Pairs /\ b \in Nat /\ UpdateInterval \in Nat
    BY <1>2, <2>1 DEF MedianOrder, HandlersAssumption
  <2>3. /\ \A q \in Pairs \ {p} : tables'.oracle[q] = tables.oracle[q]
        /\ UpdateDue(j) => /\ tables'.oracle[p] \in PriceRows /\ tables'.oracle[p] # NoRow
                           /\ tables'.oracle[p].median = b
        /\ ~ UpdateDue(j) => tables'.oracle[p] = tables.oracle[p] \/ tables'.oracle[p] = PairRow(tables.oracle[p])
    BY <2>1, <2>2, DatapointRow
  <2>4. IsMap(memory'.oracle, {"pairs", "lastUpdated"}) /\ memory'.oracle.lastUpdated = [u EXCEPT ![p] = l]
    <3> DEFINE s == IF PairMissing(p) THEN memory.oracle.pairs \cup {p} ELSE memory.oracle.pairs
    <3>1. memory'.oracle = [[memory.oracle EXCEPT !.pairs = s] EXCEPT !.lastUpdated[p] = l]
      BY <1>1 DEF DatapointMemory
    <3> HIDE DEF s, l
    <3> QED BY <2>1, <3>1 DEF IsMap
  <2>5. UpdateDue(j) <=> u[p] + UpdateInterval < b
    BY DEF UpdateDue
  <2> DEFINE o == tables.oracle[p]
             n == tables'.oracle[p]
  <2>6. o \in PriceRows /\ (u[p] = 0 \/ (o # NoRow /\ u[p] <= o.median)) /\ u[p] \in Nat
    BY <2>1, <2>2 DEF RowsOf, LastUpdated
  <2>7. l \in Nat /\ memory'.oracle.lastUpdated \in [Pairs -> Nat]
        /\ memory'.oracle.lastUpdated[p] = l
        /\ \A q \in Pairs \ {p} : memory'.oracle.lastUpdated[q] = u[q]
    <3>1. l \in Nat
      BY <2>2, <2>6
    <3> HIDE DEF l, u
    <3> QED BY <2>1, <2>2, <2>4, <3>1
  <2> HIDE DEF u, l, o, n
  <2>8. /\ n \in PriceRows /\ MedianIn(n) \in Nat /\ b <= MedianIn(n) + UpdateInterval
        /\ l = 0 \/ (n # NoRow /\ l <= n.median)
    <3>1. CASE UpdateDue(j)
      BY <2>2, <2>3, <3>1 DEF MedianIn, l, n
    <3>2. CASE ~ UpdateDue(j)
      <4>1. /\ n \in PriceRows /\ MedianIn(n) = MedianIn(o) /\ MedianIn(o) \in Nat
            /\ o # NoRow => n # NoRow
        BY <2>3, <2>6, <3>2, PairSaved DEF n, o
      <4>2. l = u[p]
        BY <3>2 DEF l
      <4>3. b <= u[p] + UpdateInterval
        BY <2>2, <2>5, <2>6, <3>2
      <4> QED BY <2>2, <2>6, <4>1, <4>2, <4>3 DEF MedianIn
    <3> QED BY <3>1, <3>2
  <2>9. \A q \in Pairs \ {p} : Fresh(q, tables'.oracle[q], queue \ {j}, chain)
    BY <2>1, <2>3, FreshOther
  <2>10. Fresh(p, n, queue \ {j}, chain)
    <3>1. chain.oracle[p].last \in Nat /\ Fresh(p, o, queue, chain)
      BY <2>1, <2>2 DEF PairsOf, o
    <3> QED BY <1>2, <2>1, <2>2, <2>8, <3>1, FreshRun
  <2>11. RowsOf(tables')
    BY <2>1, <2>3, <2>8 DEF RowsOf, n
  <2>12. LastUpdated(memory'.oracle, tables')
    BY <2>1, <2>3, <2>7, <2>8 DEF LastUpdated, n, u
  <2> QED BY <2>4, <2>7, <2>9, <2>10, <2>11, <2>12 DEF n
<1> QED BY <1>1, <1>3, RunMedians

----------------------------------------
(* Medians: contracts *)

(* Only the oracle's handler hears of medians. *)
LEMMA ListenersElsewhere ==
  ASSUME NEW L \in {MarketListeners, ToolsListeners, SimpleListeners, AssetListeners}
  PROVE  NoMedians(L)
<1>1. /\ \A S, q : "datapoints" \notin S => NoMedians(OnEach(S, q))
      /\ \A S, q : NoMedians(Logs(S, q))
      /\ \A a, b, q : b # "datapoints" => On(a, b, q).callback # "datapoints"
  BY DEF NoMedians, OnEach, Logs, On
<1>2. /\ "datapoints" \notin Creates /\ "datapoints" \notin Updates /\ "datapoints" \notin Rows
      /\ "datapoints" \notin LinkUpdates /\ "datapoints" \notin SimpleUpdates /\ "datapoints" \notin AssetUpdates
  BY DEF Creates, Updates, SaleUpdates, AuctionUpdates, BuyofferUpdates, TemplateBuyofferUpdates, Rows,
         LinkUpdates, SimpleUpdates, AssetUpdates
<1>3. NoMedians(MarketListeners)
  BY <1>1, <1>2 DEF NoMedians, MarketListeners, MarketLogs
<1>4. NoMedians(ToolsListeners)
  BY <1>1, <1>2 DEF NoMedians, ToolsListeners, ToolsLogs
<1>5. NoMedians(SimpleListeners)
  BY <1>1, <1>2 DEF NoMedians, SimpleListeners
<1>6. NoMedians(AssetListeners)
  BY <1>1, <1>2 DEF NoMedians, AssetListeners, AssetLogs
<1> QED BY <1>3, <1>4, <1>5, <1>6

(* What is sent leaves the medians as they are, or is a new one. *)
LEMMA SentMedians ==
  ASSUME Inv, MedianInv, Contract, PairsOf(chain) => PairsOf(chain'),
         forks = 0 => MedianOrder(liveQueue', chain'),
         forks = 0 => \A p \in Pairs : Fresh(p, committed.tables.oracle[p], liveQueue', chain')
  PROVE  MedianInv'
<1>1. /\ UNCHANGED <<tables, memory, committed, rolledBack, running, forks>>
      /\ ~ executing /\ executing' = executing
  BY ContractFrame DEF Inv, ShapesInv, ChainShape, Shape
<1>2. Pending' = liveQueue'
  BY <1>1 DEF Pending
<1>3. MedianOrder(Pending, chain)' = MedianOrder(liveQueue', chain')
  BY <1>2
<1> QED BY <1>1, <1>2, <1>3 DEF MedianInv

(* An action of another contract. *)
LEMMA ElsewhereMedians ==
  ASSUME Inv, MedianInv, Contract,
         NEW L \in {MarketListeners, ToolsListeners, SimpleListeners, AssetListeners}, SentOf(L)
  PROVE  MedianInv'
<1>1. PICK c, ts : Send(c, ts, L) /\ IsMap(c, Fields) /\ c.oracle = chain.oracle /\ c.block = chain.block
  BY DEF SentOf
<1>2. chain'.oracle = chain.oracle /\ chain'.block = chain.block
  <2>1. chain' = [c EXCEPT !.logs = @ + Cardinality(Logged(ts, L))]
    BY <1>1 DEF Send
  <2> QED BY <1>1, <2>1 DEF IsMap, Fields
<1>3. NoMedians(L)
  BY ListenersElsewhere
<1>4. liveQueue \subseteq liveQueue' /\ \A j \in liveQueue' : j.callback = "datapoints" => j \in liveQueue
  <2>1. liveQueue' = liveQueue \cup
          UNION {{Job(l, ts[i], traces + i) : l \in {l \in Active(L) : l.action = ts[i].action}} : i \in DOMAIN ts}
    BY <1>1 DEF Send, ProcessTraces
  <2>2. \A l \in L : \A t, i : Job(l, t, i).callback # "datapoints"
    BY <1>3 DEF NoMedians, Job
  <2> QED BY <2>1, <2>2 DEF Active
<1>5. \A p : OracleJobs(liveQueue', p) = OracleJobs(liveQueue, p)
  BY <1>4 DEF OracleJobs
<1>6. ~ executing
  BY <1>1 DEF Send, ProcessTraces
<1>7. ASSUME forks = 0
      PROVE  /\ MedianOrder(liveQueue', chain')
             /\ \A p \in Pairs : Fresh(p, committed.tables.oracle[p], liveQueue', chain')
  <2>1. /\ MedianOrder(liveQueue, chain)
        /\ \A p \in Pairs : Fresh(p, committed.tables.oracle[p], liveQueue, chain)
    BY <1>6, <1>7 DEF MedianInv, Pending
  <2> QED BY <1>2, <1>4, <1>5, <2>1 DEF MedianOrder, Fresh
<1>8. PairsOf(chain) => PairsOf(chain')
  BY <1>2 DEF PairsOf
<1> QED BY <1>7, <1>8, SentMedians

(* The contract's pair p after a change of its row to r. *)
LEMMA PairSent ==
  ASSUME Inv, NEW p \in Pairs, NEW r, NEW a \in {"pairs", "datapoints"}, OracleRow(r, a, p)
  PROVE  /\ chain'.oracle[p] = r /\ \A q \in Pairs \ {p} : chain'.oracle[q] = chain.oracle[q]
         /\ chain'.block = chain.block + 1 /\ ~ executing
         /\ liveQueue' = liveQueue \cup
              IF head THEN {[callback |-> a, priority |-> PriorityOf(a), index |-> traces + 1,
                             trace |-> [action |-> a, name |-> p, block |-> chain.block + 1]]}
              ELSE {}
<1> DEFINE t == [action |-> a, name |-> p, block |-> chain.block + 1]
           e == [chain EXCEPT !.oracle[p] = r]
           nc == [e EXCEPT !.block = @ + 1]
           n == OneIf(LoggedBy(OracleListeners, t.action))
           l == [action |-> a, callback |-> a, priority |-> PriorityOf(a), headOnly |-> TRUE]
<1>1. Send(nc, <<t>>, OracleListeners)
  BY DEF OracleRow, OracleAction
<1>2. /\ chain' = [nc EXCEPT !.logs = @ + n]
      /\ liveQueue' = liveQueue \cup JobsOf(OracleListeners, t, traces + 1) /\ ~ executing
  BY <1>1, SentOne
<1>3. IsMap(chain, Fields) /\ IsMap(chain.oracle, Pairs)
  BY DEF Inv, ShapesInv, ChainShape, Shape
<1>4. chain'.oracle = [chain.oracle EXCEPT ![p] = r] /\ chain'.block = chain.block + 1
  <2> HIDE DEF n
  <2>1. IsMap(e, Fields) /\ e.oracle = [chain.oracle EXCEPT ![p] = r] /\ e.block = chain.block
    BY <1>3 DEF IsMap, Fields
  <2> HIDE DEF e
  <2>2. IsMap(nc, Fields) /\ nc.oracle = e.oracle /\ nc.block = e.block + 1
    BY <2>1 DEF IsMap, Fields
  <2> HIDE DEF nc
  <2> QED BY <1>2, <2>1, <2>2 DEF IsMap, Fields
<1>5. {k \in Active(OracleListeners) : k.action = a} = IF head THEN {l} ELSE {}
  <2>1. TABLE_PAIRS = PriorityOf("pairs") /\ TABLE_DATAPOINTS = PriorityOf("datapoints")
    BY OracleRegular DEF Regular, OracleListeners, OnHead
  <2>2. OracleListeners = {[action |-> "pairs", callback |-> "pairs", priority |-> PriorityOf("pairs"), headOnly |-> TRUE],
                           [action |-> "datapoints", callback |-> "datapoints",
                            priority |-> PriorityOf("datapoints"), headOnly |-> TRUE]}
    BY <2>1 DEF OracleListeners, OnHead
  <2> QED BY <2>2 DEF Active
<1>6. JobsOf(OracleListeners, t, traces + 1) = IF head THEN {Job(l, t, traces + 1)} ELSE {}
  <2>1. JobsOf(OracleListeners, t, traces + 1)
          = {Job(k, t, traces + 1) : k \in {k \in Active(OracleListeners) : k.action = a}}
    BY DEF JobsOf
  <2> HIDE DEF l, t
  <2> QED BY <1>5, <2>1
<1>7. Job(l, t, traces + 1) = [callback |-> a, priority |-> PriorityOf(a), index |-> traces + 1, trace |-> t]
  BY DEF Job
<1> HIDE DEF l, t
<1>8. chain'.oracle[p] = r /\ \A q \in Pairs \ {p} : chain'.oracle[q] = chain.oracle[q]
  BY <1>3, <1>4 DEF IsMap
<1> QED BY <1>2, <1>4, <1>6, <1>7, <1>8 DEF t

(* A new median is the last job of its pair near the head, and ignored     *)
(* before.                                                                 *)
LEMMA OracleMedians ==
  ASSUME Inv, MedianInv, Contract, NEW p \in Pairs, Pair(p) \/ Median(p)
  PROVE  MedianInv'
<1> DEFINE o == chain.oracle[p]
           b == chain.block + 1
<1> DEFINE R(r, a) == r = IF a = "pairs" THEN [o EXCEPT !.listed = TRUE]
                          ELSE [o EXCEPT !.last = IF head THEN b ELSE @]
<1>a. \E a \in {"pairs", "datapoints"} : \E r : OracleRow(r, a, p) /\ R(r, a)
  <2>1. CASE Pair(p)
    <3> DEFINE r == [o EXCEPT !.listed = TRUE]
    <3>1. [chain EXCEPT !.oracle[p].listed = TRUE] = [chain EXCEPT !.oracle[p] = r]
      OBVIOUS
    <3>2. OracleRow(r, "pairs", p)
      BY <2>1, <3>1 DEF Pair, OracleRow
    <3>3. R(r, "pairs") OBVIOUS
    <3> HIDE DEF r, R
    <3>4. \E x : OracleRow(x, "pairs", p) /\ R(x, "pairs")
      BY <3>2, <3>3
    <3> QED BY <3>4
  <2>2. CASE Median(p)
    <3> DEFINE r == [o EXCEPT !.last = IF head THEN b ELSE @]
    <3>1. [chain EXCEPT !.oracle[p].last = IF head THEN chain.block + 1 ELSE @] = [chain EXCEPT !.oracle[p] = r]
      OBVIOUS
    <3>2. OracleRow(r, "datapoints", p)
      BY <2>2, <3>1 DEF Median, OracleRow
    <3>3. R(r, "datapoints") OBVIOUS
    <3> HIDE DEF r, R
    <3>4. \E x : OracleRow(x, "datapoints", p) /\ R(x, "datapoints")
      BY <3>2, <3>3
    <3> QED BY <3>4
  <2> QED BY <2>1, <2>2
<1>b. PICK a \in {"pairs", "datapoints"} : \E r : OracleRow(r, a, p) /\ R(r, a)
  BY <1>a
<1>1. PICK r : OracleRow(r, a, p) /\ R(r, a)
  BY <1>b
<1> DEFINE t == [action |-> a, name |-> p, block |-> b]
           j == [callback |-> a, priority |-> PriorityOf(a), index |-> traces + 1, trace |-> t]
<1>2. /\ chain'.oracle[p] = r /\ \A q \in Pairs \ {p} : chain'.oracle[q] = chain.oracle[q]
      /\ chain'.block = b /\ ~ executing
      /\ liveQueue' = liveQueue \cup IF head THEN {j} ELSE {}
  BY <1>1, PairSent
<1>3. j.callback = a /\ j.index = traces + 1 /\ j.trace.name = p /\ j.trace.block = b
  OBVIOUS
<1> HIDE DEF t, j
<1>4. ASSUME PairsOf(chain)
      PROVE  /\ PairsOf(chain') /\ r.last \in Nat /\ b \in Nat /\ o.last < b
             /\ r.last = IF a = "datapoints" /\ head THEN b ELSE o.last
  <2>1. /\ chain.block \in Nat /\ o.last \in Nat /\ o.last <= chain.block
        /\ o = [listed |-> o.listed, last |-> o.last]
    BY <1>4 DEF PairsOf
  <2> HIDE DEF o
  <2>2. r = [listed |-> r.listed, last |-> r.last] /\ r.last = IF a = "datapoints" /\ head THEN b ELSE o.last
    <3>1. CASE a = "pairs"
      BY <1>1, <2>1, <3>1
    <3>2. CASE a = "datapoints"
      BY <1>1, <2>1, <3>2
    <3> QED BY <3>1, <3>2
  <2> QED BY <1>2, <1>4, <2>1, <2>2 DEF PairsOf
<1>5. ASSUME forks = 0
      PROVE  /\ MedianOrder(liveQueue', chain')
             /\ \A q \in Pairs : Fresh(q, committed.tables.oracle[q], liveQueue', chain')
  <2>1. /\ MedianOrder(liveQueue, chain) /\ PairsOf(chain)
        /\ \A q \in Pairs : Fresh(q, committed.tables.oracle[q], liveQueue, chain)
    BY <1>2, <1>5 DEF MedianInv, Pending
  <2>2. JobsOK(liveQueue, traces)
    BY DEF Inv, ReaderInv
  <2>3. \A i \in liveQueue : i.index < j.index /\ ~ (j.index < i.index)
    BY <1>3, <2>2 DEF JobsOK
  <2>4. /\ b \in Nat /\ r.last \in Nat /\ chain.block \in Nat /\ o.last < b
        /\ r.last = IF a = "datapoints" /\ head THEN b ELSE o.last
        /\ \A q \in Pairs : chain.oracle[q].last <= chain.block /\ chain.oracle[q].last \in Nat
                            /\ chain.oracle[q].last <= chain'.oracle[q].last
    <3>1. /\ b \in Nat /\ r.last \in Nat /\ o.last < b
          /\ r.last = IF a = "datapoints" /\ head THEN b ELSE o.last
      BY <1>4, <2>1
    <3>2. chain.block \in Nat
          /\ \A q \in Pairs : chain.oracle[q].last <= chain.block /\ chain.oracle[q].last \in Nat
      BY <2>1 DEF PairsOf
    <3>3. o.last \in Nat
      BY <3>2
    <3>4. ASSUME NEW q \in Pairs PROVE chain.oracle[q].last <= chain'.oracle[q].last
      <4>1. CASE q = p
        <5>1. chain'.oracle[q].last = r.last /\ chain.oracle[q].last = o.last
          BY <1>2, <4>1
        <5> HIDE DEF o, b
        <5>2. o.last <= r.last
          BY <3>1, <3>3
        <5> QED BY <5>1, <5>2
      <4>2. CASE q # p
        <5>1. chain'.oracle[q] = chain.oracle[q]
          BY <1>2, <4>2
        <5> QED BY <3>2, <5>1
      <4> QED BY <4>1, <4>2
    <3> HIDE DEF o, b
    <3> QED BY <3>1, <3>2, <3>4
  <2>5. \A i \in liveQueue : i.callback = "datapoints" =>
          /\ i.trace.name \in Pairs /\ i.trace.block \in Nat /\ i.trace.block < b
          /\ i.trace.block <= chain'.oracle[i.trace.name].last
    <3>1. ASSUME NEW i \in liveQueue, i.callback = "datapoints"
          PROVE  /\ i.trace.name \in Pairs /\ i.trace.block \in Nat /\ i.trace.block < b
                 /\ i.trace.block <= chain'.oracle[i.trace.name].last
      <4>1. i.trace.name \in Pairs /\ i.trace.block \in Nat /\ i.trace.block <= chain.oracle[i.trace.name].last
        BY <2>1, <3>1 DEF MedianOrder
      <4>2. chain'.oracle[i.trace.name].last \in Nat
        BY <1>2, <2>4, <4>1
      <4> QED BY <2>4, <4>1, <4>2
    <3> QED BY <3>1
  <2>6. MedianOrder(liveQueue', chain')
    <3>1. ASSUME NEW i \in liveQueue', i.callback = "datapoints"
          PROVE  i.trace.name \in Pairs /\ i.trace.block \in Nat /\ i.trace.block <= chain'.oracle[i.trace.name].last
      <4>1. CASE i \in liveQueue
        BY <2>5, <3>1, <4>1
      <4>2. CASE i \notin liveQueue
        <5>1. i = j /\ head
          BY <1>2, <4>2
        <5>2. a = "datapoints"
          BY <1>3, <3>1, <5>1
        <5> QED BY <1>2, <1>3, <2>4, <5>1, <5>2
      <4> QED BY <4>1, <4>2
    <3>2. ASSUME NEW i \in liveQueue', NEW k \in liveQueue', i.callback = "datapoints", k.callback = "datapoints",
                 i.index < k.index
          PROVE  i.trace.block < k.trace.block
      <4>1. i = j \/ i \in liveQueue
        BY <1>2
      <4>2. k = j \/ k \in liveQueue
        BY <1>2
      <4>3. CASE i \in liveQueue /\ k \in liveQueue
        BY <2>1, <3>2, <4>3 DEF MedianOrder
      <4>4. CASE i \in liveQueue /\ k = j
        BY <1>3, <2>5, <3>2, <4>4
      <4>5. CASE i = j
        <5>1. ~ (j.index < j.index)
          BY <1>3, <2>2 DEF JobsOK
        <5> QED BY <2>3, <3>2, <4>2, <4>5, <5>1
      <4> QED BY <4>1, <4>2, <4>3, <4>4, <4>5
    <3> QED BY <3>1, <3>2 DEF MedianOrder
  <2>7. ASSUME NEW q \in Pairs PROVE Fresh(q, committed.tables.oracle[q], liveQueue', chain')
    <3>1. CASE q = p /\ a = "datapoints" /\ head
      <4>1. j \in OracleJobs(liveQueue', p)
        BY <1>2, <1>3, <3>1 DEF OracleJobs
      <4>2. j.trace.block = chain'.oracle[p].last
        BY <1>2, <1>3, <2>4, <3>1
      <4> QED BY <3>1, <4>1, <4>2 DEF Fresh
    <3>2. CASE ~ (q = p /\ a = "datapoints" /\ head)
      <4>1. OracleJobs(liveQueue', q) = OracleJobs(liveQueue, q)
        BY <1>2, <1>3, <3>2 DEF OracleJobs
      <4>2. chain'.oracle[q].last = chain.oracle[q].last
        BY <1>2, <2>4, <3>2
      <4> QED BY <2>1, <4>1, <4>2 DEF Fresh
    <3> QED BY <3>1, <3>2
  <2> QED BY <2>6, <2>7
<1> QED BY <1>4, <1>5, SentMedians

----------------------------------------
(* Medians: the steps of the reader *)

(* executeHeadQueue starts. *)
LEMMA StartMedians ==
  ASSUME Inv, MedianInv, Start
  PROVE  MedianInv'
<1>1. /\ running /\ ~ executing /\ executing' = TRUE /\ queue' = liveQueue
      /\ started' = [jobs |-> liveQueue, traces |-> traces]
      /\ UNCHANGED <<chain, tables, memory, committed, rolledBack, running, forks>>
  BY DEF Start, ExecuteHeadQueue, boundVars, historyVars
<1>2. Pending = liveQueue /\ Pending' = liveQueue
  BY <1>1 DEF Pending
<1> SUFFICES ASSUME forks = 0
             PROVE  MedianInv'
  BY <1>1 DEF MedianInv
<1>3. tables = committed.tables
  BY <1>1 DEF Inv, ReaderInv, Origin, MedianInv
<1>4. MedianOrder(queue, chain)' = MedianOrder(liveQueue, chain)
      /\ MedianOrder(Pending, chain)' = MedianOrder(liveQueue, chain)
  BY <1>1, <1>2
<1> QED BY <1>1, <1>2, <1>3, <1>4 DEF MedianInv

(* Collected assets are no pairs. *)
LEMMA PriorityMedians ==
  ASSUME Inv, MedianInv, PriorityComplete
  PROVE  MedianInv'
<1>1. /\ executing /\ executing' = TRUE /\ queue' = queue
      /\ UNCHANGED <<chain, committed, rolledBack, started, running, forks>>
  BY DEF PriorityComplete, CompletePriority, PriorityDone, JobFrame, historyVars, readerVars, boundVars
<1>2. Pending' = Pending
  BY <1>1 DEF Pending
<1>3. tables'.oracle = tables.oracle /\ memory'.oracle = memory.oracle
  <2>1. CASE lastPriority = AA_ACTION_MINT_ASSET
    <3>1. tables' = Collected /\ memory' = [memory EXCEPT !.mints = {}, !.simpleInserts = {}]
      BY <2>1 DEF PriorityComplete, Collected
    <3>2. memory'.oracle = memory.oracle
      BY <3>1 DEF Inv, ShapesInv, IsMap
    <3>3. Collected.oracle = tables.oracle
      <4>1. Collected = Now
        BY CollectedNow DEF Inv, ShapesInv, Shape, Collected, Now
      <4>2. \A g \in Fields : g # "simple" /\ g # "minted" => Now[g] = tables[g]
        BY IntoFields DEF Now
      <4> QED BY <4>1, <4>2 DEF Fields
    <3> QED BY <3>1, <3>2, <3>3
  <2>2. CASE lastPriority # AA_ACTION_MINT_ASSET
    BY <2>2 DEF PriorityComplete
  <2> QED BY <2>1, <2>2
<1>4. LastUpdated(memory.oracle, tables)' = LastUpdated(memory.oracle, tables) /\ RowsOf(tables)' = RowsOf(tables)
  BY <1>3 DEF LastUpdated, RowsOf
<1>5. MedianOrder(queue, chain)' = MedianOrder(queue, chain)
      /\ MedianOrder(Pending, chain)' = MedianOrder(Pending, chain)
  BY <1>1, <1>2
<1> QED BY <1>1, <1>2, <1>3, <1>4, <1>5 DEF MedianInv

(* A transaction ends with nothing left to do. *)
LEMMA CommitMedians ==
  ASSUME Inv, MedianInv, Commit \/ CommitEmpty
  PROVE  MedianInv'
<1>1. /\ running /\ Pending' = {} /\ executing' = FALSE /\ rolledBack' = FALSE
      /\ committed' = [chain |-> chain, tables |-> tables]
      /\ UNCHANGED <<chain, tables, memory, running, forks>>
      /\ executing => queue = {}
      /\ ~ executing => liveQueue = {}
  <2>1. /\ committed' = [chain |-> chain, tables |-> tables] /\ rolledBack' = FALSE
        /\ UNCHANGED <<chain, tables, memory, running, forks>>
    BY DEF Commit, CommitEmpty, Committed, boundVars
  <2>2. CASE Commit
    BY <2>1, <2>2 DEF Commit, FinishQueue, Inv, ReaderInv, Pending
  <2>3. CASE CommitEmpty
    BY <2>1, <2>3 DEF CommitEmpty, processorVars, Pending
  <2> QED BY <2>1, <2>2, <2>3
<1> SUFFICES ASSUME forks = 0
             PROVE  MedianInv'
  BY <1>1 DEF MedianInv
<1>2. committed'.tables = tables
  BY <1>1
<1>3. \A p \in Pairs : Fresh(p, tables.oracle[p], {}, chain)
  <2>1. CASE executing
    BY <1>1, <2>1 DEF MedianInv
  <2>2. CASE ~ executing
    <3>1. Pending = {} /\ tables = committed.tables
      BY <1>1, <2>2 DEF Pending, Inv, ReaderInv, Origin, MedianInv
    <3> QED BY <3>1 DEF MedianInv
  <2> QED BY <2>1, <2>2
<1>4. MedianOrder(Pending', chain')
  BY <1>1 DEF MedianOrder
<1> QED BY <1>1, <1>2, <1>3, <1>4 DEF MedianInv

(* The transaction is given up, its jobs come again. *)
LEMMA StoppedMedians ==
  ASSUME Inv, MedianInv, Stopped, executing' = FALSE, liveQueue' = Pending
  PROVE  MedianInv'
<1>1. /\ running' = FALSE /\ tables' = Origin
      /\ UNCHANGED <<chain, memory, committed, rolledBack, forks>>
  BY DEF Stopped, historyVars, Origin
<1>2. Pending' = Pending
  BY DEF Pending
<1> SUFFICES ASSUME forks = 0
             PROVE  MedianInv'
  BY <1>1 DEF MedianInv
<1>3. tables' = committed.tables
  BY <1>1 DEF MedianInv, Origin
<1>4. MedianOrder(Pending, chain)' = MedianOrder(Pending, chain)
  BY <1>1, <1>2
<1> QED BY <1>1, <1>2, <1>3, <1>4 DEF MedianInv

(* A crash, or a job that throws. *)
LEMMA StopMedians ==
  ASSUME Inv, MedianInv, Crash \/ \E j \in queue : Throw(j)
  PROVE  MedianInv'
<1>1. ASSUME Crash PROVE MedianInv'
  <2>1. Stopped /\ executing' = FALSE /\ liveQueue' = Pending
    BY <1>1 DEF Crash, processorVars, Pending, Inv, ReaderInv
  <2> QED BY <2>1, StoppedMedians
<1>2. ASSUME NEW j \in queue, Throw(j) PROVE MedianInv'
  <2>1. Stopped /\ executing' = FALSE /\ liveQueue' = Pending
    BY <1>2 DEF Throw, Pending
  <2> QED BY <2>1, StoppedMedians
<1> QED BY <1>1, <1>2

(* A new process has forgotten what it wrote; its rows have the same       *)
(* medians.                                                                *)
LEMMA NewProcessMedians ==
  ASSUME Inv, MedianInv, NewProcess, UpdateInterval \in Nat
  PROVE  MedianInv'
<1> DEFINE F == [t \in {tables, committed.tables, previous.tables} |-> InitPairs(t)]
           C == InitPairs(committed.tables)
           T == InitPairs(tables)
<1>1. /\ ~ running /\ memory' = Loaded(committed.tables)
      /\ tables' = F[tables] /\ committed' = [committed EXCEPT !.tables = F[@]]
      /\ UNCHANGED <<liveQueue, executing, chain, rolledBack, started, forks>>
  BY DEF NewProcess, Restart, processorVars, boundVars
<1>2. F[tables] = T /\ F[committed.tables] = C
  OBVIOUS
<1> HIDE DEF F, C, T
<1>3. tables' = T /\ committed'.tables = C
  <2>1. committed' = [chain |-> committed.chain, tables |-> C]
    BY <1>1, <1>2 DEF Inv, ShapesInv
  <2> QED BY <1>1, <1>2, <2>1
<1>4. ~ executing /\ executing' = executing
  BY <1>1 DEF Inv, ReaderInv
<1> SUFFICES ASSUME forks = 0
             PROVE  MedianInv'
  BY <1>1 DEF MedianInv
<1>5. tables = committed.tables /\ T = C
  BY <1>4 DEF Inv, ReaderInv, Origin, MedianInv, C, T
<1>6. \A p \in Pairs : /\ C.oracle[p] \in PriceRows
                       /\ MedianIn(C.oracle[p]) = MedianIn(committed.tables.oracle[p])
  <2>1. C.oracle = [p \in Pairs |-> IF chain.oracle[p].listed /\ committed.tables.oracle[p] = NoRow
                                    THEN NewPair ELSE committed.tables.oracle[p]]
    BY InitPairsIs DEF Inv, ShapesInv, C
  <2>2. NewPair \in PriceRows /\ MedianIn(NewPair) = 0 /\ MedianIn(NoRow) = 0
    <3>1. NewPair \in PriceRows /\ NewPair.median = 0
      BY DEF NewPair, PriceRows
    <3> QED BY <3>1 DEF MedianIn
  <2>3. \A p \in Pairs : committed.tables.oracle[p] \in PriceRows
    BY DEF MedianInv, RowsOf
  <2> QED BY <2>1, <2>2, <2>3
<1>7. Pending' = Pending
  BY <1>1 DEF Pending
<1>8. MedianOrder(Pending, chain)' = MedianOrder(Pending, chain) /\ PairsOf(chain)' = PairsOf(chain)
  BY <1>1, <1>7
<1>9. memory'.oracle = LoadedOracle
  BY <1>1 DEF Loaded
<1>10. IsMap(memory'.oracle, {"pairs", "lastUpdated"}) /\ memory'.oracle.lastUpdated \in [Pairs -> Nat]
       /\ LastUpdated(memory'.oracle, tables')
  BY <1>9 DEF LoadedOracle, IsMap, LastUpdated
<1>11. \A p \in Pairs : Fresh(p, committed'.tables.oracle[p], Pending', chain')
  <2>1. \A p \in Pairs : Fresh(p, committed.tables.oracle[p], Pending, chain)
    BY DEF MedianInv
  <2> QED BY <1>1, <1>3, <1>6, <1>7, <2>1 DEF Fresh
<1>12. RowsOf(tables') /\ RowsOf(committed'.tables)
  BY <1>3, <1>5, <1>6 DEF RowsOf
<1> QED BY <1>1, <1>4, <1>8, <1>10, <1>11, <1>12 DEF MedianInv

(* The head of the chain is reached, or nothing happens. *)
LEMMA OtherStepMedians ==
  ASSUME Inv, MedianInv, ReachHead \/ UNCHANGED vars
  PROVE  MedianInv'
<1>1. UNCHANGED <<chain, tables, memory, committed, rolledBack, running, forks, executing, liveQueue, queue, started>>
  BY DEF ReachHead, vars, contractVars, processorVars, historyVars, readerVars, boundVars
<1>2. Pending' = Pending
  BY <1>1 DEF Pending
<1> QED BY <1>1, <1>2 DEF MedianInv

(* No pair has a median in the beginning. *)
LEMMA InitMedians ==
  ASSUME HandlersAssumption, Init
  PROVE  MedianInv
<1>1. /\ chain = ChainAtStart /\ memory = Loaded(tables) /\ liveQueue = {} /\ executing = FALSE
      /\ committed = [chain |-> chain, tables |-> tables] /\ rolledBack = FALSE
  BY DEF Init, InitReader
<1>2. tables.oracle = Unset(Pairs)
  BY StartTables DEF Init
<1>3. chain.block = UpdateInterval /\ chain.oracle = [p \in Pairs |-> [listed |-> FALSE, last |-> 0]]
  BY <1>1 DEF ChainAtStart
<1>4. UpdateInterval \in Nat
  BY DEF HandlersAssumption
<1>5. PairsOf(chain)
  BY <1>3, <1>4 DEF PairsOf
<1>6. committed.tables = tables /\ Pending = {}
  BY <1>1 DEF Pending
<1>7. \A p \in Pairs : tables.oracle[p] = NoRow
  BY <1>2 DEF Unset
<1>8. RowsOf(tables)
  BY <1>7 DEF RowsOf, PriceRows
<1>9. memory.oracle = LoadedOracle
  BY <1>1 DEF Loaded
<1>10. IsMap(memory.oracle, {"pairs", "lastUpdated"}) /\ memory.oracle.lastUpdated \in [Pairs -> Nat]
       /\ LastUpdated(memory.oracle, tables)
  BY <1>9 DEF LoadedOracle, IsMap, LastUpdated
<1>11. MedianOrder({}, chain)
  BY DEF MedianOrder
<1>12. ASSUME NEW p \in Pairs PROVE Fresh(p, tables.oracle[p], {}, chain)
  <2>1. chain.oracle[p].last = 0 /\ MedianIn(tables.oracle[p]) = 0
    BY <1>3, <1>7 DEF MedianIn
  <2>2. OracleJobs({}, p) = {}
    BY DEF OracleJobs
  <2> QED BY <1>4, <2>1, <2>2 DEF Fresh
<1> QED BY <1>1, <1>5, <1>6, <1>8, <1>10, <1>11, <1>12 DEF MedianInv

----------------------------------------
(* Medians stay fresh *)

(* Every step keeps the invariant. *)
LEMMA NextMedians ==
  ASSUME HandlersAssumption, Inv, MedianInv, [Next]_vars
  PROVE  MedianInv'
<1>1. IsMap(chain, Fields)
  BY DEF Inv, ShapesInv, ChainShape, Shape
<1>2. ASSUME Contract PROVE MedianInv'
  BY <1>1, <1>2, ContractSends, ElsewhereMedians, OracleMedians
<1>3. ASSUME Handler PROVE MedianInv'
  <2>1. ASSUME NEW j \in queue,
               MarketJob(j) \/ OracleJob(j) \/ ToolsJob(j) \/ SimpleJob(j) \/ AssetsJob(j) \/ LogTrace(j)
        PROVE  MedianInv'
    BY <2>1, OtherMedians, SavePairMedians, DatapointMedians DEF OracleJob
  <2>2. ASSUME NEW j \in queue, Throw(j) PROVE MedianInv'
    BY <2>2, StopMedians
  <2>3. \/ Start \/ PriorityComplete \/ Commit \/ CommitEmpty
        \/ \E j \in queue : \/ MarketJob(j) \/ OracleJob(j) \/ ToolsJob(j) \/ SimpleJob(j)
                            \/ AssetsJob(j) \/ LogTrace(j) \/ Throw(j)
    BY <1>3 DEF Handler
  <2> QED BY <2>1, <2>2, <2>3, StartMedians, PriorityMedians, CommitMedians
<1>4. ASSUME ForkSwitch PROVE MedianInv'
  <2>1. forks \in Nat /\ forks' = forks + 1
    BY <1>4 DEF ForkSwitch, Fork, Inv, ReaderInv
  <2>2. forks' # 0
    BY <2>1
  <2> QED BY <2>2 DEF MedianInv
<1>5. ASSUME NewProcess PROVE MedianInv'
  BY <1>5, NewProcessMedians DEF HandlersAssumption
<1>6. ASSUME Crash PROVE MedianInv'
  BY <1>6, StopMedians
<1>7. ASSUME ReachHead \/ UNCHANGED vars PROVE MedianInv'
  BY <1>7, OtherStepMedians
<1> QED BY <1>2, <1>3, <1>4, <1>5, <1>6, <1>7 DEF Next

(* Without forks the last median of every pair is a job that is still to   *)
(* be executed, or its row is new enough, and the handler remembers no     *)
(* newer median than the row has.                                          *)
THEOREM MedianInvariance == Spec => []MedianInv
<1>1. Init => MedianInv
  BY InitMedians, HandlersAssumption
<1>2. Inv /\ MedianInv /\ [Next]_vars => MedianInv'
  BY NextMedians, HandlersAssumption
<1> QED BY <1>1, <1>2, Invariance, PTL DEF Spec

(* With no jobs left the rows of the pairs are new enough. *)
LEMMA MediansFresh ==
  ASSUME Inv, MedianInv
  PROVE  MediansAreFresh
<1> SUFFICES ASSUME UpToDate, running, forks = 0, NEW p \in Pairs, tables.oracle[p] # NoRow
             PROVE  chain.oracle[p].last <= tables.oracle[p].median + UpdateInterval
  BY DEF MediansAreFresh
<1>1. Pending = {} /\ tables = committed.tables
  BY DEF UpToDate, Pending, Inv, ReaderInv, Origin, MedianInv
<1>2. Fresh(p, tables.oracle[p], {}, chain)
  BY <1>1 DEF MedianInv
<1> QED BY <1>2 DEF Fresh, OracleJobs, MedianIn

(* Without forks a pair that has a row has a median no more than           *)
(* UpdateInterval blocks older than the last one of the oracle, however    *)
(* often its row was inserted by init or fillPair, or the process          *)
(* restarted.                                                              *)
THEOREM MediansAreFreshHolds == Spec => []MediansAreFresh
BY Invariance, MedianInvariance, MediansFresh, PTL

=============================================================================
