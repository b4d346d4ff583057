---------------------------- MODULE DelphiOracle ----------------------------
(***************************************************************************)
(* The handler of the delphioracle contract: the pairs and the time of     *)
(* their last median (src/filler/handlers/delphioracle).  It only follows  *)
(* the contract near the head of the chain, remembers what it wrote, and   *)
(* asks a node of the chain for pairs it missed.                           *)
(***************************************************************************)
EXTENDS Contracts

CONSTANT
  UpdateInterval  \* 30 in the code: blocks between updates of a pair

DELPHIORACLE_BASE_PRIORITY == 0
TABLE_PAIRS      == DELPHIORACLE_BASE_PRIORITY + 10
TABLE_DATAPOINTS == DELPHIORACLE_BASE_PRIORITY + 20

OracleListeners ==
  {OnHead("pairs", "pairs", TABLE_PAIRS), OnHead("datapoints", "datapoints", TABLE_DATAPOINTS)}

(* delphioracle_pairs; a median is the number of the block it came from. *)

(* getDatabaseRow *)
NewPair == [state |-> "row", median |-> 0, updated_at_block |-> 0]

-----------------------------------------------------------------------------
(* The contract *)

OracleAction(newChain, action, p) ==
  Send([newChain EXCEPT !.block = @ + 1],
       <<[action |-> action, name |-> p, block |-> chain.block + 1]>>, OracleListeners)

(* A pair is listed, or its row changes. *)
Pair(p) == OracleAction([chain EXCEPT !.oracle[p].listed = TRUE], "pairs", p)

(* It gets a new median. *)
Median(p) ==
  /\ chain.oracle[p].listed
  /\ OracleAction([chain EXCEPT !.oracle[p].last = IF head THEN chain.block + 1 ELSE @],
                  "datapoints", p)

-----------------------------------------------------------------------------
(* The handler *)

(* savePair: a pair is written once by each process; a row that exists     *)
(* keeps its median.                                                       *)
SavePair(p) ==
  IF p \in memory.oracle.pairs THEN tables
  ELSE [tables EXCEPT !.oracle[p] =
          IF @ = NoRow THEN NewPair ELSE [NewPair EXCEPT !.median = tables.oracle[p].median]]

(* The query is not part of the transaction: it sees what is committed. *)
PairMissing(p) == memory.oracle.lastUpdated[p] = 0 /\ committed.tables.oracle[p] = NoRow

(* fillPair, before the median is written. *)
FillPair(p) == IF PairMissing(p) THEN SavePair(p) ELSE tables

UpdateDue(j) == memory.oracle.lastUpdated[j.trace.name] + UpdateInterval < j.trace.block

OracleThrows(j) ==
  /\ j.callback = "datapoints"
  /\ UpdateDue(j) /\ FillPair(j.trace.name).oracle[j.trace.name] = NoRow

SavePairRow(j) ==
  LET p == j.trace.name
  IN  /\ Runs(j, "pairs")
      /\ tables' = SavePair(p)
      /\ memory' = [memory EXCEPT !.oracle.pairs = @ \cup {p}]
      /\ JobFrame

(* Mutant of Datapoint: every median is remembered as written. *)
DatapointNoted(j) ==
  LET p == j.trace.name
  IN  /\ Runs(j, "datapoints") /\ ~ OracleThrows(j)
      /\ tables' = IF UpdateDue(j)
                   THEN [FillPair(p) EXCEPT !.oracle[p].median = j.trace.block]
                   ELSE FillPair(p)
      /\ memory' = [memory EXCEPT !.oracle.lastUpdated[p] = j.trace.block]
      /\ JobFrame

Datapoint(j) ==
  LET p == j.trace.name
  IN  /\ Runs(j, "datapoints") /\ ~ OracleThrows(j)
      /\ tables' = IF UpdateDue(j)
                   THEN [FillPair(p) EXCEPT !.oracle[p].median = j.trace.block,
                                             !.oracle[p].updated_at_block = j.trace.block]
                   ELSE FillPair(p)
      /\ memory' = [memory EXCEPT
           !.oracle.pairs = IF PairMissing(p) THEN @ \cup {p} ELSE @,
           !.oracle.lastUpdated[p] = IF UpdateDue(j) THEN j.trace.block ELSE @]
      /\ JobFrame

OracleJob(j) == SavePairRow(j) \/ Datapoint(j)

(* A new process remembers nothing, and init inserts the pairs of the      *)
(* contract that have no row.                                              *)
LoadedOracle == [pairs |-> {}, lastUpdated |-> [p \in Pairs |-> 0]]

InitPairs(t) ==
  [t EXCEPT !.oracle = [p \in Pairs |->
     IF chain.oracle[p].listed /\ committed.tables.oracle[p] = NoRow THEN NewPair ELSE @[p]]]
=============================================================================
