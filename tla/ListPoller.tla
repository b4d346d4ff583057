----------------------------- MODULE ListPoller -----------------------------
(***************************************************************************)
(* Lists that a web service publishes are copied to the tables lists and   *)
(* list_items at an interval (src/filler/list-poller.ts).  Nothing stops a *)
(* poll from running while the next ones begin and end.                    *)
(***************************************************************************)
EXTENDS Integers, Sequences, FiniteSets, SequencesExt

CONSTANTS
  Lists, Items,
  Polls,        \* bound: polls that run at the same time
  MaxPublished, \* bound: changes of the service
  MaxFailed     \* bound: polls that fail after the answer came

VARIABLES
  source,     \* what the service publishes; Absent if it has no such list
  published,
  listRows,   \* rows of lists
  listItems,  \* rows of list_items
  known,      \* list ids remembered by moize
  polls,      \* a poll under way, or Idle
  failed

listVars == <<source, published, listRows, listItems, known, polls, failed>>

Absent == {"absent"}
Idle == [stage |-> "idle"]

(* The service gets a new list, changes one or withdraws it. *)
Publish ==
  /\ published < MaxPublished
  /\ published' = published + 1
  /\ \E l \in Lists, items \in SUBSET Items \cup {Absent} :
       items # source[l] /\ source' = [source EXCEPT ![l] = items]
  /\ UNCHANGED <<listRows, listItems, known, polls, failed>>

(* The timer fires and the service answers; if it does not, nothing more   *)
(* happens until the next time. *)
Poll(p) ==
  LET Answer(l) == [name |-> l, items |-> source[l]]
      lists == SetToSeq({l \in Lists : source[l] # Absent})
  IN  /\ polls[p] = Idle /\ lists # <<>>
      /\ polls' = [polls EXCEPT ![p] =
           [stage |-> "id", lists |-> [i \in DOMAIN lists |-> Answer(lists[i])], rows |-> {}]]
      /\ UNCHANGED <<source, published, listRows, listItems, known, failed>>

(* getListId: the row is found or inserted. *)
GetListId(p) ==
  LET name == Head(polls[p].lists).name
  IN  /\ polls[p].stage = "id"
      /\ listRows' = listRows \cup {name} /\ known' = known \cup {name}
      /\ polls' = [polls EXCEPT ![p].stage = "sync"]
      /\ UNCHANGED <<source, published, listItems, failed>>

(* Another reader inserted the row after this one looked for it.  moize    *)
(* forgets an id it could not get, and the rest of the answer is not used. *)
ListInserted(p) ==
  LET name == Head(polls[p].lists).name
  IN  /\ polls[p].stage = "id" /\ name \notin listRows
      /\ listRows' = listRows \cup {name}
      /\ polls' = [polls EXCEPT ![p] = Idle]
      /\ UNCHANGED <<source, published, listItems, known, failed>>

(* The statement sees the rows there are when it begins. *)
SyncList(p) ==
  /\ polls[p].stage = "sync"
  /\ polls' = [polls EXCEPT ![p].stage = "write", ![p].rows = listItems[Head(polls[p].lists).name]]
  /\ UNCHANGED <<source, published, listRows, listItems, known, failed>>

(* Mutant of Synced: rows are only added. *)
SyncedAddOnly(rows, seen, items) == rows \cup (items \ seen)

(* insert_new and delete_old *)
Synced(rows, seen, items) == (rows \cup (items \ seen)) \ (seen \ items)

SyncListEnds(p) ==
  LET list == Head(polls[p].lists)
      rest == Tail(polls[p].lists)
  IN  /\ polls[p].stage = "write"
      /\ listItems' = [listItems EXCEPT ![list.name] = Synced(@, polls[p].rows, list.items)]
      /\ polls' = [polls EXCEPT ![p] =
           IF rest = <<>> THEN Idle ELSE [stage |-> "id", lists |-> rest, rows |-> {}]]
      /\ UNCHANGED <<source, published, listRows, known, failed>>

(* A query fails: the lists after this one keep their rows. *)
PollFails(p) ==
  /\ polls[p] # Idle /\ failed < MaxFailed
  /\ failed' = failed + 1
  /\ polls' = [polls EXCEPT ![p] = Idle]
  /\ UNCHANGED <<source, published, listRows, listItems, known>>

PollStep(p) ==
  Poll(p) \/ GetListId(p) \/ ListInserted(p) \/ SyncList(p) \/ SyncListEnds(p)

(* A statement under way ends or is given up with the process. *)
RestartPolls ==
  /\ known' = {}
  /\ polls' = [p \in Polls |-> Idle]
  /\ UNCHANGED <<source, published, listRows, listItems, failed>>

InitLists ==
  /\ source = [l \in Lists |-> Absent] /\ published = 0 /\ failed = 0
  /\ listRows = {} /\ listItems = [l \in Lists |-> {}]
  /\ known = {} /\ polls = [p \in Polls |-> Idle]

(* Once the service publishes nothing new the rows become and remain what  *)
(* it publishes, whatever older answers are still being written.           *)
ListsConverge ==
  <>[](\A l \in Lists : source[l] # Absent => listItems[l] = source[l])
=============================================================================
