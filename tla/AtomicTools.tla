---------------------------- MODULE AtomicTools ----------------------------
(***************************************************************************)
(* The handlers of the atomictools contract: links to assets, the version  *)
(* of the contract and logs (src/filler/handlers/atomictools).             *)
(***************************************************************************)
EXTENDS Contracts

ATOMICTOOLS_BASE_PRIORITY == 1000
TABLE_TOOLS_CONFIG   == ATOMICTOOLS_BASE_PRIORITY + 10
ACTION_CREATE_LINK   == ATOMICTOOLS_BASE_PRIORITY + 20
ACTION_UPDATE_LINK   == ATOMICTOOLS_BASE_PRIORITY + 30
TOOLS_LOGS           == ATOMICTOOLS_BASE_PRIORITY

(* A link has a state and a claimer, "null" until it is claimed. *)
LinkUpdates == {"loglinkstart", "cancellink", "claimlink"}

(* logs.ts *)
ToolsLogs == Logs(LinkUpdates \cup {"lognewlink"}, TOOLS_LOGS)

ToolsListeners ==
  {On("lognewlink", "lognewlink", ACTION_CREATE_LINK),
   On("toolsconfig", "toolsconfig", TABLE_TOOLS_CONFIG)}
    \cup OnEach(LinkUpdates, ACTION_UPDATE_LINK)
    \cup ToolsLogs

-----------------------------------------------------------------------------
(* The contract *)

LinkAction(i, action, data, row) ==
  Send([chain EXCEPT !.links[i] = row], <<With([action |-> action, id |-> i], data)>>, ToolsListeners)

Link(i) ==
  LET row == chain.links[i]
  IN  \/ row = NoRow /\ LinkAction(i, "lognewlink", <<>>, [state |-> "WAITING", claimer |-> "null"])
      \/ row.state = "WAITING" /\ LinkAction(i, "loglinkstart", <<>>, [row EXCEPT !.state = "CREATED"])
      \/ /\ row.state \in {"WAITING", "CREATED"}
         /\ LinkAction(i, "cancellink", <<>>, [row EXCEPT !.state = "CANCELED"])
      \/ /\ row.state = "CREATED"
         /\ \E a \in Accounts : LinkAction(i, "claimlink", [claimer |-> a],
                                           [state |-> "CLAIMED", claimer |-> a])

NewVersion ==
  Send([chain EXCEPT !.tools = @ + 1], <<[action |-> "toolsconfig", version |-> chain.tools + 1]>>,
       ToolsListeners)

-----------------------------------------------------------------------------
(* The handlers *)

ToolsThrows(j) ==
  \/ j.callback = "lognewlink" /\ tables.links[j.trace.id] # NoRow
  \/ j.callback \in LinkUpdates /\ tables.links[j.trace.id] = NoRow

LogNewLink(j) ==
  /\ Runs(j, "lognewlink") /\ ~ ToolsThrows(j)
  /\ tables' = [tables EXCEPT !.links[j.trace.id] = [state |-> "WAITING", claimer |-> "null"]]
  /\ UNCHANGED memory /\ JobFrame

SetLink(j, callback, state) ==
  /\ Runs(j, callback) /\ ~ ToolsThrows(j)
  /\ tables' = [tables EXCEPT !.links[j.trace.id].state = state]
  /\ UNCHANGED memory /\ JobFrame

ClaimLink(j) ==
  /\ Runs(j, "claimlink") /\ ~ ToolsThrows(j)
  /\ tables' = [tables EXCEPT !.links[j.trace.id] = [state |-> "CLAIMED", claimer |-> j.trace.claimer]]
  /\ UNCHANGED memory /\ JobFrame

(* The row is updated if the remembered version differs. *)
ToolsConfig(j) ==
  /\ Runs(j, "toolsconfig")
  /\ tables' = IF memory.tools = j.trace.version THEN tables
               ELSE [tables EXCEPT !.tools = j.trace.version]
  /\ memory' = [memory EXCEPT !.tools = j.trace.version]
  /\ JobFrame

ToolsJob(j) ==
  \/ LogNewLink(j)
  \/ SetLink(j, "loglinkstart", "CREATED") \/ SetLink(j, "cancellink", "CANCELED")
  \/ ClaimLink(j) \/ ToolsConfig(j)

ToolsMatch == tables.links = chain.links
ToolsConfigMatches == chain.tools # 0 => tables.tools = chain.tools
=============================================================================
