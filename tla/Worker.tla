------------------------------- MODULE Worker -------------------------------
(***************************************************************************)
(* The life of the filler: the master upgrades the database and starts the *)
(* worker of a reader (src/bin/filler.ts); the worker initialises its      *)
(* handlers, runs reader, jobs and list polls, and watches whether blocks  *)
(* are processed (src/filler/filler.ts).                                   *)
(*                                                                         *)
(* Its parts share nothing but this life: a behaviour shows one of them,   *)
(* the focus, while the others are at rest.                                *)
(***************************************************************************)
EXTENDS UpgradeDb, JobQueue, ListPoller, AbiCache

CONSTANTS
  MaxDeaths  \* bound: processes that die for other reasons than the watchdog

ASSUME WorkerAssumption == MaxDeaths \in Nat

VARIABLES
  focus,
  process,    \* of the reader: "none", "starting", "running" or "dead" under a living master
  reader,     \* whether it is stopped, and processed blocks since the last round
  watchdog,   \* lastBlockNum = 0, the rounds since lastBlockTime, and timeout
  deaths

watchVars == <<reader, watchdog>>
lifeVars  == <<process, deaths, focus>>
vars == <<upgradeVars, jobVars, listVars, abiVars, watchVars, lifeVars>>

Foci == {"upgrade", "jobs", "lists", "abis", "watchdog"}

(* Rounds of the watchdog until a reader without blocks is given up.       *)
FirstTimeout   == 3  \* six hours
CatchupTimeout == 2  \* ten minutes, more than 60 blocks behind the head
HeadTimeout    == 1  \* four minutes

-----------------------------------------------------------------------------
(* The master *)

(* It starts the worker when the database is upgraded. *)
StartWorker ==
  /\ upgrade.at = "ready" /\ process = "none"
  /\ process' = "starting"
  /\ UNCHANGED <<upgradeVars, jobVars, listVars, abiVars, watchVars, deaths, focus>>

(* startFiller: init of the handlers, startProcessing, and jobs.start.     *)
StartFiller ==
  /\ process = "starting"
  /\ process' = "running"
  /\ RestartJobs /\ RestartPolls /\ RestartReader
  /\ reader' = [stopped |-> FALSE, moved |-> FALSE]
  /\ watchdog' = [first |-> TRUE, stale |-> 0, timeout |-> FirstTimeout]
  /\ UNCHANGED <<upgradeVars, deaths, focus>>

(* The master is gone, and with it its worker. *)
MasterDies ==
  /\ UpgradeDies
  /\ process' = "none"
  /\ UNCHANGED <<jobVars, listVars, abiVars, watchVars, focus>>

(* Killed, or for an error while the database is upgraded. *)
Die == deaths < MaxDeaths /\ deaths' = deaths + 1 /\ MasterDies

(* init throws: nobody waits for this worker, and the master goes on.      *)
StartFails ==
  /\ process = "starting" /\ deaths < MaxDeaths
  /\ process' = "dead" /\ deaths' = deaths + 1
  /\ UNCHANGED <<upgradeVars, jobVars, listVars, abiVars, watchVars, focus>>

-----------------------------------------------------------------------------
(* The watchdog *)

(* currentBlock changes. *)
ProcessBlock ==
  /\ ~ reader.stopped
  /\ reader' = [reader EXCEPT !.moved = TRUE]
  /\ UNCHANGED watchdog

(* dsQueue is paused after an error, or the node sends nothing. *)
ReaderStops ==
  /\ ~ reader.stopped
  /\ reader' = [reader EXCEPT !.stopped = TRUE]
  /\ UNCHANGED watchdog

(* Mutant of LastBlockTime: a round without blocks counts as one with.     *)
LastBlockTimeAlways == 0

(* Rounds since blocks were processed, after this one. *)
LastBlockTime == IF reader.moved THEN 0 ELSE watchdog.stale + 1

(* currentBlock is the block before the first one from the start, so the   *)
(* first round has a block to remember.                                    *)
FirstRound ==
  /\ watchdog.first
  /\ watchdog' = [watchdog EXCEPT !.first = FALSE, !.stale = @ + 1]
  /\ reader' = [reader EXCEPT !.moved = FALSE]

Round ==
  /\ ~ watchdog.first
  /\ reader.moved \/ watchdog.stale <= watchdog.timeout
  /\ watchdog' \in [first: {FALSE}, stale: {LastBlockTime},
                    timeout: IF reader.moved THEN {CatchupTimeout, HeadTimeout} ELSE {watchdog.timeout}]
  /\ reader' = [reader EXCEPT !.moved = FALSE]

(* The worker reports the failure and the master ends. *)
Failure ==
  /\ ~ watchdog.first /\ ~ reader.moved /\ watchdog.stale > watchdog.timeout
  /\ MasterDies
  /\ UNCHANGED deaths

-----------------------------------------------------------------------------
(* All together *)

Upgrade ==
  /\ \/ Upgrading
     \/ focus = "upgrade" /\ process = "none" /\ Deploy
  /\ UNCHANGED <<jobVars, listVars, abiVars, watchVars, lifeVars>>

At(f) == process = "running" /\ focus = f

Job(j) ==
  At("jobs") /\ JobEnds(j) /\ UNCHANGED <<upgradeVars, listVars, abiVars, watchVars, lifeVars>>

JobPulse ==
  At("jobs") /\ Pulse /\ UNCHANGED <<upgradeVars, listVars, abiVars, watchVars, lifeVars>>

ListPoll(p) ==
  At("lists") /\ PollStep(p) /\ UNCHANGED <<upgradeVars, jobVars, abiVars, watchVars, lifeVars>>

ListService ==
  /\ \/ focus = "lists" /\ Publish
     \/ At("lists") /\ \E p \in Polls : PollFails(p)
  /\ UNCHANGED <<upgradeVars, jobVars, abiVars, watchVars, lifeVars>>

Read ==
  At("abis") /\ ReaderStep /\ UNCHANGED <<upgradeVars, jobVars, listVars, watchVars, lifeVars>>

Blocks ==
  /\ At("watchdog") /\ (ProcessBlock \/ ReaderStops)
  /\ UNCHANGED <<upgradeVars, jobVars, listVars, abiVars, lifeVars>>

Watch ==
  /\ At("watchdog")
  /\ \/ (FirstRound \/ Round) /\ UNCHANGED <<upgradeVars, jobVars, listVars, abiVars, lifeVars>>
     \/ Failure

Init ==
  /\ focus \in Foci
  /\ InitUpgrade /\ InitJobs /\ InitLists /\ InitAbis
  /\ focus # "abis" => setabi = {}
  /\ focus # "upgrade" => configured = {CHOOSE h \in HandlerNames : TRUE}
  /\ process = "none" /\ deaths = 0
  /\ reader = [stopped |-> FALSE, moved |-> FALSE]
  /\ watchdog = [first |-> TRUE, stale |-> 0, timeout |-> FirstTimeout]

Next ==
  \/ Upgrade \/ StartWorker \/ StartFiller \/ Die
  \/ focus = "watchdog" /\ StartFails
  \/ JobPulse \/ \E j \in JobSet : Job(j)
  \/ ListService \/ \E p \in Polls : ListPoll(p)
  \/ Read \/ Blocks \/ Watch

Spec == Init /\ [][Next]_vars

(* Timers fire, queries and fetches end, and jobs too unless they are      *)
(* stuck; a master that ended is started again by its container.           *)
FairSpec ==
  /\ Spec
  /\ WF_vars(Upgrading /\ Upgrade) /\ WF_vars(StartWorker) /\ WF_vars(StartFiller)
  /\ WF_vars(JobPulse) /\ \A j \in JobSet : WF_vars(Job(j))
  /\ \A p \in Polls : WF_vars(ListPoll(p))
  /\ WF_vars(Watch)

-----------------------------------------------------------------------------
(* Properties; MigrationsOnce and AbiOfBlock are those of UpgradeDb and    *)
(* AbiCache. *)

(* JobQueue *)
JobsRun == focus = "jobs" => JobsKeepRunning

(* ListPoller *)
ListsFollow == focus = "lists" => ListsConverge

(* A worker whose reader has stopped, before its first block or later, is  *)
(* replaced. *)
StalledIsReplaced == process = "running" /\ reader.stopped ~> process = "starting"
=============================================================================
