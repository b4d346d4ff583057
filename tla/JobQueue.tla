------------------------------ MODULE JobQueue ------------------------------
(***************************************************************************)
(* The scheduler of the jobs that handlers add: mint numbers, validity of  *)
(* offers, refreshes of views (src/filler/jobqueue.ts).                    *)
(*                                                                         *)
(* Time is counted in pulses.  A job that is due waits in overdue, the     *)
(* longest waiting first, which is the order of nextRun.                   *)
(***************************************************************************)
EXTENDS Integers, Sequences, FiniteSets, SequencesExt

CONSTANTS
  Jobs,       \* a sequence: jobs in the order they were added
  Priority,   \* of each job
  Interval,   \* of each job, in pulses
  Stuck       \* jobs whose function never ends

JobSet == {Jobs[i] : i \in DOMAIN Jobs}

ASSUME JobQueueAssumption ==
  \A j \in JobSet : Priority[j] \in {1, 2, 3} /\ Interval[j] \in Nat \ {0}

VARIABLES
  wait,      \* pulses until nextRun
  overdue,   \* jobs with nextRun <= start
  active     \* jobs running; their priorities are runningPriorities

jobVars == <<wait, overdue, active>>

Running(priority) == \E j \in active : Priority[j] = priority

(* Mutant of ByNextRun: the order in which they were added. *)
AsAdded(due) == LET Due(j) == \E i \in DOMAIN due : due[i] = j IN SelectSeq(Jobs, Due)

(* Jobs that become due together stay in the order of jobs. *)
ByNextRun(due) == due

(* One pulse later: for each priority that does not run, the first job. *)
Pulse ==
  LET Due(j) == wait[j] = 1
      due == ByNextRun(overdue \o SelectSeq(Jobs, Due))
      First(j) == /\ ~ Running(Priority[j])
                  /\ \E i \in DOMAIN due : /\ due[i] = j
                                           /\ \A k \in 1..(i - 1) : Priority[due[k]] # Priority[j]
      next == {j \in JobSet : First(j)}
      Waits(j) == j \notin next
  IN  /\ wait' = [j \in JobSet |-> IF wait[j] > 0 THEN wait[j] - 1 ELSE 0]
      /\ overdue' = SelectSeq(due, Waits)
      /\ active' = active \cup next

(* With or without an error.  The end lies somewhere between two pulses. *)
JobEnds(j) ==
  /\ j \in active \ Stuck
  /\ active' = active \ {j}
  /\ \E late \in {0, 1} : wait' = [wait EXCEPT ![j] = Interval[j] + late]
  /\ UNCHANGED overdue

(* In a new process all jobs are due when it starts the queue. *)
RestartJobs ==
  /\ wait' = [j \in JobSet |-> 0] /\ overdue' = Jobs /\ active' = {}

InitJobs == wait = [j \in JobSet |-> 0] /\ overdue = Jobs /\ active = {}

(* A job runs again and again, whatever other jobs do and however long     *)
(* they take; a job that never ends stops those of its priority only.      *)
JobsKeepRunning ==
  \A j \in JobSet : (\A k \in Stuck : Priority[k] # Priority[j]) => []<>(j \in active)
=============================================================================
