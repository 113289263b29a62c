-------------------------- MODULE MaintenanceJobs ---------------------------
(***************************************************************************)
(* Katalog's registry of background jobs: rows that survive the process,   *)
(* and the asyncio tasks and cancellation events that do not.              *)
(*                                                                         *)
(* Steps of different tasks interleave at every await.  A database         *)
(* operation runs on a pool thread and is not immediate: the row it reads  *)
(* may have changed when it writes.  The registry's asyncio lock is held   *)
(* from a job's duplicate check to the creation of its task, and while a   *)
(* task is taken off the registry.                                         *)
(***************************************************************************)
EXTENDS Naturals, FiniteSets

CONSTANTS
    Jobs,          \* job identifiers; each is submitted at most once
    Root,          \* Root[j]: the library root job j scans, or NoRoot
    NoRoot,        \* the job is no scan of one root
    MaximumJobs,   \* maintenance_max_active_jobs
    Cancellable    \* the jobs somebody may cancel

ASSUME MaintenanceJobsAssumption ==
    /\ MaximumJobs \in Nat \ {0}
    /\ Cancellable \subseteq Jobs

VARIABLES
    process,   \* "serving", "closing" or "stopped"
    status,    \* the row: "absent", a MaintenanceJobStatus, or "cleared"
    requested, \* column cancellation_requested
    task,      \* where the task is in submit and _run
    event,     \* the in-process cancellation event is set
    cancel     \* where a cancel request is, and what it read

vars == <<process, status, requested, task, event, cancel>>

ActiveStatuses == {"queued", "running"}
TerminalStatuses == {"completed", "failed", "cancelled", "interrupted"}
ClearableStatuses == {"failed", "interrupted"}

Init ==
    /\ process = "stopped"
    /\ status = [j \in Jobs |-> "absent"]
    /\ requested = [j \in Jobs |-> FALSE]
    /\ task = [j \in Jobs |-> "none"]
    /\ event = [j \in Jobs |-> FALSE]
    /\ cancel = [j \in Jobs |-> "none"]

Registered == {j \in Jobs : task[j] \notin {"none", "inserted"}}
LockIsFree == \A j \in Jobs : task[j] # "inserted"

-----------------------------------------------------------------------------
(* Mutant: a restart forgets the jobs that had not started. *)
Recover_RunningOnly ==
    /\ process = "stopped" /\ process' = "serving"
    /\ status' = [j \in Jobs |-> IF status[j] = "running" THEN "interrupted"
                                 ELSE status[j]]
    /\ UNCHANGED <<requested, task, event, cancel>>

(* Mutant: a restart marks every job that is still listed. *)
Recover_EveryRow ==
    /\ process = "stopped" /\ process' = "serving"
    /\ status' = [j \in Jobs |-> IF status[j] \notin {"absent", "cleared"}
                                 THEN "interrupted" ELSE status[j]]
    /\ UNCHANGED <<requested, task, event, cancel>>

(* The process.  A restart marks what the last process left behind.         *)
Recover ==
    /\ process = "stopped" /\ process' = "serving"
    /\ status' = [j \in Jobs |-> IF status[j] \in ActiveStatuses THEN "interrupted"
                                 ELSE status[j]]
    /\ UNCHANGED <<requested, task, event, cancel>>

Stopped ==
    /\ process' = "stopped"
    /\ task' = [j \in Jobs |-> "none"]
    /\ event' = [j \in Jobs |-> FALSE]
    /\ cancel' = [j \in Jobs |-> "none"]
    /\ UNCHANGED <<status, requested>>

Crash == process # "stopped" /\ Stopped

(* close: after the last request was answered, every task is told to stop,  *)
(* under the lock, and then waited for, without it.                         *)
Close ==
    /\ process = "serving" /\ LockIsFree
    /\ \A j \in Jobs : cancel[j] = "none"
    /\ process' = "closing"
    /\ event' = [j \in Jobs |-> event[j] \/ j \in Registered]
    /\ UNCHANGED <<status, requested, task, cancel>>

Closed == process = "closing" /\ Registered = {} /\ Stopped

-----------------------------------------------------------------------------
(* Mutant: only a scan that has started is in the way. *)
DuplicateScan_Running(j) ==
    /\ Root[j] # NoRoot
    /\ \E i \in Jobs : Root[i] = Root[j] /\ status[i] = "running"

(* submit: the row is stored if there is room for its task and no active    *)
(* scan of its root (_insert_job), then the task is created.                *)
DuplicateScan(j) ==
    /\ Root[j] # NoRoot
    /\ \E i \in Jobs : Root[i] = Root[j] /\ status[i] \in ActiveStatuses

Submit(j) ==
    /\ process = "serving" /\ LockIsFree
    /\ status[j] = "absent"
    /\ Cardinality(Registered) < MaximumJobs
    /\ ~DuplicateScan(j)
    /\ status' = [status EXCEPT ![j] = "queued"]
    /\ task' = [task EXCEPT ![j] = "inserted"]
    /\ UNCHANGED <<process, requested, event, cancel>>

MoveTask(j, from, to) == task[j] = from /\ task' = [task EXCEPT ![j] = to]

CreateTask(j) ==
    /\ MoveTask(j, "inserted", "starting")
    /\ UNCHANGED <<process, status, requested, event, cancel>>

-----------------------------------------------------------------------------
(* _start claims the row if it reads it queued.                             *)
StartRead(j) ==
    /\ MoveTask(j, "starting", IF status[j] = "queued" THEN "claiming" ELSE "leaving")
    /\ UNCHANGED <<process, status, requested, event, cancel>>

StartWrite(j) ==
    /\ MoveTask(j, "claiming", "working")
    /\ status' = [status EXCEPT ![j] = "running"]
    /\ UNCHANGED <<process, requested, event, cancel>>

(* The operation ends: it returns, raises, or stops at a checkpoint because *)
(* of the event.  It may also return without having passed a checkpoint.    *)
Work(j) ==
    /\ \/ MoveTask(j, "working", "returned")
       \/ MoveTask(j, "working", "failed")
       \/ event[j] /\ MoveTask(j, "working", "cancelled")
    /\ UNCHANGED <<process, status, requested, event, cancel>>

(* _run asks the row once more whether the job was cancelled. *)
LastCheck(j) ==
    /\ MoveTask(j, "returned", IF requested[j] THEN "cancelled" ELSE "completed")
    /\ UNCHANGED <<process, status, requested, event, cancel>>

(* Mutant: a failed operation leaves its row as it is. *)
Finish_LosesFailure(j) ==
    \E outcome \in {"completed", "failed", "cancelled"} :
        /\ MoveTask(j, outcome, "leaving")
        /\ status' = IF outcome = "failed" THEN status
                     ELSE [status EXCEPT ![j] = outcome]
        /\ UNCHANGED <<process, requested, event, cancel>>

(* _transition stores the outcome, whatever the row says by then. *)
Finish(j) ==
    \E outcome \in {"completed", "failed", "cancelled"} :
        /\ MoveTask(j, outcome, "leaving")
        /\ status' = [status EXCEPT ![j] = outcome]
        /\ UNCHANGED <<process, requested, event, cancel>>

(* Mutant: close keeps the lock while it waits. *)
Leave_NotWhileClosing(j) ==
    /\ LockIsFree /\ process = "serving"
    /\ MoveTask(j, "leaving", "none")
    /\ event' = [event EXCEPT ![j] = FALSE]
    /\ UNCHANGED <<process, status, requested, cancel>>

(* Off the registry, under the lock. *)
Leave(j) ==
    /\ LockIsFree
    /\ MoveTask(j, "leaving", "none")
    /\ event' = [event EXCEPT ![j] = FALSE]
    /\ UNCHANGED <<process, status, requested, cancel>>

-----------------------------------------------------------------------------
(* cancel: read the row, change it, then set the event. *)
CancelRead(j) ==
    /\ process = "serving" /\ j \in Cancellable
    /\ cancel[j] = "none" /\ status[j] \in ActiveStatuses
    /\ cancel' = [cancel EXCEPT ![j] = status[j]]
    /\ UNCHANGED <<process, status, requested, task, event>>

CancelWrite(j) ==
    /\ cancel[j] \in ActiveStatuses
    /\ IF status[j] = "cleared"
       THEN cancel' = [cancel EXCEPT ![j] = "none"] /\ UNCHANGED <<status, requested>>
       ELSE /\ cancel' = [cancel EXCEPT ![j] = "signal"]
            /\ IF cancel[j] = "queued"
               THEN /\ status' = [status EXCEPT ![j] = "cancelled"]
                    /\ UNCHANGED requested
               ELSE /\ requested' = [requested EXCEPT ![j] = TRUE]
                    /\ UNCHANGED status
    /\ UNCHANGED <<process, task, event>>

CancelSignal(j) ==
    /\ cancel[j] = "signal"
    /\ cancel' = [cancel EXCEPT ![j] = "none"]
    /\ event' = [event EXCEPT ![j] = @ \/ j \in Registered]
    /\ UNCHANGED <<process, status, requested, task>>

(* clear deletes the row of a job that failed or was interrupted. *)
Clear(j) ==
    /\ process = "serving" /\ status[j] \in ClearableStatuses
    /\ status' = [status EXCEPT ![j] = "cleared"]
    /\ UNCHANGED <<process, requested, task, event, cancel>>

-----------------------------------------------------------------------------
TaskStep(j) ==
    \/ CreateTask(j) \/ StartRead(j) \/ StartWrite(j) \/ Work(j) \/ LastCheck(j)
    \/ Finish(j) \/ Leave(j)

JobStep(j) ==
    \/ Submit(j) \/ TaskStep(j)
    \/ CancelRead(j) \/ CancelWrite(j) \/ CancelSignal(j) \/ Clear(j)

Next == Recover \/ Crash \/ Close \/ Closed \/ \E j \in Jobs : JobStep(j)

Spec == Init /\ [][Next]_vars

(* The event loop runs every ready task, pool threads finish, and operations *)
(* end.  Nothing is assumed about crashes, restarts and requests.            *)
Fairness == WF_vars(Closed) /\ \A j \in Jobs : WF_vars(TaskStep(j))

FairSpec == Spec /\ Fairness

-----------------------------------------------------------------------------
TaskPlaces == {"none", "inserted", "starting", "claiming", "working", "returned",
               "completed", "failed", "cancelled", "leaving"}

TypeOK ==
    /\ process \in {"serving", "closing", "stopped"}
    /\ status \in [Jobs -> {"absent", "cleared"} \cup ActiveStatuses \cup TerminalStatuses]
    /\ requested \in [Jobs -> BOOLEAN]
    /\ task \in [Jobs -> TaskPlaces]
    /\ event \in [Jobs -> BOOLEAN]
    /\ cancel \in [Jobs -> {"none", "signal"} \cup ActiveStatuses]

(* A row says "queued" or "running" only while a task of this process is    *)
(* responsible for it; a row nobody works on would keep its root from ever  *)
(* being scanned again.                                                     *)
ActiveRowsHaveTasks ==
    process # "stopped" =>
        \A j \in Jobs : status[j] \in ActiveStatuses => task[j] \notin {"none", "leaving"}

(* "A scan is already active for this library root": the operations of two  *)
(* scans of one root never run at the same time.                            *)
Running == {j \in Jobs : task[j] \in {"working", "returned"}}

OneScanPerRoot ==
    \A i, j \in Running : Root[i] # NoRoot /\ Root[i] = Root[j] => i = j

(* A job that ended stays as it ended until its row is cleared, through      *)
(* restarts and recoveries.  Jobs that are cancelled are left out: a cancel *)
(* between _start's read and write leaves a cancelled row that runs after   *)
(* all.                                                                     *)
TerminalIsFinal ==
    [][\A j \in Jobs \ Cancellable :
          status[j] \in TerminalStatuses => status'[j] \in {status[j], "cleared"}]_vars

(* Every submitted job ends, unless its process does. *)
JobsEnd ==
    \A j \in Jobs : status[j] \in ActiveStatuses ~>
                        (status[j] \notin ActiveStatuses \/ process = "stopped")

(* "Request cooperative cancellation before waiting for local work to       *)
(* finish": closing waits for tasks that themselves wait for the lock.      *)
CloseReturns == process = "closing" ~> process = "stopped"
=============================================================================
