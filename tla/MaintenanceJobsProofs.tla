----------------------- MODULE MaintenanceJobsProofs -----------------------
(* Theorems about the job registry, for any jobs, roots and capacity.       *)
EXTENDS MaintenanceJobs, TLAPS

LEMMA MoveTaskMoves ==
  ASSUME TypeOK, NEW j \in Jobs, NEW from, NEW to \in TaskPlaces, MoveTask(j, from, to)
  PROVE  /\ task[j] = from /\ task'[j] = to /\ task' \in [Jobs -> TaskPlaces]
         /\ \A i \in Jobs \ {j} : task'[i] = task[i]
  BY DEF MoveTask, TypeOK

(* Where each step of a task takes it. *)
LEMMA TaskMoves ==
  ASSUME TypeOK, NEW j \in Jobs, TaskStep(j)
  PROVE  /\ task' \in [Jobs -> TaskPlaces]
         /\ \A i \in Jobs \ {j} : task'[i] = task[i] /\ status'[i] = status[i]
         /\ UNCHANGED <<process, requested, cancel>>
         /\ \/ status' = status /\ <<task[j], task'[j]>> \in
                 {<<"inserted", "starting">>, <<"leaving", "none">>,
                  <<"working", "returned">>, <<"working", "failed">>,
                  <<"working", "cancelled">>, <<"returned", "cancelled">>,
                  <<"returned", "completed">>}
            \/ status' = status /\ task[j] = "starting" /\ status[j] = "queued"
                 /\ task'[j] = "claiming"
            \/ status' = status /\ task[j] = "starting" /\ status[j] # "queued"
                 /\ task'[j] = "leaving"
            \/ task[j] = "claiming" /\ task'[j] = "working" /\ status'[j] = "running"
            \/ /\ task[j] \in {"completed", "failed", "cancelled"}
               /\ task'[j] = "leaving" /\ status'[j] = task[j]
  <1> USE DEF TaskPlaces
  <1>1. CASE CreateTask(j)
    BY <1>1, MoveTaskMoves DEF CreateTask
  <1>2. CASE StartRead(j)
    BY <1>2, MoveTaskMoves DEF StartRead
  <1>3. CASE StartWrite(j)
    BY <1>3, MoveTaskMoves DEF StartWrite, TypeOK
  <1>4. CASE Work(j)
    BY <1>4, MoveTaskMoves DEF Work
  <1>5. CASE LastCheck(j)
    BY <1>5, MoveTaskMoves DEF LastCheck
  <1>6. CASE Finish(j)
    BY <1>6, MoveTaskMoves DEF Finish, TypeOK
  <1>7. CASE Leave(j)
    BY <1>7, MoveTaskMoves DEF Leave
  <1> QED  BY <1>1, <1>2, <1>3, <1>4, <1>5, <1>6, <1>7 DEF TaskStep

LEMMA StepKeepsTypes ==
  ASSUME TypeOK, [Next]_vars
  PROVE  TypeOK'
  <1> USE DEF TypeOK, ActiveStatuses, TerminalStatuses, TaskPlaces
  <1>1. CASE Recover
    BY <1>1 DEF Recover
  <1>2. CASE Crash \/ Closed
    <2>1. Stopped
      BY <1>2 DEF Crash, Closed
    <2>2. [j \in Jobs |-> "none"] \in [Jobs -> TaskPlaces]
      OBVIOUS
    <2>3. [j \in Jobs |-> FALSE] \in [Jobs -> BOOLEAN]
      OBVIOUS
    <2>4. [j \in Jobs |-> "none"] \in [Jobs -> {"none", "signal"} \cup ActiveStatuses]
      OBVIOUS
    <2> HIDE DEF TaskPlaces, ActiveStatuses, TerminalStatuses
    <2> QED  BY <2>1, <2>2, <2>3, <2>4 DEF Stopped
  <1>3. CASE Close
    <2>1. [j \in Jobs |-> event[j] \/ j \in Registered] \in [Jobs -> BOOLEAN]
      OBVIOUS
    <2> QED  BY <1>3, <2>1 DEF Close
  <1>4. ASSUME NEW j \in Jobs, Submit(j)
        PROVE  TypeOK'
    BY <1>4 DEF Submit
  <1>5. ASSUME NEW j \in Jobs, TaskStep(j)
        PROVE  TypeOK'
    <2>1. status' \in [Jobs -> {"absent", "cleared"} \cup ActiveStatuses \cup TerminalStatuses]
      BY <1>5 DEF TaskStep, CreateTask, StartRead, StartWrite, Work, LastCheck, Finish, Leave
    <2>2. event' \in [Jobs -> BOOLEAN]
      BY <1>5 DEF TaskStep, CreateTask, StartRead, StartWrite, Work, LastCheck, Finish, Leave
    <2> QED  BY <1>5, <2>1, <2>2, TaskMoves
  <1>6. ASSUME NEW j \in Jobs, CancelRead(j) \/ CancelWrite(j) \/ CancelSignal(j) \/ Clear(j)
        PROVE  TypeOK'
    <2>1. CASE CancelRead(j)
      BY <2>1 DEF CancelRead
    <2>2. CASE CancelWrite(j)
      BY <2>2 DEF CancelWrite
    <2>3. CASE CancelSignal(j)
      BY <2>3 DEF CancelSignal
    <2>4. CASE Clear(j)
      BY <2>4 DEF Clear
    <2> QED  BY <1>6, <2>1, <2>2, <2>3, <2>4
  <1>7. CASE UNCHANGED vars
    BY <1>7 DEF vars
  <1> QED  BY <1>1, <1>2, <1>3, <1>4, <1>5, <1>6, <1>7 DEF Next, JobStep

(* The types. *)
THEOREM TypeCorrect == Spec => []TypeOK
  <1>1. Init => TypeOK
    BY DEF Init, TypeOK, TaskPlaces
  <1> QED  BY <1>1, StepKeepsTypes, PTL DEF Spec

-----------------------------------------------------------------------------
(* A row is not running before its task has claimed it, and no task runs    *)
(* without its process.                                                     *)
TaskInv ==
    /\ ActiveRowsHaveTasks
    /\ \A j \in Jobs : task[j] \in {"inserted", "starting"} => status[j] # "running"
    /\ process = "stopped" => \A j \in Jobs : task[j] = "none"

LEMMA StepKeepsTaskInv ==
  ASSUME TypeOK, TaskInv, [Next]_vars
  PROVE  TaskInv'
  <1> USE DEF TaskInv, ActiveRowsHaveTasks, ActiveStatuses
  <1>1. CASE Recover
    BY <1>1 DEF Recover, TypeOK
  <1>2. CASE Crash \/ Closed
    BY <1>2 DEF Crash, Closed, Stopped
  <1>3. CASE Close
    BY <1>3 DEF Close
  <1>4. ASSUME NEW j \in Jobs, Submit(j)
        PROVE  TaskInv'
    BY <1>4 DEF Submit, TypeOK
  <1>5. ASSUME NEW j \in Jobs, TaskStep(j)
        PROVE  TaskInv'
    <2>1. process # "stopped"
      BY <1>5, TaskMoves
    <2> QED  BY <1>5, <2>1, TaskMoves
  <1>6. ASSUME NEW j \in Jobs, CancelRead(j) \/ CancelWrite(j) \/ CancelSignal(j) \/ Clear(j)
        PROVE  TaskInv'
    <2>1. /\ UNCHANGED <<process, task>>
          /\ \A i \in Jobs : status'[i] = status[i] \/ status'[i] \in {"cancelled", "cleared"}
      BY <1>6 DEF CancelRead, CancelWrite, CancelSignal, Clear, TypeOK
    <2> QED  BY <2>1
  <1>7. CASE UNCHANGED vars
    BY <1>7 DEF vars
  <1> QED  BY <1>1, <1>2, <1>3, <1>4, <1>5, <1>6, <1>7 DEF Next, JobStep

(* No row is left active without a task that will end it, through crashes,  *)
(* restarts, closes and cancellations at any moment: a root is never locked *)
(* out of scanning by a job nobody runs.                                    *)
THEOREM ActiveRowsAlwaysHaveTasks == Spec => []ActiveRowsHaveTasks
  <1>1. Init => TaskInv
    BY DEF Init, TaskInv, ActiveRowsHaveTasks
  <1>2. TaskInv => ActiveRowsHaveTasks
    BY DEF TaskInv
  <1> QED  BY <1>1, <1>2, StepKeepsTaskInv, TypeCorrect, PTL DEF Spec

-----------------------------------------------------------------------------
(* The row and the task of a job that nobody cancels move together.         *)
Quiet == Jobs \ Cancellable

QuietInv ==
    /\ \A j \in Quiet : cancel[j] = "none"
    /\ \A j \in Quiet : task[j] \in {"inserted", "starting", "claiming"} => status[j] = "queued"
    /\ \A j \in Quiet : task[j] \in {"working", "returned", "completed", "failed", "cancelled"}
                          => status[j] = "running"
    /\ process = "stopped" => \A j \in Jobs : task[j] = "none"

LEMMA StepKeepsQuietInv ==
  ASSUME TypeOK, QuietInv, [Next]_vars
  PROVE  /\ QuietInv'
         /\ \A j \in Quiet : status[j] \in TerminalStatuses =>
                                status'[j] \in {status[j], "cleared"}
  <1> USE DEF QuietInv, Quiet, ActiveStatuses, TerminalStatuses
  <1> DEFINE Goal == /\ QuietInv'
                     /\ \A j \in Quiet : status[j] \in TerminalStatuses =>
                                            status'[j] \in {status[j], "cleared"}
  <1>1. CASE Recover
    BY <1>1 DEF Recover, TypeOK
  <1>2. CASE Crash \/ Closed
    BY <1>2 DEF Crash, Closed, Stopped
  <1>3. CASE Close
    BY <1>3 DEF Close
  <1>4. ASSUME NEW j \in Jobs, Submit(j)
        PROVE  Goal
    BY <1>4 DEF Submit, TypeOK
  <1>5. ASSUME NEW j \in Jobs, TaskStep(j)
        PROVE  Goal
    <2>1. process # "stopped"
      BY <1>5, TaskMoves
    <2> QED  BY <1>5, <2>1, TaskMoves
  <1>6. ASSUME NEW j \in Jobs, CancelRead(j) \/ CancelWrite(j) \/ CancelSignal(j) \/ Clear(j)
        PROVE  Goal
    BY <1>6 DEF CancelRead, CancelWrite, CancelSignal, Clear, TypeOK, ClearableStatuses
  <1>7. CASE UNCHANGED vars
    BY <1>7 DEF vars
  <1> QED  BY <1>1, <1>2, <1>3, <1>4, <1>5, <1>6, <1>7 DEF Next, JobStep

LEMMA QuietJobs == Spec => [](TypeOK /\ QuietInv)
  <1>1. Init => QuietInv
    BY DEF Init, QuietInv, Quiet
  <1>2. TypeOK /\ QuietInv /\ [Next]_vars => QuietInv'
    BY StepKeepsQuietInv
  <1> QED  BY <1>1, <1>2, TypeCorrect, PTL DEF Spec

(* A job that nobody cancels stays as it ended, whatever happens to others. *)
THEOREM EndedJobsStayEnded == Spec => TerminalIsFinal
  <1>1. TypeOK /\ QuietInv /\ [Next]_vars =>
          [\A j \in Jobs \ Cancellable : status[j] \in TerminalStatuses =>
                              status'[j] \in {status[j], "cleared"}]_vars
    BY StepKeepsQuietInv DEF Quiet
  <1> QED  BY <1>1, QuietJobs, PTL DEF Spec, TerminalIsFinal

-----------------------------------------------------------------------------
(* One row of a root is active.  Scans that ended do not become active      *)
(* again, provided that nobody cancels scans.                               *)
RootInv ==
    \A i, j \in Jobs :
        Root[i] # NoRoot /\ Root[i] = Root[j]
        /\ status[i] \in ActiveStatuses /\ status[j] \in ActiveStatuses => i = j

NoScanIsCancelled == \A j \in Cancellable : Root[j] = NoRoot

LEMMA StepKeepsRootInv ==
  ASSUME NoScanIsCancelled, TypeOK, QuietInv, RootInv, [Next]_vars
  PROVE  RootInv'
  <1> USE DEF RootInv, NoScanIsCancelled, ActiveStatuses
  <1>1. CASE Recover
    BY <1>1 DEF Recover, TypeOK
  <1>2. CASE Crash \/ Closed
    BY <1>2 DEF Crash, Closed, Stopped
  <1>3. CASE Close
    BY <1>3 DEF Close
  <1>4. ASSUME NEW j \in Jobs, Submit(j)
        PROVE  RootInv'
    BY <1>4 DEF Submit, TypeOK, DuplicateScan
  <1>5. ASSUME NEW j \in Jobs, TaskStep(j)
        PROVE  RootInv'
    <2>1. status'[j] \in ActiveStatuses /\ j \in Quiet => status[j] \in ActiveStatuses
      BY <1>5, TaskMoves DEF QuietInv
    <2>2. Root[j] # NoRoot => j \in Quiet
      BY DEF Quiet
    <2>3. \A i \in Jobs \ {j} : status'[i] = status[i]
      BY <1>5, TaskMoves
    <2> QED  BY <2>1, <2>2, <2>3
  <1>6. ASSUME NEW j \in Jobs, CancelRead(j) \/ CancelWrite(j) \/ CancelSignal(j) \/ Clear(j)
        PROVE  RootInv'
    BY <1>6 DEF CancelRead, CancelWrite, CancelSignal, Clear, TypeOK, ClearableStatuses
  <1>7. CASE UNCHANGED vars
    BY <1>7 DEF vars
  <1> QED  BY <1>1, <1>2, <1>3, <1>4, <1>5, <1>6, <1>7 DEF Next, JobStep

(* As long as nobody cancels a scan, two scans of one root never run at     *)
(* once, across crashes and restarts too.                                   *)
THEOREM ScansOfARootExclude ==
  ASSUME NoScanIsCancelled
  PROVE  Spec => []OneScanPerRoot
  <1>1. QuietInv /\ RootInv => OneScanPerRoot
    BY DEF QuietInv, Quiet, RootInv, NoScanIsCancelled, OneScanPerRoot, Running, ActiveStatuses
  <1>2. Init => RootInv
    BY DEF Init, RootInv, ActiveStatuses
  <1>3. TypeOK /\ QuietInv /\ RootInv /\ [Next]_vars => RootInv'
    BY StepKeepsRootInv
  <1> QED  BY <1>1, <1>2, <1>3, QuietJobs, PTL DEF Spec
=============================================================================
