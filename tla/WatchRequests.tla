--------------------------- MODULE WatchRequests ----------------------------
(***************************************************************************)
(* The watched-state operations of WatchState as concurrent requests.      *)
(*                                                                         *)
(* Katalog runs each request in a transaction of its own on one of several *)
(* threads.  A transaction that is not "immediate" takes SQLite's writer   *)
(* lock with its first INSERT, UPDATE or DELETE and keeps it until it      *)
(* commits; every SELECT before that sees whatever is committed when it    *)
(* runs (KatalogDatabase.transaction).  So a request first reads the item, *)
(* the items it stands for and their rows, and then writes: everything     *)
(* from its first write to its commit is one step.                         *)
(*                                                                         *)
(* A clear that finds no row to delete writes nothing in its first flush.  *)
(* Its roll-up and its revision bump then run without the lock, one        *)
(* SELECT at a time.                                                       *)
(***************************************************************************)
EXTENDS WatchState

CONSTANTS
    Requests,     \* the requests the server works on at the same time
    Operations    \* the operations viewers use, out of the three below

ASSUME OperationsAssumption == Operations \subseteq {"progress", "mark", "clear"}

VARIABLE req      \* what each request has read so far

requestVars == <<kind, parent, media, watch, revision, req>>

Idle == [phase |-> "idle"]

RequestInit == Init /\ req = [r \in Requests |-> Idle]

RequestItems(op, i) ==
    IF op = "progress" THEN {i}
    ELSE WatchedStateItems(kind, parent, i) \cup (IF op = "clear" THEN {i} ELSE {})

(* Everything a request reads before its first write.  The item objects it  *)
(* keeps are not read again: parents and kinds are as they were here.       *)
Read(r, op, u, i, completed) ==
    /\ req[r] = Idle /\ op \in Operations /\ kind[i] # "absent"
    /\ op = "progress" => kind[i] \in PlayableKinds
    /\ op = "mark" => MayMarkWatched(kind, parent, i) /\ completed
    /\ op = "clear" => ~completed
    /\ LET X == RequestItems(op, i)
       IN  req' = [req EXCEPT ![r] =
              [phase |-> "read", op |-> op, user |-> u, item |-> i,
               completed |-> completed, items |-> X,
               seasons |-> SeasonsOf(kind, parent, X),
               series |-> SeriesOf(kind, parent, X),
               saw |-> {j \in X : watch[u][j] # "none"}, lost |-> {}]]
    /\ UNCHANGED vars

(* The rows other requests hold that this step has deleted: an UPDATE or a  *)
(* DELETE of such a row matches nothing, even when the row is inserted anew. *)
HoldsRows(q) == q.phase \in {"read", "correct"}

AfterLoss(q) ==
    IF HoldsRows(q)
    THEN [q EXCEPT !.lost = @ \cup {j \in q.saw : watch'[q.user][j] = "none"}]
    ELSE q

Finish(r) == req' = [q \in Requests |-> IF q = r THEN Idle ELSE AfterLoss(req[q])]

(* Mutant: rows can be written for items that are gone (foreign keys off). *)
Conflict_WithoutForeignKey(r) ==
    LET q == req[r]
    IN  /\ q.op # "clear"
        /\ \E j \in q.items : \/ j \in q.lost
                              \/ j \notin q.saw /\ watch[q.user][j] # "none"

(* What stops the first flush: a row to insert is there already (unique     *)
(* index), a row to update is gone, or its item is (foreign key).           *)
Conflict(r) ==
    LET q == req[r]
    IN  /\ q.op # "clear"
        /\ \E j \in q.items : \/ kind[j] = "absent"
                              \/ j \in q.lost
                              \/ j \notin q.saw /\ watch[q.user][j] # "none"

(* Mutant: the roll-up is taken from what the request read, not from the    *)
(* rows under the lock: every container it affects follows its own items.   *)
RowsAfter_FromStaleRead(r) ==
    LET q == req[r]
    IN  Store(watch[q.user], q.items \cup q.seasons \cup q.series,
              IF q.completed THEN "completed" ELSE "none")

(* The viewer's rows after the request's own rows are written and the       *)
(* containers it affects are synchronised, all under the writer lock.       *)
RowsAfter(r) ==
    LET q == req[r]
        own == IF q.op = "clear" THEN Store(watch[q.user], q.saw \ q.lost, "none")
               ELSE Store(watch[q.user], q.items,
                          IF q.completed THEN "completed" ELSE "started")
    IN  SynchroniseContainers(kind, parent, own, q.seasons, q.series)

(* Mutant: mark_watched answers without looking for the item's row. *)
Fails_OnlyOnConflict(r) == Conflict(r)

(* mark_watched answers with the item's row and fails when there is none. *)
Fails(r) ==
    \/ Conflict(r)
    \/ req[r].op = "mark" /\ RowsAfter(r)[req[r].item] = "none"

WritesFirst(r) == req[r].phase = "read" /\ (req[r].op = "clear" => req[r].saw # {})

(* Mutant: the commit forgets the revision. *)
Commit_WithoutBump(r) ==
    /\ WritesFirst(r) /\ ~Fails(r)
    /\ watch' = [watch EXCEPT ![req[r].user] = RowsAfter(r)]
    /\ Finish(r)
    /\ UNCHANGED <<catalogueVars, revision>>

Commit(r) ==
    /\ WritesFirst(r) /\ ~Fails(r)
    /\ watch' = [watch EXCEPT ![req[r].user] = RowsAfter(r)]
    /\ BumpRevision(req[r].user)
    /\ Finish(r)
    /\ UNCHANGED catalogueVars

Rollback(r) ==
    /\ WritesFirst(r) /\ Fails(r)
    /\ req' = [req EXCEPT ![r] = Idle]
    /\ UNCHANGED vars

-----------------------------------------------------------------------------
(* A clear without a row to delete: seasons, then series, each counted and  *)
(* then looked up, one SELECT at a time, with no lock held.                 *)
Unlocked(q) ==
    [phase |-> "unlocked", user |-> q.user, seasons |-> q.seasons, series |-> q.series]

ClearFindsNothing(r) ==
    /\ req[r].phase = "read" /\ req[r].op = "clear" /\ req[r].saw = {}
    /\ req' = [req EXCEPT ![r] = Unlocked(@)]
    /\ UNCHANGED vars

(* How many children the container has; the count of those that are not     *)
(* completed is a statement of its own.                                     *)
CountChildren(r) ==
    /\ req[r].phase = "unlocked"
    /\ LET q == req[r]
           isSeason == q.seasons # {}
           kinds == IF isSeason THEN EpisodicKinds ELSE SeriesChildKinds
       IN  \E c \in IF isSeason THEN q.seasons ELSE q.series :
              req' = [req EXCEPT ![r] =
                 [phase |-> IF Children(kind, parent, c, kinds) = {} THEN "counted"
                                                                     ELSE "counting",
                  user |-> q.user, container |-> c, kinds |-> kinds, completed |-> FALSE,
                  seasons |-> q.seasons \ {c},
                  series |-> IF isSeason THEN q.series ELSE q.series \ {c}]]
    /\ UNCHANGED vars

CountIncomplete(r) ==
    LET q == req[r]
    IN  /\ q.phase = "counting"
        /\ req' = [req EXCEPT ![r].phase = "counted",
                     ![r].completed = \A i \in Children(kind, parent, q.container, q.kinds) :
                                         watch[q.user][i] = "completed"]
        /\ UNCHANGED vars

(* The container's row is as the counts ask for. *)
ContainerIsInStep(r) ==
    LET q == req[r]
    IN  watch[q.user][q.container] = IF q.completed THEN "completed" ELSE "none"

KeepContainer(r) ==
    /\ req[r].phase = "counted" /\ ContainerIsInStep(r)
    /\ req' = [req EXCEPT ![r] = Unlocked(@)]
    /\ UNCHANGED vars

(* The row is to be deleted, or one is to be inserted: not written yet. *)
PlanCorrection(r) ==
    /\ req[r].phase = "counted" /\ ~ContainerIsInStep(r)
    /\ req' = [req EXCEPT ![r] =
                 [phase |-> "correct", user |-> @.user, container |-> @.container,
                  completed |-> @.completed, seasons |-> @.seasons, series |-> @.series,
                  saw |-> IF @.completed THEN {} ELSE {@.container}, lost |-> {}]]
    /\ UNCHANGED vars

(* A row cannot be inserted for an item that is gone or has one. *)
CannotCorrect(r) ==
    LET q == req[r]
    IN  q.completed /\ (kind[q.container] = "absent" \/ watch[q.user][q.container] # "none")

(* This write takes the lock, and what is left of the transaction runs      *)
(* under it.  A DELETE of a row that is gone matches nothing and goes on.   *)
CorrectContainer(r) ==
    LET q == req[r]
        own == IF q.completed THEN Store(watch[q.user], {q.container}, "completed")
                              ELSE Store(watch[q.user], q.saw \ q.lost, "none")
    IN  /\ q.phase = "correct" /\ ~CannotCorrect(r)
        /\ watch' = [watch EXCEPT ![q.user] =
                        SynchroniseContainers(kind, parent, own, q.seasons, q.series)]
        /\ BumpRevision(q.user)
        /\ Finish(r)
        /\ UNCHANGED catalogueVars

FailCorrection(r) ==
    /\ req[r].phase = "correct" /\ CannotCorrect(r)
    /\ req' = [req EXCEPT ![r] = Idle]
    /\ UNCHANGED vars

ReadRevision(r) ==
    /\ req[r].phase = "unlocked" /\ req[r].seasons = {} /\ req[r].series = {}
    /\ revision[req[r].user] < MaxRevision
    /\ req' = [req EXCEPT ![r] = [phase |-> "bump", user |-> @.user,
                                  read |-> revision[@.user]]]
    /\ UNCHANGED vars

(* The commit writes the value that was read, plus one. *)
WriteRevision(r) ==
    /\ req[r].phase = "bump"
    /\ revision' = [revision EXCEPT ![req[r].user] = req[r].read + 1]
    /\ req' = [req EXCEPT ![r] = Idle]
    /\ UNCHANGED <<catalogueVars, watch>>

-----------------------------------------------------------------------------
(* Requests whose first write takes the lock.                               *)
LockedNext ==
    \E r \in Requests :
        \/ \E op \in Operations, u \in Users, i \in Items, completed \in BOOLEAN :
              Read(r, op, u, i, completed)
        \/ Commit(r) \/ Rollback(r)

(* Clears that go on without it.                                            *)
UnlockedNext ==
    \E r \in Requests :
        \/ ClearFindsNothing(r) \/ CountChildren(r) \/ CountIncomplete(r)
        \/ KeepContainer(r) \/ PlanCorrection(r) \/ CorrectContainer(r)
        \/ FailCorrection(r) \/ ReadRevision(r) \/ WriteRevision(r)

RequestNext == LockedNext \/ UnlockedNext

(* A scan or a removal between the steps of requests.  A removal holds the  *)
(* lock from its first read (BEGIN IMMEDIATE).  A scan reads before it       *)
(* writes, but where nobody edits the tree only a removal can change what it *)
(* found, and then it fails: what it commits is one step.                    *)
EditNext ==
    /\ CatalogueNext
    /\ req' = [q \in Requests |-> AfterLoss(req[q])]

RequestSpec == RequestInit /\ [][RequestNext]_requestVars

(* Progress and marks alone, which always write. *)
LockedSpec == RequestInit /\ [][LockedNext]_requestVars
-----------------------------------------------------------------------------
(* A viewer who is told that a title is watched sees it watched: no mark    *)
(* commits while an item it stands for, or the container, lacks its row.    *)
MarkCompletesAll ==
    [][\A r \in Requests :
          req[r].phase = "read" /\ req[r].op = "mark" /\ Commit(r) =>
              \A j \in req[r].items \cup {req[r].item} :
                  watch'[req[r].user][j] = "completed"]_requestVars
=============================================================================
