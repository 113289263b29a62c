------------------------ MODULE AdministrationProofs ------------------------
(***************************************************************************)
(* Proofs about the administration page: its panels never show issues      *)
(* older than a change the page was told of, and while it is visible it    *)
(* never stops polling.                                                    *)
(***************************************************************************)
EXTENDS Administration, TLAPS

\* A panel whose load was answered, or that shows issues, was not told of a
\* later change than k; nothing is later than the catalogue, at c.
PanelFresh(s, k, c) ==
  /\ k <= c
  /\ (s.request # None /\ s.request.version # None) => k <= s.request.version /\ s.request.version <= c
  /\ s.data # None => k <= s.data

PanelsFresh == \A p \in Panels : PanelFresh(panels[p], known[p], catalogue)

\* Nothing on its way comes from the future; an operation that queues a job has one.
AnswersArePast ==
  /\ \A j \in 1 .. MaxJobs : jobs[j].version <= catalogue
  /\ poll.load # None /\ poll.load.seen # None => poll.load.seen.row.version <= catalogue
  /\ operation # None /\ operation.answer # None =>
       /\ operation.answer.version <= catalogue
       /\ operation.kind \in {"repair", "fetch"} => operation.job \in 1 .. MaxJobs
  /\ submitted # None => submitted.job \in 1 .. MaxJobs

AdministrationInv == TypeOK /\ PanelsFresh /\ AnswersArePast

\* A load of more rows does not start the timer when it ends.
KeepsPolling(q) ==
  /\ q.load # None \/ q.timer
  /\ q.load # None /\ q.load.kind = "more" => q.timer \/ q.pending

Pages == [connected : BOOLEAN, visible : BOOLEAN]
Polls == [load : Loads \cup {None}, pending : BOOLEAN, timer : BOOLEAN]
Operations == [kind : Kinds, answer : [version : Nat] \cup {None}, job : 1 .. MaxJobs \cup {None}]

\* What a load has seen comes from the poll q.
SeenIn(q, new) == new.load # None /\ new.load.seen # None =>
                    q.load # None /\ new.load.seen = q.load.seen

-----------------------------------------------------------------------------
(* Starting a load, or ending one, keeps the poll well typed and going.     *)
LEMMA LoadedPolls ==
  ASSUME NEW p \in Pages, NEW q \in Polls, NEW d
  PROVE  /\ Loaded(p, q, d) \in Polls
         /\ SeenIn(q, Loaded(p, q, d))
         /\ Watching(p) => KeepsPolling(Loaded(p, q, d))
<1> DEFINE new == Loaded(p, q, d)
<1>1. CASE ~Watching(p)
  <2>1. new = q
    BY <1>1 DEF Loaded
  <2> QED
    BY <1>1, <2>1 DEF SeenIn
<1>2. CASE Watching(p) /\ q.load # None
  <2> DEFINE aborted == q.load.kind = "load"
             load == [q.load EXCEPT !.aborted = aborted]
  <2>1. aborted \in BOOLEAN /\ q.load \in Loads
    BY <1>2 DEF Polls
  <2>2. new = [q EXCEPT !.pending = TRUE, !.load.aborted = aborted]
    BY <1>2 DEF Loaded
  <2> HIDE DEF aborted
  <2>3. load \in Loads /\ load.seen = q.load.seen /\ load.kind = q.load.kind
    BY <2>1 DEF Loads
  <2>4. new.load = load /\ new.pending = TRUE /\ new \in Polls
    BY <2>2, <2>3 DEF Polls
  <2> HIDE DEF load
  <2> QED
    BY <1>2, <2>3, <2>4, NoneIsNoLoad DEF SeenIn, KeepsPolling
<1>3. CASE Watching(p) /\ q.load = None /\ d # None
  <2>1. new = [q EXCEPT !.timer = TRUE]
    BY <1>3 DEF Loaded
  <2>2. new \in Polls /\ new.load = None /\ new.timer = TRUE
    BY <1>3, <2>1 DEF Polls
  <2> QED
    BY <2>2 DEF SeenIn, KeepsPolling
<1>4. CASE Watching(p) /\ q.load = None /\ d = None
  <2>1. new = [q EXCEPT !.load = NewLoad]
    BY <1>4 DEF Loaded
  <2>2. NewLoad \in Loads /\ NewLoad.seen = None /\ NewLoad.kind = "load"
    BY DEF NewLoad, Loads
  <2>3. new \in Polls /\ new.load = NewLoad
    BY <2>1, <2>2 DEF Polls
  <2> QED
    BY <2>2, <2>3, NoneIsNoLoad DEF SeenIn, KeepsPolling
<1> QED
  BY <1>1, <1>2, <1>3, <1>4

(* Ending a load starts the next or the timer; a load of more rows ends     *)
(* without the timer, which it left running.                                *)
LEMMA EndedPolls ==
  ASSUME NEW p \in Pages, NEW q \in Polls, NEW d
  PROVE  /\ Ended(p, q, d) \in Polls
         /\ SeenIn(q, Ended(p, q, d))
         /\ Watching(p) => KeepsPolling(Ended(p, q, d))
         /\ MoreEnded(p, q, d) \in Polls
         /\ SeenIn(q, MoreEnded(p, q, d))
         /\ Watching(p) /\ (q.timer \/ q.pending) => KeepsPolling(MoreEnded(p, q, d))
<1> DEFINE done == [q EXCEPT !.load = None]
           again == [done EXCEPT !.pending = FALSE]
           waiting == [done EXCEPT !.timer = TRUE]
<1>1. /\ done \in Polls /\ done.load = None /\ done.timer = q.timer
      /\ again \in Polls /\ again.load = None
      /\ waiting \in Polls /\ waiting.load = None /\ waiting.timer = TRUE
  BY DEF Polls
<1>2. SeenIn(q, done) /\ SeenIn(q, waiting) /\ KeepsPolling(waiting)
      /\ (q.timer => KeepsPolling(done))
  BY <1>1 DEF SeenIn, KeepsPolling
<1>3. /\ Loaded(p, again, d) \in Polls
      /\ SeenIn(q, Loaded(p, again, d))
      /\ Watching(p) => KeepsPolling(Loaded(p, again, d))
  BY <1>1, LoadedPolls DEF SeenIn
<1>4. Ended(p, q, d) = IF ~Watching(p) THEN done
                       ELSE IF q.pending THEN Loaded(p, again, d) ELSE waiting
  BY DEF Ended
<1>5. MoreEnded(p, q, d) = IF q.pending /\ Watching(p) THEN Loaded(p, again, d) ELSE done
  BY DEF MoreEnded
<1> HIDE DEF done, again, waiting
<1> QED
  BY <1>1, <1>2, <1>3, <1>4, <1>5

-----------------------------------------------------------------------------
(* Panels. *)

(* Loading and aborting panels shows nothing.                               *)
LEMMA PanelMaps ==
  ASSUME NEW ps \in [Panels -> PanelStates]
  PROVE  /\ Started(ps) \in [Panels -> PanelStates]
         /\ AbortedLoads(ps) \in [Panels -> PanelStates]
         /\ \A p \in Panels, k, c \in Nat : PanelFresh(ps[p], k, c) =>
               PanelFresh(Started(ps)[p], k, c) /\ PanelFresh(AbortedLoads(ps)[p], k, c)
<1>1. ASSUME NEW s \in PanelStates
      PROVE  /\ Loading(s) \in PanelStates /\ Loading(s).data = s.data
             /\ Loading(s).request.version = None
  <2>1. [version |-> None] \in [version : Nat \cup {None}]
    OBVIOUS
  <2> QED
    BY <2>1 DEF Loading, PanelStates
<1>2. ASSUME NEW p \in Panels
      PROVE  /\ Started(ps)[p] \in PanelStates
             /\ \A k, c \in Nat : PanelFresh(ps[p], k, c) => PanelFresh(Started(ps)[p], k, c)
  <2>1. Started(ps)[p] = IF NeedsLoad(ps[p]) THEN Loading(ps[p]) ELSE ps[p]
    BY DEF Started
  <2>2. ps[p] \in PanelStates
    OBVIOUS
  <2> QED
    BY <1>1, <2>1, <2>2 DEF PanelFresh
<1>3. ASSUME NEW p \in Panels
      PROVE  /\ AbortedLoads(ps)[p] \in PanelStates
             /\ \A k, c \in Nat : PanelFresh(ps[p], k, c) => PanelFresh(AbortedLoads(ps)[p], k, c)
  <2> DEFINE status == IF ps[p].status = "loading" THEN "idle" ELSE ps[p].status
             s == [ps[p] EXCEPT !.request = None, !.status = status]
  <2>1. AbortedLoads(ps)[p] = s
    BY DEF AbortedLoads
  <2>2. ps[p] \in PanelStates /\ status \in {"idle", "loading", "error"}
    BY DEF PanelStates
  <2> HIDE DEF status
  <2>3. s \in PanelStates /\ s.request = None /\ s.data = ps[p].data
    BY <2>2 DEF PanelStates
  <2> QED
    BY <2>1, <2>3 DEF PanelFresh
<1> QED
  BY <1>2, <1>3 DEF Started, AbortedLoads

(* Whoever is told of a change drops what the panels it concerns show or    *)
(* load: that is fresh for what the page knows now.                         *)
LEMMA ToldPanels ==
  ASSUME AdministrationInv, NEW names, NEW version \in Nat, version <= catalogue,
         Told(names, version)
  PROVE  /\ known' \in [Panels -> Nat]
         /\ Invalidated(panels, names) \in [Panels -> PanelStates]
         /\ \A p \in Panels : PanelFresh(Invalidated(panels, names)[p], known'[p], catalogue)
<1> USE DEF AdministrationInv, TypeOK
<1>1. ASSUME NEW p \in Panels
      PROVE  /\ known'[p] = IF p \in names THEN Later(known[p], version) ELSE known[p]
             /\ known'[p] \in Nat /\ known'[p] <= catalogue
  BY DEF Told, Later, PanelsFresh, PanelFresh
<1>2. known' \in [Panels -> Nat]
  BY <1>1 DEF Told
<1>3. ASSUME NEW p \in Panels
      PROVE  /\ Invalidated(panels, names)[p] \in PanelStates
             /\ PanelFresh(Invalidated(panels, names)[p], known'[p], catalogue)
  <2> DEFINE s == [panels[p] EXCEPT !.request = None, !.status = "idle",
                                    !.invalidated = TRUE, !.data = None]
  <2>1. s \in PanelStates /\ s.request = None /\ s.data = None
    BY DEF PanelStates
  <2>2. Invalidated(panels, names)[p] = IF p \in names THEN s ELSE panels[p]
    BY DEF Invalidated
  <2>3. panels[p] \in PanelStates /\ PanelFresh(panels[p], known[p], catalogue)
    BY DEF PanelsFresh
  <2> HIDE DEF s
  <2>4. CASE p \in names
    BY <1>1, <2>1, <2>2, <2>4 DEF PanelFresh
  <2>5. CASE p \notin names
    BY <1>1, <2>2, <2>3, <2>5
  <2> QED
    BY <2>4, <2>5
<1>4. Invalidated(panels, names) \in [Panels -> PanelStates]
  BY <1>3 DEF Invalidated
<1> QED
  BY <1>2, <1>3, <1>4

-----------------------------------------------------------------------------
(* The poll through every step. *)

(* Actions that have no part in the poll.                                   *)
PollUnchanged ==
  \/ \E p \in Panels : PanelServed(p) \/ Retry(p) \/ \E yes \in BOOLEAN : Open(p, yes) \/ PanelAnswered(p, yes)
  \/ \E kind \in Kinds : Ask(kind)
  \/ \E yes \in BOOLEAN : Confirm(yes)
  \/ OperationServed
  \/ \E j \in 1 .. MaxJobs, status \in {"completed", "failed"} : JobEnds(j, status)
  \/ UNCHANGED vars

(* Actions that end, start or continue a load.                              *)
PollMoves ==
  \/ TimerFires \/ LoadMore \/ MoreAnswered \/ PageAnswered \/ IssuesAwaited
  \/ JobsServed \/ JobsAnswered \/ LoadEnds
  \/ \E yes \in BOOLEAN : OperationAnswered(yes)

PageMoves == Hide \/ Show \/ Disconnect \/ Connect

LEMMA NextSplits == [Next]_vars => PollUnchanged \/ PollMoves \/ PageMoves
BY DEF Next, PollUnchanged, PollMoves, PageMoves

PollGoal ==
  /\ page' \in Pages /\ poll' \in Polls
  /\ SeenIn(poll, poll') \/ (poll'.load.seen.row.version <= catalogue /\ catalogue' = catalogue)
  /\ (Watching(page) => KeepsPolling(poll)) => (Watching(page') => KeepsPolling(poll'))

(* The load's steps, one after the other.                                   *)
LEMMA PollMovesStep ==
  ASSUME AdministrationInv, PollMoves
  PROVE  PollGoal
<1>1. page' = page /\ page \in Pages /\ poll \in Polls
  BY DEF PollMoves, TimerFires, LoadMore, MoreAnswered, PageAnswered, IssuesAwaited, JobsServed,
         JobsAnswered, LoadEnds, OperationAnswered, AdministrationInv, TypeOK, Pages, Polls
<1>2. SeenIn(poll, poll)
  BY DEF SeenIn
<1>3. CASE TimerFires
  <2> DEFINE rest == [poll EXCEPT !.timer = FALSE]
  <2>1. rest \in Polls /\ rest.load = poll.load /\ poll' = Loaded(page, rest, dialog)
    BY <1>1, <1>3 DEF TimerFires, Polls
  <2> HIDE DEF rest
  <2> QED
    BY <1>1, <2>1, LoadedPolls DEF PollGoal, SeenIn
<1>4. CASE LoadMore
  <2> DEFINE more == [NewLoad EXCEPT !.kind = "more"]
  <2>1. more \in Loads /\ more.seen = None
    BY DEF NewLoad, Loads
  <2>2. poll.load = None /\ poll' = [poll EXCEPT !.load = more]
    BY <1>4 DEF LoadMore
  <2> HIDE DEF more
  <2>3. poll' \in Polls /\ poll'.load = more /\ poll'.timer = poll.timer
    BY <1>1, <2>1, <2>2 DEF Polls
  <2> QED
    BY <1>1, <2>1, <2>2, <2>3, NoneIsNoLoad DEF PollGoal, SeenIn, KeepsPolling
<1>5. CASE MoreAnswered
  <2>1. poll' = MoreEnded(page, poll, dialog) /\ poll.load # None /\ poll.load.kind = "more"
    BY <1>5 DEF MoreAnswered
  <2> QED
    BY <1>1, <2>1, EndedPolls DEF PollGoal, KeepsPolling
<1>6. CASE PageAnswered \/ IssuesAwaited
  <2>1. PICK wanted \in SUBSET Panels, step \in {"issues", "jobs"} :
          \/ poll' = [poll EXCEPT !.load.step = step]
          \/ poll' = [poll EXCEPT !.load.step = step, !.load.waits = wanted]
    <3>1. ToLoad(panels) \in SUBSET Panels /\ {} \in SUBSET Panels
      BY DEF ToLoad
    <3> QED
      BY <1>6, <3>1 DEF PageAnswered, IssuesAwaited
  <2>2. poll.load # None /\ poll.load \in Loads
    BY <1>1, <1>6 DEF PageAnswered, IssuesAwaited, Polls
  <2>3. /\ poll' \in Polls /\ poll'.load \in Loads /\ poll'.load.seen = poll.load.seen
        /\ poll'.load.kind = poll.load.kind /\ poll'.timer = poll.timer /\ poll'.pending = poll.pending
    <3> DEFINE turned == [poll.load EXCEPT !.step = step]
               awaiting == [poll.load EXCEPT !.step = step, !.waits = wanted]
    <3>1. /\ turned \in Loads /\ turned.seen = poll.load.seen /\ turned.kind = poll.load.kind
          /\ awaiting \in Loads /\ awaiting.seen = poll.load.seen /\ awaiting.kind = poll.load.kind
      BY <2>2 DEF Loads
    <3>2. poll' = [poll EXCEPT !.load = turned] \/ poll' = [poll EXCEPT !.load = awaiting]
      BY <1>1, <2>1 DEF Polls
    <3> HIDE DEF turned, awaiting
    <3> QED
      BY <1>1, <3>1, <3>2 DEF Polls
  <2> QED
    BY <1>1, <2>2, <2>3, NoneIsNoLoad DEF PollGoal, SeenIn, KeepsPolling
<1>7. CASE JobsServed
  <2> DEFINE seen == [job |-> submitted.job, row |-> jobs[submitted.job]]
  <2>1. /\ submitted.job \in 1 .. MaxJobs /\ jobs[submitted.job] \in JobRows
        /\ jobs[submitted.job].version <= catalogue
    BY <1>7 DEF JobsServed, AdministrationInv, AnswersArePast, TypeOK
  <2>2. seen \in [job : 1 .. MaxJobs, row : JobRows] /\ seen.row = jobs[submitted.job]
    BY <2>1
  <2>3. /\ poll.load # None /\ poll.load \in Loads /\ poll' = [poll EXCEPT !.load.seen = seen]
        /\ catalogue' = catalogue
    BY <1>1, <1>7 DEF JobsServed, Polls, outside
  <2> HIDE DEF seen
  <2>4. /\ poll' \in Polls /\ poll'.load \in Loads /\ poll'.load.seen = seen
        /\ poll'.load.kind = poll.load.kind /\ poll'.timer = poll.timer /\ poll'.pending = poll.pending
    BY <1>1, <2>2, <2>3 DEF Polls, Loads
  <2> QED
    BY <1>1, <2>1, <2>2, <2>3, <2>4, NoneIsNoLoad DEF PollGoal, KeepsPolling
<1>8. CASE JobsAnswered \/ LoadEnds
  <2>1. poll' = Ended(page, poll, dialog)
    BY <1>8 DEF JobsAnswered, LoadEnds
  <2> QED
    BY <1>1, <2>1, EndedPolls DEF PollGoal
<1>9. ASSUME NEW yes \in BOOLEAN, OperationAnswered(yes)
      PROVE  PollGoal
  <2>1. poll' = Loaded(page, poll, dialog) \/ poll' = poll
    BY <1>9 DEF OperationAnswered
  <2> QED
    BY <1>1, <1>2, <2>1, LoadedPolls DEF PollGoal
<1> QED
  BY <1>3, <1>4, <1>5, <1>6, <1>7, <1>8, <1>9 DEF PollMoves

(* Hiding and leaving the page stops its polling, showing it starts it.     *)
LEMMA PageMovesStep ==
  ASSUME AdministrationInv, PageMoves
  PROVE  PollGoal
<1>1. page \in Pages /\ poll \in Polls /\ SeenIn(poll, poll)
  BY DEF AdministrationInv, TypeOK, Pages, Polls, SeenIn
<1>2. page' \in Pages
  BY <1>1 DEF PageMoves, Hide, Show, Disconnect, Connect, Pages
<1> DEFINE load == AbortedLoad(poll.load)
<1>3. /\ load \in Loads \cup {None}
      /\ load # None /\ load.seen # None => poll.load # None /\ load.seen = poll.load.seen
  <2> DEFINE aborted == poll.load.aborted \/ poll.load.kind = "load"
  <2>1. aborted \in BOOLEAN
    BY Zenon
  <2>2. load = IF poll.load = None THEN None ELSE [poll.load EXCEPT !.aborted = aborted]
    BY DEF AbortedLoad
  <2> HIDE DEF aborted, load
  <2> QED
    BY <1>1, <2>1, <2>2 DEF Polls, Loads
<1>4. CASE Hide
  <2>1. ~Watching(page')
    BY <1>1, <1>4 DEF Hide, Watching, Pages
  <2>2. poll' = poll \/ poll' = [poll EXCEPT !.timer = FALSE, !.pending = FALSE, !.load = load]
    BY <1>1, <1>4 DEF Hide, Polls
  <2> HIDE DEF load
  <2>3. poll' \in Polls /\ SeenIn(poll, poll')
    BY <1>1, <1>3, <2>2 DEF Polls, SeenIn
  <2> QED
    BY <1>2, <2>1, <2>3 DEF PollGoal
<1>5. CASE Disconnect
  <2>1. ~Watching(page')
    BY <1>1, <1>5 DEF Disconnect, Watching, Pages
  <2>2. poll' = [timer |-> FALSE, pending |-> FALSE, load |-> load]
    BY <1>5 DEF Disconnect
  <2> HIDE DEF load
  <2>3. poll' \in Polls /\ SeenIn(poll, poll')
    BY <1>1, <1>3, <2>2 DEF Polls, SeenIn
  <2> QED
    BY <1>2, <2>1, <2>3 DEF PollGoal
<1>6. CASE Show
  <2>1. CASE ~page.connected
    <3>1. poll' = poll /\ ~Watching(page')
      BY <1>1, <1>6, <2>1 DEF Show, Watching, Pages
    <3> QED
      BY <1>1, <1>2, <3>1 DEF PollGoal
  <2>2. CASE page.connected /\ poll.load # None
    <3>1. poll' = [poll EXCEPT !.pending = TRUE]
      BY <1>6, <2>2 DEF Show
    <3>2. poll' \in Polls /\ poll'.load = poll.load /\ poll'.pending = TRUE
      BY <1>1, <3>1 DEF Polls
    <3> QED
      BY <1>2, <2>2, <3>2 DEF PollGoal, SeenIn, KeepsPolling
  <2>3. CASE page.connected /\ poll.load = None
    <3>1. poll' = Loaded(page', poll, dialog)
      BY <1>6, <2>3 DEF Show
    <3> QED
      BY <1>1, <1>2, <3>1, LoadedPolls DEF PollGoal
  <2> QED
    BY <2>1, <2>2, <2>3
<1>7. CASE Connect
  <2>1. poll' = Loaded(page', poll, dialog)
    BY <1>7 DEF Connect
  <2> QED
    BY <1>1, <1>2, <2>1, LoadedPolls DEF PollGoal
<1> QED
  BY <1>4, <1>5, <1>6, <1>7 DEF PageMoves

(* Every step of the page keeps its poll going.                             *)
LEMMA PollStep ==
  ASSUME AdministrationInv, [Next]_vars
  PROVE  PollGoal
<1>1. CASE PollUnchanged
  <2>1. page' = page /\ poll' = poll
    BY <1>1 DEF PollUnchanged, PanelServed, Retry, Open, PanelAnswered, Ask, Confirm, OperationServed,
                JobEnds, vars
  <2>2. page \in Pages /\ poll \in Polls /\ SeenIn(poll, poll)
    BY DEF AdministrationInv, TypeOK, Pages, Polls, SeenIn
  <2> QED
    BY <2>1, <2>2 DEF PollGoal
<1> QED
  BY <1>1, NextSplits, PollMovesStep, PageMovesStep

-----------------------------------------------------------------------------
(* The panels through every step. *)

PanelsGoal ==
  /\ panels' \in [Panels -> PanelStates] /\ known' \in [Panels -> Nat]
  /\ PanelsFresh'

(* The acts on one panel.                                                   *)
LEMMA PanelStep ==
  ASSUME AdministrationInv, NEW p \in Panels, NEW yes \in BOOLEAN,
         PanelServed(p) \/ Retry(p) \/ Open(p, yes) \/ PanelAnswered(p, yes)
  PROVE  PanelsGoal
<1>1. /\ known' = known /\ catalogue' = catalogue
      /\ known \in [Panels -> Nat] /\ catalogue \in Nat /\ panels \in [Panels -> PanelStates]
      /\ \A r \in Panels : PanelFresh(panels[r], known[r], catalogue)
  BY DEF PanelServed, Retry, Open, PanelAnswered, outside, AdministrationInv, TypeOK, PanelsFresh
<1>2. panels[p] \in PanelStates /\ PanelFresh(panels[p], known[p], catalogue)
  BY <1>1
<1>3. \E s \in PanelStates : /\ panels' = [panels EXCEPT ![p] = s]
                             /\ PanelFresh(s, known[p], catalogue)
  <2>1. ASSUME NEW s \in PanelStates, PanelFresh(s, known[p], catalogue)
        PROVE  Loading(s) \in PanelStates /\ PanelFresh(Loading(s), known[p], catalogue)
    <3>1. [version |-> None] \in [version : Nat \cup {None}]
      OBVIOUS
    <3>2. /\ Loading(s) \in PanelStates /\ Loading(s).data = s.data
          /\ Loading(s).request.version = None
      BY <3>1 DEF Loading, PanelStates
    <3> QED
      BY <2>1, <3>2 DEF PanelFresh
  <2>2. CASE PanelServed(p)
    <3> DEFINE request == [version |-> catalogue]
               s == [panels[p] EXCEPT !.request = request]
    <3>1. request \in [version : Nat \cup {None}] /\ request.version = catalogue
      BY <1>1
    <3>2. panels' = [panels EXCEPT ![p].request.version = catalogue]
          /\ panels[p].request \in [version : Nat \cup {None}]
      BY <1>2, <2>2 DEF PanelServed, PanelStates
    <3>3. [panels[p].request EXCEPT !.version = catalogue] = request
      BY <3>2
    <3>4. panels' = [panels EXCEPT ![p] = s]
      BY <1>1, <1>2, <3>2, <3>3 DEF PanelStates
    <3> HIDE DEF request
    <3>5. s \in PanelStates /\ s.request = request /\ s.data = panels[p].data
      BY <1>2, <3>1 DEF PanelStates
    <3>6. PanelFresh(s, known[p], catalogue)
      BY <1>1, <1>2, <3>1, <3>5 DEF PanelFresh
    <3> QED
      BY <3>4, <3>5, <3>6
  <2>3. CASE PanelAnswered(p, yes)
    <3> DEFINE shows == [panels[p] EXCEPT !.request = None, !.status = "idle", !.invalidated = FALSE,
                                          !.data = panels[p].request.version]
               fails == [panels[p] EXCEPT !.request = None, !.status = "error"]
    <3>1. /\ panels' = [panels EXCEPT ![p] = IF yes THEN shows ELSE fails]
          /\ panels[p].request # None /\ (yes => panels[p].request.version # None)
      BY <2>3 DEF PanelAnswered
    <3>2. panels[p].request.version \in Nat \cup {None}
      BY <1>2, <3>1 DEF PanelStates
    <3>3. /\ shows \in PanelStates /\ shows.request = None /\ shows.data = panels[p].request.version
          /\ fails \in PanelStates /\ fails.request = None /\ fails.data = panels[p].data
      BY <1>2, <3>2 DEF PanelStates
    <3> HIDE DEF shows, fails
    <3>4. (yes => PanelFresh(shows, known[p], catalogue)) /\ PanelFresh(fails, known[p], catalogue)
      BY <1>2, <3>1, <3>3 DEF PanelFresh
    <3> QED
      BY <3>1, <3>3, <3>4
  <2>4. CASE Retry(p)
    <3> DEFINE s == [panels[p] EXCEPT !.status = "idle"]
    <3>1. s \in PanelStates /\ s.request = panels[p].request /\ s.data = panels[p].data
      BY <1>2 DEF PanelStates
    <3>2. panels' = [panels EXCEPT ![p] = IF NeedsLoad(s) THEN Loading(s) ELSE s]
      BY <2>4 DEF Retry
    <3> HIDE DEF s
    <3>3. PanelFresh(s, known[p], catalogue)
      BY <1>2, <3>1 DEF PanelFresh
    <3> QED
      BY <2>1, <3>1, <3>2, <3>3
  <2>5. CASE Open(p, yes)
    <3> DEFINE status == IF yes /\ panels[p].status = "error" THEN "idle" ELSE panels[p].status
               s == [panels[p] EXCEPT !.open = yes, !.status = status]
    <3>1. status \in {"idle", "loading", "error"}
      BY <1>2 DEF PanelStates
    <3>2. panels' = [panels EXCEPT ![p] = IF yes /\ NeedsLoad(s) THEN Loading(s) ELSE s]
      BY <2>5 DEF Open
    <3> HIDE DEF status
    <3>3. s \in PanelStates /\ s.request = panels[p].request /\ s.data = panels[p].data
      BY <1>2, <3>1 DEF PanelStates
    <3> HIDE DEF s
    <3>4. PanelFresh(s, known[p], catalogue)
      BY <1>2, <3>3 DEF PanelFresh
    <3> QED
      BY <2>1, <3>2, <3>3, <3>4
  <2> QED
    BY <2>2, <2>3, <2>4, <2>5
<1> QED
  BY <1>1, <1>3 DEF PanelsGoal, PanelsFresh

(* The steps that concern all panels, or none.                              *)
LEMMA PanelsStep ==
  ASSUME AdministrationInv, [Next]_vars
  PROVE  PanelsGoal /\ catalogue' \in Nat /\ catalogue' >= catalogue
<1>1. /\ known \in [Panels -> Nat] /\ catalogue \in Nat /\ panels \in [Panels -> PanelStates]
      /\ \A r \in Panels : PanelFresh(panels[r], known[r], catalogue)
  BY DEF AdministrationInv, TypeOK, PanelsFresh
<1>2. catalogue' \in Nat /\ catalogue' >= catalogue
  <2>1. CASE UNCHANGED catalogue
    BY <1>1, <2>1
  <2>2. CASE OperationServed
    <3>1. catalogue' = catalogue + 1 \/ UNCHANGED catalogue
      BY <2>2 DEF OperationServed, outside
    <3> QED
      BY <1>1, <3>1
  <2>3. ASSUME NEW j \in 1 .. MaxJobs, NEW status, JobEnds(j, status)
        PROVE  catalogue' \in Nat /\ catalogue' >= catalogue
    BY <1>1, <2>3 DEF JobEnds
  <2> QED
    BY <2>1, <2>2, <2>3
       DEF Next, vars, PanelServed, Retry, Open, PanelAnswered, TimerFires, LoadMore, MoreAnswered,
           PageAnswered, IssuesAwaited, JobsServed, JobsAnswered, LoadEnds, Ask, Confirm,
           OperationAnswered, Hide, Show, Disconnect, Connect, outside
<1>3. CASE \E p \in Panels, yes \in BOOLEAN :
             PanelServed(p) \/ Retry(p) \/ Open(p, yes) \/ PanelAnswered(p, yes)
  BY <1>2, <1>3, PanelStep
<1>4. ASSUME known' = known, panels' \in {panels, Started(panels), AbortedLoads(panels)}
      PROVE  PanelsGoal
  <2>1. \A p \in Panels : PanelFresh(panels'[p], known[p], catalogue) /\ panels' \in [Panels -> PanelStates]
    BY <1>1, <1>4, PanelMaps
  <2>2. \A p \in Panels : PanelFresh(panels'[p], known[p], catalogue')
    <3> SUFFICES ASSUME NEW p \in Panels PROVE PanelFresh(panels'[p], known[p], catalogue')
      OBVIOUS
    <3>1. /\ panels'[p] \in PanelStates /\ known[p] \in Nat
          /\ panels'[p].request # None => panels'[p].request.version \in Nat \cup {None}
      BY <1>1, <2>1 DEF PanelStates
    <3> QED
      BY <1>1, <1>2, <2>1, <3>1 DEF PanelFresh
  <2>3. panels' \in [Panels -> PanelStates]
    BY <1>1, <1>4, PanelMaps
  <2> QED
    BY <1>1, <1>2, <1>4, <2>2, <2>3 DEF PanelsGoal, PanelsFresh
<1>5. ASSUME NEW names, NEW version \in Nat,
             version <= catalogue, catalogue' = catalogue, Told(names, version),
             panels' \in {Invalidated(panels, names), Started(Invalidated(panels, names))}
      PROVE  PanelsGoal
  <2>2. /\ known' \in [Panels -> Nat]
        /\ Invalidated(panels, names) \in [Panels -> PanelStates]
        /\ \A p \in Panels : PanelFresh(Invalidated(panels, names)[p], known'[p], catalogue)
    BY <1>5, ToldPanels
  <2>3. panels' \in [Panels -> PanelStates] /\ \A p \in Panels : PanelFresh(panels'[p], known'[p], catalogue)
    BY <1>1, <1>5, <2>2, PanelMaps
  <2> QED
    BY <1>2, <1>5, <2>2, <2>3 DEF PanelsGoal, PanelsFresh
<1>6. CASE JobsAnswered
  <2> DEFINE row == poll.load.seen.row
  <2>1. row.version \in Nat /\ row.version <= catalogue
    BY <1>6 DEF JobsAnswered, AdministrationInv, TypeOK, AnswersArePast, Loads, JobRows
  <2>2. catalogue' = catalogue
    BY <1>6 DEF JobsAnswered, outside
  <2>3. \/ panels' = panels /\ known' = known
        \/ /\ Told(submitted.panels, row.version)
           /\ panels' \in {Invalidated(panels, submitted.panels), Started(Invalidated(panels, submitted.panels))}
    BY <1>6 DEF JobsAnswered
  <2> HIDE DEF row
  <2>4. CASE panels' = panels /\ known' = known
    BY <1>2, <1>4, <2>4
  <2>5. CASE /\ Told(submitted.panels, row.version)
             /\ panels' \in {Invalidated(panels, submitted.panels), Started(Invalidated(panels, submitted.panels))}
    BY <1>2, <1>5, <2>1, <2>2, <2>5
  <2> QED
    BY <2>3, <2>4, <2>5
<1>7. ASSUME NEW yes \in BOOLEAN, OperationAnswered(yes)
      PROVE  PanelsGoal
  <2>1. catalogue' = catalogue
    BY <1>7 DEF OperationAnswered, outside
  <2>2. \/ panels' = panels /\ known' = known
        \/ \E names : /\ operation # None /\ operation.answer # None
                      /\ Told(names, operation.answer.version)
                      /\ panels' = Invalidated(panels, names)
    BY <1>7 DEF OperationAnswered
  <2>3. operation # None /\ operation.answer # None =>
          operation.answer.version \in Nat /\ operation.answer.version <= catalogue
    BY DEF AdministrationInv, TypeOK, AnswersArePast
  <2> QED
    BY <1>4, <1>5, <2>1, <2>2, <2>3
<1>8. CASE \/ TimerFires \/ LoadMore \/ MoreAnswered \/ PageAnswered \/ IssuesAwaited
           \/ JobsServed \/ LoadEnds \/ OperationServed
           \/ \E kind \in Kinds : Ask(kind)
           \/ \E yes \in BOOLEAN : Confirm(yes)
           \/ \E j \in 1 .. MaxJobs, status \in {"completed", "failed"} : JobEnds(j, status)
           \/ Hide \/ Show \/ Disconnect \/ Connect \/ UNCHANGED vars
  <2>1. known' = known /\ panels' \in {panels, Started(panels), AbortedLoads(panels)}
    BY <1>8 DEF TimerFires, LoadMore, MoreAnswered, PageAnswered, IssuesAwaited, JobsServed, LoadEnds,
                OperationServed, Ask, Confirm, JobEnds, Hide, Show, Disconnect, Connect, vars
  <2> QED
    BY <1>2, <1>4, <2>1
<1> QED
  BY <1>2, <1>3, <1>6, <1>7, <1>8 DEF Next

-----------------------------------------------------------------------------
(* Operations and jobs through every step. *)

OperationIsPast(o, c) ==
  o # None /\ o.answer # None =>
    /\ o.answer.version <= c
    /\ o.kind \in {"repair", "fetch"} => o.job \in 1 .. MaxJobs

OperationsGoal ==
  /\ dialog' \in Kinds \cup {None}
  /\ operation' \in Operations \cup {None}
  /\ jobs' \in [1 .. MaxJobs -> JobRows]
  /\ \A j \in 1 .. MaxJobs : jobs'[j].version <= catalogue'
  /\ OperationIsPast(operation', catalogue')
  /\ submitted' # None => submitted'.job \in 1 .. MaxJobs

(* An operation is answered with the catalogue it made, a job ends with the *)
(* catalogue it made.                                                       *)
LEMMA OperationsStep ==
  ASSUME AdministrationInv, [Next]_vars
  PROVE  OperationsGoal
<1>1. /\ dialog \in Kinds \cup {None} /\ operation \in Operations \cup {None}
      /\ jobs \in [1 .. MaxJobs -> JobRows] /\ catalogue \in Nat
      /\ \A j \in 1 .. MaxJobs : jobs[j].version <= catalogue
      /\ OperationIsPast(operation, catalogue)
      /\ submitted # None => submitted.job \in 1 .. MaxJobs
  BY DEF AdministrationInv, TypeOK, AnswersArePast, Operations, OperationIsPast
<1>2. CASE OperationServed
  <2>1. /\ UNCHANGED <<dialog, submitted>> /\ operation # None /\ operation \in Operations
        /\ operation.answer = None
    BY <1>1, <1>2 DEF OperationServed
  <2>2. ASSUME NEW version \in Nat
        PROVE  [version |-> version] \in [version : Nat] /\ [version |-> version].version = version
    OBVIOUS
  <2>3. CASE operation.kind = "root"
    <3> DEFINE answer == [version |-> catalogue + 1]
    <3>1. /\ catalogue' = catalogue + 1 /\ jobs' = jobs
          /\ operation' = [operation EXCEPT !.answer = answer]
      BY <1>2, <2>3 DEF OperationServed
    <3>2. answer \in [version : Nat] /\ answer.version = catalogue + 1
      BY <1>1, <2>2
    <3> HIDE DEF answer
    <3>3. operation' \in Operations /\ operation'.answer = answer /\ operation'.kind = "root"
      BY <2>1, <2>3, <3>1, <3>2 DEF Operations
    <3>4. \A j \in 1 .. MaxJobs : jobs'[j].version <= catalogue'
      BY <1>1, <3>1 DEF JobRows
    <3> QED
      BY <1>1, <2>1, <3>1, <3>2, <3>3, <3>4 DEF OperationsGoal, OperationIsPast
  <2>4. CASE operation.kind = "clear"
    <3> DEFINE answer == [version |-> catalogue]
    <3>1. catalogue' = catalogue /\ jobs' = jobs /\ operation' = [operation EXCEPT !.answer = answer]
      BY <1>2, <2>4 DEF OperationServed, outside
    <3>2. answer \in [version : Nat] /\ answer.version = catalogue
      BY <1>1, <2>2
    <3> HIDE DEF answer
    <3>3. operation' \in Operations /\ operation'.answer = answer /\ operation'.kind = "clear"
      BY <2>1, <2>4, <3>1, <3>2 DEF Operations
    <3> QED
      BY <1>1, <2>1, <3>1, <3>2, <3>3 DEF OperationsGoal, OperationIsPast
  <2>5. CASE operation.kind \notin {"root", "clear"}
    <3> DEFINE answer == [version |-> catalogue]
    <3>1. PICK j \in FreeJobs :
            /\ jobs' = [jobs EXCEPT ![j] = [status |-> "active", kind |-> operation.kind, version |-> 0]]
            /\ operation' = [operation EXCEPT !.job = j, !.answer = answer]
            /\ catalogue' = catalogue
      BY <1>2, <2>5 DEF OperationServed
    <3>2. answer \in [version : Nat] /\ answer.version = catalogue /\ j \in 1 .. MaxJobs
      BY <1>1, <2>2 DEF FreeJobs
    <3>3. /\ [status |-> "active", kind |-> operation.kind, version |-> 0] \in JobRows
          /\ [status |-> "active", kind |-> operation.kind, version |-> 0].version = 0
      BY <2>1 DEF JobRows, Operations
    <3> HIDE DEF answer
    <3>4. operation' \in Operations /\ operation'.answer = answer /\ operation'.job = j
      BY <2>1, <3>1, <3>2 DEF Operations
    <3>5. jobs' \in [1 .. MaxJobs -> JobRows] /\ \A i \in 1 .. MaxJobs : jobs'[i].version <= catalogue'
      <4> DEFINE row == [status |-> "active", kind |-> operation.kind, version |-> 0]
      <4>1. jobs' = [jobs EXCEPT ![j] = row] /\ row \in JobRows /\ row.version = 0
        BY <3>1, <3>3
      <4> HIDE DEF row
      <4>2. \A i \in 1 .. MaxJobs : jobs'[i].version \in {0, jobs[i].version}
        BY <1>1, <4>1
      <4>3. jobs' \in [1 .. MaxJobs -> JobRows]
        BY <1>1, <4>1
      <4>4. ASSUME NEW i \in 1 .. MaxJobs PROVE jobs'[i].version <= catalogue'
        BY <1>1, <3>1, <4>2
      <4> QED
        BY <4>3, <4>4
    <3> QED
      BY <1>1, <2>1, <3>1, <3>2, <3>4, <3>5 DEF OperationsGoal, OperationIsPast
  <2> QED
    BY <2>3, <2>4, <2>5
<1>3. ASSUME NEW j \in 1 .. MaxJobs, NEW status \in {"completed", "failed"}, JobEnds(j, status)
      PROVE  OperationsGoal
  <2>1. /\ UNCHANGED <<dialog, operation, submitted>>
        /\ jobs' = [jobs EXCEPT ![j].status = status, ![j].version = catalogue']
        /\ catalogue' \in {catalogue, catalogue + 1}
    BY <1>3 DEF JobEnds
  <2>2. catalogue' \in Nat /\ catalogue' >= catalogue
    BY <1>1, <2>1
  <2> DEFINE row == [jobs[j] EXCEPT !.status = status, !.version = catalogue']
  <2>3. row \in JobRows /\ row.version = catalogue' /\ jobs' = [jobs EXCEPT ![j] = row]
    BY <1>1, <2>1, <2>2 DEF JobRows
  <2> HIDE DEF row
  <2>4. jobs' \in [1 .. MaxJobs -> JobRows]
    BY <1>1, <2>3
  <2>5. \A i \in 1 .. MaxJobs : jobs'[i].version <= catalogue'
    <3> SUFFICES ASSUME NEW i \in 1 .. MaxJobs PROVE jobs'[i].version <= catalogue'
      OBVIOUS
    <3>1. jobs[i].version \in Nat /\ jobs[i].version <= catalogue
      BY <1>1 DEF JobRows
    <3>2. jobs'[i] = IF i = j THEN row ELSE jobs[i]
      BY <1>1, <2>3
    <3> QED
      BY <1>1, <2>2, <2>3, <3>1, <3>2
  <2>6. OperationIsPast(operation', catalogue')
    <3>1. operation # None /\ operation.answer # None => operation.answer.version \in Nat
      BY <1>1 DEF Operations
    <3> QED
      BY <1>1, <2>1, <2>2, <3>1 DEF OperationIsPast
  <2> QED
    BY <1>1, <2>1, <2>4, <2>5, <2>6 DEF OperationsGoal
<1>4. ASSUME NEW yes \in BOOLEAN, OperationAnswered(yes)
      PROVE  OperationsGoal
  <2>1. /\ operation' = None /\ UNCHANGED <<dialog, jobs, catalogue>>
    BY <1>4 DEF OperationAnswered, outside
  <2>2. submitted' # None => submitted'.job \in 1 .. MaxJobs
    <3>1. \/ submitted' \in {submitted, None}
          \/ /\ operation # None /\ operation.answer # None /\ operation.kind \notin {"clear", "root"}
             /\ submitted'.job = operation.job
      BY <1>4 DEF OperationAnswered
    <3>2. operation # None => operation.kind \in Kinds
      BY <1>1 DEF Operations
    <3> QED
      BY <1>1, <3>1, <3>2 DEF OperationIsPast, Kinds
  <2> QED
    BY <1>1, <2>1, <2>2 DEF OperationsGoal, OperationIsPast
<1>5. ASSUME NEW yes \in BOOLEAN, Confirm(yes)
      PROVE  OperationsGoal
  <2> DEFINE job == IF dialog = "clear" /\ submitted # None THEN submitted.job ELSE None
             asked == [kind |-> dialog, answer |-> None, job |-> job]
  <2>1. /\ dialog # None /\ dialog' = None /\ UNCHANGED <<submitted, jobs, catalogue>>
        /\ operation' = IF yes THEN asked ELSE operation
    BY <1>5 DEF Confirm, outside
  <2>2. job \in 1 .. MaxJobs \cup {None}
    BY <1>1
  <2> HIDE DEF job
  <2>3. asked \in Operations /\ asked.answer = None
    BY <1>1, <2>1, <2>2 DEF Operations
  <2> HIDE DEF asked
  <2> QED
    BY <1>1, <2>1, <2>3 DEF OperationsGoal, OperationIsPast
<1>6. CASE UNCHANGED <<operation, jobs, catalogue>>
  <2>1. dialog' \in {dialog, None} \cup Kinds /\ submitted' \in {submitted, None}
    BY <1>4, <1>5, <1>6 DEF Next, vars, PanelServed, Retry, Open, PanelAnswered, TimerFires, LoadMore,
       MoreAnswered, PageAnswered, IssuesAwaited, JobsServed, JobsAnswered, LoadEnds, Ask, Confirm,
       OperationServed, OperationAnswered, JobEnds, Hide, Show, Disconnect, Connect
  <2> QED
    BY <1>1, <1>6, <2>1 DEF OperationsGoal
<1> QED
  BY <1>2, <1>3, <1>4, <1>5, <1>6
     DEF Next, vars, PanelServed, Retry, Open, PanelAnswered, TimerFires, LoadMore, MoreAnswered,
         PageAnswered, IssuesAwaited, JobsServed, JobsAnswered, LoadEnds, Ask, Hide, Show,
         Disconnect, Connect, outside

-----------------------------------------------------------------------------
(* All that was said of the page, kept by every step.                       *)
LEMMA AdministrationInvStep == AdministrationInv /\ [Next]_vars => AdministrationInv'
<1> SUFFICES ASSUME AdministrationInv, [Next]_vars PROVE AdministrationInv'
  OBVIOUS
<1>1. PollGoal /\ PanelsGoal /\ OperationsGoal /\ catalogue' \in Nat /\ catalogue' >= catalogue
  BY PollStep, PanelsStep, OperationsStep
<1>2. TypeOK'
  BY <1>1 DEF PollGoal, PanelsGoal, OperationsGoal, TypeOK, Pages, Polls, Operations
<1>3. PanelsFresh'
  BY <1>1 DEF PanelsGoal
<1>4. poll'.load # None /\ poll'.load.seen # None => poll'.load.seen.row.version <= catalogue'
  <2>1. poll.load # None /\ poll.load.seen # None =>
          poll.load.seen.row.version \in Nat /\ poll.load.seen.row.version <= catalogue
    BY DEF AdministrationInv, TypeOK, AnswersArePast, Loads, JobRows
  <2>2. catalogue \in Nat
    BY DEF AdministrationInv, TypeOK
  <2> QED
    BY <1>1, <2>1, <2>2 DEF PollGoal, SeenIn
<1>5. AnswersArePast'
  BY <1>1, <1>4 DEF AnswersArePast, OperationsGoal, OperationIsPast
<1> QED
  BY <1>2, <1>3, <1>5 DEF AdministrationInv

(* The page opens with nothing loaded.                                      *)
LEMMA AdministrationInvInit ==
  Init => AdministrationInv /\ (Watching(page) => KeepsPolling(poll))
<1> SUFFICES ASSUME Init PROVE AdministrationInv /\ (Watching(page) => KeepsPolling(poll))
  OBVIOUS
<1> DEFINE idle == [load |-> None, pending |-> FALSE, timer |-> FALSE]
<1>1. page \in Pages /\ idle \in Polls /\ idle.load = None /\ poll = Loaded(page, idle, None)
  BY DEF Init, Pages, Polls
<1> HIDE DEF idle
<1>2. /\ poll \in Polls /\ ~(poll.load # None /\ poll.load.seen # None)
      /\ Watching(page) => KeepsPolling(poll)
  BY <1>1, LoadedPolls DEF SeenIn
<1>3. /\ panels \in [Panels -> PanelStates]
      /\ \A p \in Panels : panels[p].request = None /\ panels[p].data = None
  BY DEF Init, PanelStates
<1>4. /\ jobs \in [1 .. MaxJobs -> JobRows] /\ \A j \in 1 .. MaxJobs : jobs[j].version = 0
      /\ catalogue = 0 /\ known \in [Panels -> Nat] /\ \A p \in Panels : known[p] = 0
      /\ dialog = None /\ operation = None /\ submitted = None
  BY DEF Init, JobRows
<1>5. TypeOK
  BY <1>1, <1>2, <1>3, <1>4 DEF TypeOK, Pages, Polls
<1>6. PanelsFresh
  <2> SUFFICES ASSUME NEW p \in Panels PROVE PanelFresh(panels[p], known[p], catalogue)
    BY DEF PanelsFresh
  <2>1. panels[p].request = None /\ panels[p].data = None /\ known[p] = 0 /\ catalogue = 0
    BY <1>3, <1>4
  <2> QED
    BY <2>1 DEF PanelFresh
<1>7. AnswersArePast
  BY <1>2, <1>4 DEF AnswersArePast
<1> QED
  BY <1>2, <1>5, <1>6, <1>7 DEF AdministrationInv

(* The page never shows issues older than a change it was told of, for any  *)
(* panels, any number of acts and jobs.                                     *)
THEOREM IssuesAlwaysFresh == Spec => []IssuesAreFresh
<1>1. AdministrationInv => IssuesAreFresh
  <2> SUFFICES ASSUME AdministrationInv, NEW p \in Panels, panels[p].data # None
               PROVE  panels[p].data >= known[p]
    BY DEF IssuesAreFresh
  <2>1. panels[p].data \in Nat /\ known[p] \in Nat /\ known[p] <= panels[p].data
    BY DEF AdministrationInv, TypeOK, PanelStates, PanelsFresh, PanelFresh
  <2> QED
    BY <2>1
<1> QED
  BY <1>1, AdministrationInvInit, AdministrationInvStep, PTL DEF Spec

(* A visible page never stops polling: a load is on its way or a timer will *)
(* start one.  A load of more rows, which does not start the timer when it  *)
(* ends, is on its way only while the timer runs or a load waits for it.    *)
THEOREM PollingAlwaysGoesOn == Spec => []PollingGoesOn
<1> DEFINE Inv == AdministrationInv /\ (Watching(page) => KeepsPolling(poll))
<1>1. Init => Inv
  BY AdministrationInvInit
<1>2. Inv /\ [Next]_vars => Inv'
  BY AdministrationInvStep, PollStep DEF PollGoal, KeepsPolling, Watching
<1>3. Inv => PollingGoesOn
  BY DEF KeepsPolling, PollingGoesOn
<1> QED
  BY <1>1, <1>2, <1>3, PTL DEF Spec
=============================================================================
