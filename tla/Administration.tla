--------------------------- MODULE Administration ---------------------------
(***************************************************************************)
(* The administration page (KanvasAdministration in                        *)
(* kanvas-administration.js): it polls its section while it is visible,    *)
(* one load at a time, loads the issue panels of the library section when  *)
(* they are opened, submits operations after a confirmation, follows the   *)
(* job that an operation queued, and drops what the panels show when an    *)
(* operation or its job has changed the catalogue.                         *)
(*                                                                         *)
(* What the sections show is left out, and so are the metadata review, the *)
(* manual merge and the dialog of library roots.  A version of the         *)
(* catalogue stands for its issues.  Bound: one operation on its way.      *)
(***************************************************************************)
EXTENDS Naturals

CONSTANTS Panels,      \* the panels that any change concerns
          RootPanels,  \* those that an edited library root concerns
          MaxActs,     \* bound: acts of the administrator and the page
          MaxJobs,     \* bound: jobs
          None

VARIABLES
  section, page,
  poll,       \* the load on its way, reloadPending, the timer
  panels,
  dialog,     \* the operation that waits for its confirmation
  operation,  \* the operation on its way
  submitted,  \* the job that is followed, and the panels it concerns
  jobs, catalogue,
  known,      \* for each panel the last change the page was told of
  acts        \* counts what MaxActs bounds

vars == <<section, page, poll, panels, dialog, operation, submitted, jobs, catalogue, known, acts>>
outside == <<jobs, catalogue>>

Watching(p) == p.connected /\ p.visible
Later(a, b) == IF a > b THEN a ELSE b

-----------------------------------------------------------------------------
(* Issue panels. *)

NeedsLoad(s) ==
  s.data = None /\ s.status = "idle" /\ s.request = None /\ (s.open \/ s.invalidated)

Loading(s) == [s EXCEPT !.status = "loading", !.request = [version |-> None]]

Started(ps) == [p \in Panels |-> IF NeedsLoad(ps[p]) THEN Loading(ps[p]) ELSE ps[p]]
ToLoad(ps) == {p \in Panels : NeedsLoad(ps[p])}

AbortedLoads(ps) ==
  [p \in Panels |-> [ps[p] EXCEPT !.request = None,
                                  !.status = IF @ = "loading" THEN "idle" ELSE @]]

InvalidatedButLoading(ps, names) ==
  [p \in Panels |-> IF p \in names
                    THEN [ps[p] EXCEPT !.status = IF @ = "loading" THEN @ ELSE "idle",
                                       !.invalidated = TRUE, !.data = None]
                    ELSE ps[p]]

\* What was being loaded may be older than the change.
Invalidated(ps, names) ==
  [p \in Panels |-> IF p \in names
                    THEN [ps[p] EXCEPT !.request = None, !.status = "idle",
                                       !.invalidated = TRUE, !.data = None]
                    ELSE ps[p]]

Act == acts < MaxActs /\ acts' = acts + 1

Open(p, open) ==
  /\ Act /\ section = "libraries" /\ Watching(page) /\ dialog = None /\ panels[p].open # open
  /\ LET s == [panels[p] EXCEPT !.open = open,
                                !.status = IF open /\ @ = "error" THEN "idle" ELSE @]
     IN  panels' = [panels EXCEPT ![p] = IF open /\ NeedsLoad(s) THEN Loading(s) ELSE s]
  /\ UNCHANGED <<section, page, poll, dialog, operation, submitted, outside, known>>

Retry(p) ==
  /\ Act /\ Watching(page) /\ dialog = None /\ panels[p].status = "error"
  /\ LET s == [panels[p] EXCEPT !.status = "idle"]
     IN  panels' = [panels EXCEPT ![p] = IF NeedsLoad(s) THEN Loading(s) ELSE s]
  /\ UNCHANGED <<section, page, poll, dialog, operation, submitted, outside, known>>

PanelServed(p) ==
  /\ panels[p].request # None /\ panels[p].request.version = None
  /\ panels' = [panels EXCEPT ![p].request.version = catalogue]
  /\ UNCHANGED <<section, page, poll, dialog, operation, submitted, outside, known, acts>>

PanelAnswered(p, delivered) ==
  /\ panels[p].request # None
  /\ delivered => panels[p].request.version # None
  /\ panels' = [panels EXCEPT ![p] =
       IF delivered
       THEN [@ EXCEPT !.request = None, !.status = "idle", !.invalidated = FALSE, !.data = panels[p].request.version]
       ELSE [@ EXCEPT !.request = None, !.status = "error"]]
  /\ UNCHANGED <<section, page, poll, dialog, operation, submitted, outside, known, acts>>

-----------------------------------------------------------------------------
(* load and its timer. *)

NewLoad == [kind |-> "load", step |-> "page", aborted |-> FALSE, waits |-> {}, seen |-> None]

\* A reload that finds a load on its way aborts it; loadMore cannot be aborted.
Loaded(p, q, d) ==
  CASE ~Watching(p) -> q
    [] Watching(p) /\ q.load # None ->
         [q EXCEPT !.pending = TRUE, !.load.aborted = (q.load.kind = "load")]
    [] Watching(p) /\ q.load = None /\ d # None -> [q EXCEPT !.timer = TRUE]
    [] OTHER -> [q EXCEPT !.load = NewLoad]

Ended(p, q, d) ==
  LET done == [q EXCEPT !.load = None]
  IN  CASE ~Watching(p) -> done
        [] Watching(p) /\ q.pending -> Loaded(p, [done EXCEPT !.pending = FALSE], d)
        [] OTHER -> [done EXCEPT !.timer = TRUE]

\* loadMore leaves the timer alone.
MoreEnded(p, q, d) ==
  LET done == [q EXCEPT !.load = None]
  IN  IF q.pending /\ Watching(p) THEN Loaded(p, [done EXCEPT !.pending = FALSE], d) ELSE done

TimerFires ==
  /\ poll.timer
  /\ poll' = Loaded(page, [poll EXCEPT !.timer = FALSE], dialog)
  /\ UNCHANGED <<section, page, panels, dialog, operation, submitted, outside, known, acts>>

LoadMore ==
  /\ Act /\ section = "jobs" /\ Watching(page) /\ dialog = None
  /\ poll.load = None
  /\ poll' = [poll EXCEPT !.load = [NewLoad EXCEPT !.kind = "more"]]
  /\ UNCHANGED <<section, page, panels, dialog, operation, submitted, outside, known>>

MoreAnswered ==
  /\ poll.load # None /\ poll.load.kind = "more"
  /\ poll' = MoreEnded(page, poll, dialog)
  /\ UNCHANGED <<section, page, panels, dialog, operation, submitted, outside, known, acts>>

\* The page of the section, and the issues that are wanted.
PageAnswered ==
  /\ poll.load # None /\ poll.load.kind = "load" /\ poll.load.step = "page"
  /\ ~poll.load.aborted /\ page.connected
  /\ LET wanted == IF section = "libraries" THEN ToLoad(panels) ELSE {}
     IN  /\ panels' = IF wanted = {} THEN panels ELSE Started(panels)
         /\ poll' = [poll EXCEPT !.load.step = "issues", !.load.waits = wanted]
  /\ UNCHANGED <<section, page, dialog, operation, submitted, outside, known, acts>>

Awaited == {p \in poll.load.waits : panels[p].request # None}

IssuesAwaited ==
  /\ poll.load # None /\ poll.load.step = "issues" /\ ~poll.load.aborted /\ page.connected
  /\ Awaited = {} /\ submitted # None
  /\ poll' = [poll EXCEPT !.load.step = "jobs"]
  /\ UNCHANGED <<section, page, panels, dialog, operation, submitted, outside, known, acts>>

JobsServed ==
  /\ poll.load # None /\ poll.load.step = "jobs" /\ poll.load.seen = None
  /\ submitted # None
  /\ poll' = [poll EXCEPT !.load.seen = [job |-> submitted.job, row |-> jobs[submitted.job]]]
  /\ UNCHANGED <<section, page, panels, dialog, operation, submitted, outside, known, acts>>

Told(names, version) ==
  known' = [p \in Panels |-> IF p \in names THEN Later(known[p], version) ELSE known[p]]

\* checkSubmittedJob: a job that has ended is no longer followed.  (In the section
\* of jobs it is looked up in the page, which concerns no panel.)
JobsAnswered ==
  /\ poll.load # None /\ poll.load.seen # None /\ ~poll.load.aborted /\ page.connected
  /\ poll' = Ended(page, poll, dialog)
  /\ LET row == poll.load.seen.row
         ended == submitted # None /\ submitted.job = poll.load.seen.job /\ row.status # "active"
     IN  IF ended /\ row.status = "completed"
         THEN LET ps == Invalidated(panels, submitted.panels)
              IN  /\ panels' = IF section = "libraries" /\ Watching(page) THEN Started(ps) ELSE ps
                  /\ Told(submitted.panels, row.version)
                  /\ submitted' = None
         ELSE /\ submitted' = IF ended THEN None ELSE submitted
              /\ UNCHANGED <<panels, known>>
  /\ UNCHANGED <<section, page, dialog, operation, outside, acts>>

\* Nothing to follow, a failed request, or a load that was aborted.
LoadEnds ==
  /\ poll.load # None /\ poll.load.kind = "load"
  /\ \/ poll.load.step # "issues"
     \/ Awaited = {} /\ (submitted = None \/ poll.load.aborted \/ ~page.connected)
  /\ poll' = Ended(page, poll, dialog)
  /\ UNCHANGED <<section, page, panels, dialog, operation, submitted, outside, known, acts>>

-----------------------------------------------------------------------------
(* Operations. *)

Kinds == {"repair", "root", "fetch", "clear"}

\* LIBRARY_ISSUE_INVALIDATIONS.
Concerned(kind) ==
  CASE section # "libraries" -> {}
    [] section = "libraries" /\ kind = "repair" -> Panels
    [] section = "libraries" /\ kind = "root" -> RootPanels
    [] OTHER -> {}

Ask(kind) ==
  /\ Act /\ Watching(page) /\ dialog = None /\ operation = None
  /\ kind = "clear" => submitted # None
  /\ dialog' = kind
  /\ UNCHANGED <<section, page, poll, panels, operation, submitted, outside, known>>

Confirm(confirmed) ==
  /\ dialog # None
  /\ dialog' = None
  /\ operation' = IF confirmed
                  THEN [kind |-> dialog, answer |-> None,
                        job |-> IF dialog = "clear" /\ submitted # None THEN submitted.job ELSE None]
                  ELSE operation
  /\ UNCHANGED <<section, page, poll, panels, submitted, outside, known, acts>>

FreeJobs == {j \in 1 .. MaxJobs : jobs[j].status = "none"}

OperationServed ==
  /\ operation # None /\ operation.answer = None
  /\ CASE operation.kind = "root" ->
            /\ catalogue' = catalogue + 1
            /\ operation' = [operation EXCEPT !.answer = [version |-> catalogue + 1]]
            /\ UNCHANGED jobs
       [] operation.kind = "clear" ->
            operation' = [operation EXCEPT !.answer = [version |-> catalogue]] /\ UNCHANGED outside
       [] OTHER ->
            \E j \in FreeJobs :
              /\ jobs' = [jobs EXCEPT ![j] = [status |-> "active", kind |-> operation.kind, version |-> 0]]
              /\ operation' = [operation EXCEPT !.job = j, !.answer = [version |-> catalogue]]
              /\ UNCHANGED catalogue
  /\ UNCHANGED <<section, page, poll, panels, dialog, submitted, known, acts>>

JobEnds(j, status) ==
  /\ jobs[j].status = "active"
  /\ catalogue' = IF jobs[j].kind = "repair" /\ status = "completed" THEN catalogue + 1 ELSE catalogue
  /\ jobs' = [jobs EXCEPT ![j].status = status, ![j].version = catalogue']
  /\ UNCHANGED <<section, page, poll, panels, dialog, operation, submitted, known, acts>>

OperationAnswered(delivered) ==
  /\ operation # None
  /\ delivered => operation.answer # None
  /\ operation' = None
  /\ IF delivered
     THEN LET names == Concerned(operation.kind)
          IN  /\ poll' = Loaded(page, poll, dialog)
              /\ CASE operation.kind = "clear" ->
                        /\ submitted' = IF submitted # None /\ submitted.job = operation.job
                                        THEN None ELSE submitted
                        /\ UNCHANGED <<panels, known>>
                   [] operation.kind = "root" ->
                        /\ panels' = Invalidated(panels, names)
                        /\ Told(names, operation.answer.version)
                        /\ UNCHANGED submitted
                   [] OTHER ->
                        /\ submitted' = [job |-> operation.job, panels |-> names]
                        /\ UNCHANGED <<panels, known>>
     ELSE UNCHANGED <<poll, panels, submitted, known>>
  /\ UNCHANGED <<section, page, dialog, outside, acts>>

-----------------------------------------------------------------------------
(* The page. *)

AbortedLoad(load) ==
  IF load = None THEN None ELSE [load EXCEPT !.aborted = @ \/ load.kind = "load"]

Hide ==
  /\ Act /\ page.visible
  /\ page' = [page EXCEPT !.visible = FALSE]
  /\ IF page.connected
     THEN /\ poll' = [poll EXCEPT !.timer = FALSE, !.pending = FALSE,
                                  !.load = AbortedLoad(@)]
          /\ panels' = AbortedLoads(panels)
     ELSE UNCHANGED <<poll, panels>>
  /\ UNCHANGED <<section, dialog, operation, submitted, outside, known>>

Show ==
  /\ Act /\ ~page.visible
  /\ page' = [page EXCEPT !.visible = TRUE]
  /\ poll' = CASE ~page.connected -> poll
               [] page.connected /\ poll.load # None -> [poll EXCEPT !.pending = TRUE]
               [] OTHER -> Loaded(page', poll, dialog)
  /\ UNCHANGED <<section, panels, dialog, operation, submitted, outside, known>>

Disconnect ==
  /\ Act /\ page.connected
  /\ page' = [page EXCEPT !.connected = FALSE]
  /\ poll' = [timer |-> FALSE, pending |-> FALSE,
              load |-> AbortedLoad(poll.load)]
  /\ panels' = AbortedLoads(panels)
  /\ dialog' = None
  /\ UNCHANGED <<section, operation, submitted, outside, known>>

Connect ==
  /\ Act /\ ~page.connected
  /\ page' = [page EXCEPT !.connected = TRUE]
  /\ poll' = Loaded(page', poll, dialog)
  /\ UNCHANGED <<section, panels, dialog, operation, submitted, outside, known>>

-----------------------------------------------------------------------------
Init ==
  /\ section \in {"libraries", "jobs"}
  /\ page \in [connected : {TRUE}, visible : BOOLEAN]
  /\ poll = Loaded(page, [load |-> None, pending |-> FALSE, timer |-> FALSE], None)
  /\ panels = [p \in Panels |-> [open |-> FALSE, status |-> "idle", invalidated |-> FALSE,
                                 request |-> None, data |-> None]]
  /\ dialog = None /\ operation = None /\ submitted = None
  /\ jobs = [j \in 1 .. MaxJobs |-> [status |-> "none", kind |-> "none", version |-> 0]]
  /\ catalogue = 0 /\ known = [p \in Panels |-> 0]
  /\ acts = 0

Next ==
  \/ \E p \in Panels : PanelServed(p) \/ Retry(p) \/ \E yes \in BOOLEAN : Open(p, yes) \/ PanelAnswered(p, yes)
  \/ TimerFires \/ LoadMore \/ MoreAnswered \/ PageAnswered \/ IssuesAwaited
  \/ JobsServed \/ JobsAnswered \/ LoadEnds
  \/ \E kind \in Kinds : Ask(kind)
  \/ \E yes \in BOOLEAN : Confirm(yes) \/ OperationAnswered(yes)
  \/ OperationServed
  \/ \E j \in 1 .. MaxJobs, status \in {"completed", "failed"} : JobEnds(j, status)
  \/ Hide \/ Show \/ Disconnect \/ Connect

Spec == Init /\ [][Next]_vars

-----------------------------------------------------------------------------
JobRows == [status : {"none", "active", "completed", "failed"}, kind : Kinds \cup {"none"}, version : Nat]
Loads == [kind : {"load", "more"}, step : {"page", "issues", "jobs"}, aborted : BOOLEAN,
          waits : SUBSET Panels, seen : [job : 1 .. MaxJobs, row : JobRows] \cup {None}]
PanelStates == [open : BOOLEAN, status : {"idle", "loading", "error"}, invalidated : BOOLEAN,
                request : [version : Nat \cup {None}] \cup {None}, data : Nat \cup {None}]

ASSUME NoneIsNoLoad == None \notin Loads

\* The page's state between two handlers.
TypeOK ==
  /\ page \in [connected : BOOLEAN, visible : BOOLEAN]
  /\ poll \in [load : Loads \cup {None}, pending : BOOLEAN, timer : BOOLEAN]
  /\ panels \in [Panels -> PanelStates]
  /\ dialog \in Kinds \cup {None}
  /\ operation \in [kind : Kinds, answer : [version : Nat] \cup {None},
                    job : 1 .. MaxJobs \cup {None}] \cup {None}
  /\ jobs \in [1 .. MaxJobs -> JobRows]
  /\ catalogue \in Nat /\ known \in [Panels -> Nat]

\* The page never shows issues older than a change it was told of: not those of
\* a load that was on its way when the operation or its job was answered.
IssuesAreFresh ==
  \A p \in Panels : panels[p].data # None => panels[p].data >= known[p]

\* While the page is visible a load is on its way or a timer will start one,
\* whatever was hidden, confirmed, aborted or loaded in between.
PollingGoesOn == Watching(page) => poll.load # None \/ poll.timer
=============================================================================
