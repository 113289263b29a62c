---------------------------- MODULE SystemAlerts ----------------------------
(***************************************************************************)
(* The banner of system alerts (KanvasSystemAlerts in kanvas.js): it polls *)
(* its source while the page is visible and online, one request at a time, *)
(* and shows the feed that was answered, the browser's own offline alert,  *)
(* or that Kanvas cannot be reached.                                       *)
(*                                                                         *)
(* A feed stands for its alerts and its history.  The drawer and the       *)
(* redirect of a viewer who is signed out are left out.                    *)
(***************************************************************************)
EXTENDS Naturals

CONSTANTS Sources,     \* the sources the element is given
          Feeds,       \* what a source may answer
          MaxEvents,   \* bound: what happens to the page and to Kanvas
          None

VARIABLES
  page,    \* the element and the browser: connected, source, visible, online
  poll,    \* the request on its way, loadAgain, the timer
  shown,   \* the feed on the page
  ack,     \* the acknowledgement on its way
  server,  \* what each source has to say
  events   \* counts what MaxEvents bounds

vars == <<page, poll, shown, ack, server, events>>

Offline == "offline"
Unreachable == "unreachable"
Failing == "failing"
Calm == "calm"

Watching(p) == p.connected /\ p.source # None /\ p.visible /\ p.online

-----------------------------------------------------------------------------
(* load, and what its callers do before it. *)

Requested(source) == [source |-> source, aborted |-> FALSE, answer |-> None]

Loaded(p, q) ==
  CASE q.request # None -> [q EXCEPT !.again = TRUE]
    [] q.request = None /\ p.connected /\ p.visible /\ ~p.online -> [q EXCEPT !.timer = FALSE]
    [] q.request = None /\ Watching(p) -> [q EXCEPT !.request = Requested(p.source)]
    [] OTHER -> q

\* A load that finds the browser offline says so.
ShownByLoad(p, q) ==
  IF q.request = None /\ p.connected /\ p.visible /\ ~p.online THEN Offline ELSE shown

Aborted(q) == IF q.request = None THEN q ELSE [q EXCEPT !.request.aborted = TRUE]
Stopped(q) == [q EXCEPT !.timer = FALSE]

LoadFor(p, q) ==
  /\ page' = p
  /\ poll' = Loaded(p, q)
  /\ shown' = ShownByLoad(p, q)

Event == events < MaxEvents /\ events' = events + 1

Connect ==
  /\ Event /\ ~page.connected
  /\ LoadFor([page EXCEPT !.connected = TRUE], poll)
  /\ UNCHANGED <<ack, server>>

Disconnect ==
  /\ Event /\ page.connected
  /\ page' = [page EXCEPT !.connected = FALSE]
  /\ poll' = [Aborted(Stopped(poll)) EXCEPT !.again = FALSE]
  /\ UNCHANGED <<shown, ack, server>>

ChangeSource(source) ==
  /\ Event /\ source # page.source
  /\ LET p == [page EXCEPT !.source = source]
         q == Aborted(Stopped(poll))
     IN  CASE ~page.connected -> page' = p /\ UNCHANGED <<poll, shown>>
           [] page.connected /\ source = None ->
                page' = p /\ poll' = [q EXCEPT !.again = FALSE] /\ shown' = Calm
           [] OTHER -> LoadFor(p, q)
  /\ UNCHANGED <<ack, server>>

Hide ==
  /\ Event /\ page.visible
  /\ page' = [page EXCEPT !.visible = FALSE]
  /\ poll' = IF page.connected THEN Stopped(poll) ELSE poll
  /\ UNCHANGED <<shown, ack, server>>

Show ==
  /\ Event /\ ~page.visible
  /\ IF page.connected THEN LoadFor([page EXCEPT !.visible = TRUE], poll)
     ELSE page' = [page EXCEPT !.visible = TRUE] /\ UNCHANGED <<poll, shown>>
  /\ UNCHANGED <<ack, server>>

GoOffline ==
  /\ Event /\ page.online
  /\ page' = [page EXCEPT !.online = FALSE]
  /\ IF page.connected
     THEN poll' = [Stopped(Aborted(poll)) EXCEPT !.again = FALSE] /\ shown' = Offline
     ELSE UNCHANGED <<poll, shown>>
  /\ UNCHANGED <<ack, server>>

GoOnline ==
  /\ Event /\ ~page.online
  /\ IF page.connected THEN LoadFor([page EXCEPT !.online = TRUE], poll)
     ELSE page' = [page EXCEPT !.online = TRUE] /\ UNCHANGED <<poll, shown>>
  /\ UNCHANGED <<ack, server>>

\* Only the alerts of the page itself offer a retry.
Retry ==
  /\ Event /\ page.connected /\ shown \in {Offline, Unreachable}
  /\ LoadFor(page, Aborted(poll))
  /\ UNCHANGED <<ack, server>>

TimerFires ==
  /\ poll.timer
  /\ LoadFor(page, Stopped(poll))
  /\ UNCHANGED <<ack, server, events>>

-----------------------------------------------------------------------------
(* Requests end. *)

ServerChanges(source, feed) ==
  /\ Event /\ server[source] # feed
  /\ server' = [server EXCEPT ![source] = feed]
  /\ UNCHANGED <<page, poll, shown, ack>>

Served ==
  /\ poll.request # None /\ poll.request.answer = None
  /\ poll' = [poll EXCEPT !.request.answer = server[poll.request.source]]
  /\ UNCHANGED <<page, shown, ack, server, events>>

\* The feed a request leaves: an abort is silent before there is an answer, and
\* spoils the answer that is being read.
Applied(r) ==
  CASE ~(page.connected /\ page.source = r.source) -> shown
    [] r.aborted /\ r.answer = None -> shown
    [] r.aborted \/ r.answer = Failing -> IF page.online THEN Unreachable ELSE Offline
    [] OTHER -> r.answer

ScheduledAfterAnswer(p, q) == IF Watching(p) /\ q.request.answer # Failing THEN [q EXCEPT !.timer = TRUE] ELSE q

Scheduled(p, q) == [q EXCEPT !.timer = Watching(p)]

Settled ==
  LET done == [poll EXCEPT !.request = None, !.again = FALSE]
  IN  /\ poll.request # None
      /\ poll.request.answer # None \/ poll.request.aborted
      /\ shown' = Applied(poll.request)
      /\ poll' = IF poll.again /\ page.connected /\ page.visible /\ page.online
                 THEN Loaded(page, done)
                 ELSE [Scheduled(page, poll) EXCEPT !.request = None, !.again = FALSE]
      /\ UNCHANGED <<page, ack, server, events>>

\* One acknowledgement at a time stands for one for each incident.
Acknowledge ==
  /\ Event /\ ack = None /\ page.connected /\ shown \in Feeds \ {Calm}
  /\ ack' = shown
  /\ UNCHANGED <<page, poll, shown, server>>

\* The incident may be acknowledged, or gone, or the call fails: only the
\* failure does not load the feed.
Acknowledged(source, reached) ==
  /\ ack # None
  /\ ack' = None
  /\ IF reached
     THEN /\ LoadFor(page, poll)
          /\ server' = IF server[source] = ack THEN [server EXCEPT ![source] = Calm] ELSE server
     ELSE UNCHANGED <<page, poll, shown, server>>
  /\ UNCHANGED events

-----------------------------------------------------------------------------
Init ==
  /\ page \in [connected : {TRUE}, source : Sources, visible : BOOLEAN, online : BOOLEAN]
  /\ poll = Loaded(page, [request |-> None, again |-> FALSE, timer |-> FALSE])
  /\ shown = IF page.visible /\ ~page.online THEN Offline ELSE Calm
  /\ ack = None
  /\ server \in [Sources -> Feeds \cup {Failing}]
  /\ events = 0

Next ==
  \/ Connect \/ Disconnect \/ Hide \/ Show \/ GoOffline \/ GoOnline \/ Retry \/ TimerFires
  \/ \E source \in Sources \cup {None} : ChangeSource(source)
  \/ \E source \in Sources, feed \in Feeds \cup {Failing} : ServerChanges(source, feed)
  \/ Served \/ Settled \/ Acknowledge
  \/ \E source \in Sources, reached \in BOOLEAN : Acknowledged(source, reached)

\* Timers fire, and requests are answered or time out.
Fairness == WF_vars(TimerFires) /\ WF_vars(Served) /\ WF_vars(Settled)

Spec == Init /\ [][Next]_vars /\ Fairness

-----------------------------------------------------------------------------
Requests == [source : Sources, aborted : BOOLEAN, answer : Feeds \cup {Failing, None}]

TypeOK ==
  /\ page \in [connected : BOOLEAN, source : Sources \cup {None}, visible : BOOLEAN, online : BOOLEAN]
  /\ poll \in [request : Requests \cup {None}, again : BOOLEAN, timer : BOOLEAN]
  /\ shown \in Feeds \cup {Offline, Unreachable}
  /\ server \in [Sources -> Feeds \cup {Failing}]

\* While the page is watched and Kanvas has the same to say, the page comes to
\* show it and keeps showing it: an outage appears, and goes away.
AlertsSettle ==
  \A feed \in Feeds \cup {Failing} :
    <>[](Watching(page) /\ server[page.source] = feed)
      => <>[](shown = IF feed = Failing THEN Unreachable ELSE feed)
=============================================================================
