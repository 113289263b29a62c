---------------------------- MODULE MCLivePages -----------------------------
(***************************************************************************)
(* Four parts of the browser that share no state here and load, poll or    *)
(* report by themselves: the player (BrowserPlayer), the library grid      *)
(* (LibraryGrid), the alerts (SystemAlerts) and the notifications          *)
(* (Toasts).  A behaviour exercises one of them, under the fairness of its *)
(* own module.                                                             *)
(***************************************************************************)
EXTENDS BrowserPlayer

CONSTANTS Last, GridSources, Unshown, PageSize, Cap, MaxVisits, MaxEdits,
          AlertSources, Feeds, MaxEvents,
          Notices, Errors, MaxVisible, MaxActions

VARIABLES
  part,
  catalogue, touched, source, attribute, pages, loading, retry, dropped, frame,
  generation, fetches, stored,
  page, poll, feed, ack, server, events,
  connected, visible, timers, consume, notices, failed, actions

MCResumes == {0, 1}
Matching == [s \in GridSources |-> {p \in 1 .. Last : s = "all" \/ p % 2 = 0}]

Grid == INSTANCE LibraryGrid
  WITH Sources <- GridSources, Matches <- Matching, requests <- fetches
Alerts == INSTANCE SystemAlerts WITH Sources <- AlertSources, shown <- feed
Notify == INSTANCE Toasts WITH queue <- notices

ASSUME LiveAssumption ==
  /\ Last \in Nat /\ PageSize \in Nat \ {0} /\ Cap \in Nat
  /\ None \notin Grid!Directions

playerVars == <<shown, delivery, video, seeking, requests, audio, recoveries, reports,
                queue, screen, flushed, disturbances, serverEntry>>
gridVars == <<catalogue, touched, source, attribute, pages, loading, retry, dropped, frame,
              generation, fetches, stored>>
alertVars == <<page, poll, feed, ack, server, events>>
toastVars == <<connected, visible, timers, consume, notices, failed, actions>>
liveVars == <<part, playerVars, gridVars, alertVars, toastVars>>

\* The player as it starts at one of the positions.
NoPlayer == Init /\ shown.resume = 0

NoGrid ==
  /\ catalogue = None /\ touched = None /\ source = None /\ attribute = None
  /\ pages = None /\ loading = None /\ retry = None /\ dropped = None /\ frame = None
  /\ generation = None /\ fetches = None /\ stored = None

NoAlerts ==
  /\ page = None /\ poll = None /\ feed = None /\ ack = None /\ server = None /\ events = None

NoToasts ==
  /\ connected = None /\ visible = None /\ timers = None /\ consume = None
  /\ notices = None /\ failed = None /\ actions = None

LiveInit ==
  \/ part = "player" /\ Init /\ NoGrid /\ NoAlerts /\ NoToasts
  \/ part = "grid" /\ Grid!Init /\ NoPlayer /\ NoAlerts /\ NoToasts
  \/ part = "alerts" /\ Alerts!Init /\ NoPlayer /\ NoGrid /\ NoToasts
  \/ part = "toasts" /\ Notify!Init /\ NoPlayer /\ NoGrid /\ NoAlerts

LiveNext ==
  /\ UNCHANGED part
  /\ \/ part = "player" /\ Next /\ UNCHANGED <<gridVars, alertVars, toastVars>>
     \/ part = "grid" /\ Grid!Next /\ UNCHANGED <<playerVars, alertVars, toastVars>>
     \/ part = "alerts" /\ Alerts!Next /\ UNCHANGED <<playerVars, gridVars, toastVars>>
     \/ part = "toasts" /\ Notify!Next /\ UNCHANGED <<playerVars, gridVars, alertVars>>

LiveFairness ==
  /\ \A kind \in Kinds : WF_playerVars(part = "player" /\ DeliveryAnswered(kind))
  /\ WF_playerVars(part = "player" /\ CompletionAnswered)
  /\ WF_playerVars(part = "player" /\ Report)
  /\ WF_gridVars(part = "grid" /\ Grid!Answer)
  /\ WF_gridVars(part = "grid" /\ Grid!FrameFires)
  /\ WF_alertVars(part = "alerts" /\ Alerts!TimerFires)
  /\ WF_alertVars(part = "alerts" /\ Alerts!Served)
  /\ WF_alertVars(part = "alerts" /\ Alerts!Settled)

LiveSpec == LiveInit /\ [][LiveNext]_liveVars /\ LiveFairness

-----------------------------------------------------------------------------
\* The mounted pages are a piece of the catalogue of the source that is shown,
\* whatever was evicted, restored, answered late or empty; only the answer to a
\* request whose page was evicted meanwhile may leave posters out (LibraryGrid).
MountedIsSegment == [][part = "grid" => Grid!SegmentStep]_liveVars

Unfilled == part = "grid" /\ Grid!Mounted = {} /\ retry = None /\ ~Grid!Exhausted
\* An empty grid is filled, offers a retry, or has seen the whole catalogue
\* (LibraryGrid).
GridFills == Unfilled ~> ~Unfilled

\* While the page is watched and Kanvas has the same to say, the page comes to
\* show it and keeps showing it (SystemAlerts).
AlertsSettle ==
  \A f \in Feeds \cup {Alerts!Failing} :
    <>[](part = "alerts" /\ Alerts!Watching(page) /\ server[page.source] = f)
      => <>[](feed = IF f = Alerts!Failing THEN Alerts!Unreachable ELSE f)

\* A notification that was queued while the queue was being read is read as well
\* (Toasts).
QueueIsRead == part = "toasts" => Notify!QueueIsRead
=============================================================================
