------------------------------- MODULE Toasts -------------------------------
(***************************************************************************)
(* Notifications (KanvasToasts in kanvas.js): the page adds its own, and   *)
(* fetches those that Kanvas has queued for the viewer, once when the      *)
(* element is connected and again whenever an action asks for it.  Equal   *)
(* notifications are one; an error stays until it is dismissed.            *)
(***************************************************************************)
EXTENDS Naturals, FiniteSets, SequencesExt

CONSTANTS Notices,      \* notifications, by their signatures
          Errors,       \* those that do not time out
          MaxVisible,   \* TOAST_MAX_VISIBLE
          MaxActions,   \* bound: actions that end, the element's reconnections
          None

VARIABLES
  connected,
  visible,   \* the notifications on the page, oldest first
  timers,    \* those that will be dismissed
  consume,   \* the request on its way and consumeAgain
  queue,     \* what Kanvas has queued for the viewer
  failed,    \* the last answer was not read
  actions    \* counts what MaxActions bounds

vars == <<connected, visible, timers, consume, queue, failed, actions>>

-----------------------------------------------------------------------------
Page == [visible |-> visible, timers |-> timers]

Dismissed(p, notice) ==
  [visible |-> SelectSeq(p.visible, LAMBDA n : n # notice), timers |-> p.timers \ {notice}]

\* The oldest makes room, and its timer ends.
Room(p) ==
  IF Len(p.visible) < MaxVisible THEN p ELSE Dismissed(p, Head(p.visible))

Timed(p, notice) == IF notice \in Errors THEN p ELSE [p EXCEPT !.timers = @ \cup {notice}]

Added(p, notice) ==
  IF notice \in ToSet(p.visible) THEN Timed(p, notice)
  ELSE Timed([Room(p) EXCEPT !.visible = Append(@, notice)], notice)

Show(p) == visible' = p.visible /\ timers' = p.timers

Add(notice) ==
  /\ connected /\ actions < MaxActions /\ actions' = actions + 1
  /\ Show(Added(Page, notice))
  /\ UNCHANGED <<connected, consume, queue, failed>>

Dismiss(notice) ==
  /\ notice \in ToSet(visible)
  /\ Show(Dismissed(Page, notice))
  /\ UNCHANGED <<connected, consume, queue, failed, actions>>

TimerFires(notice) ==
  /\ notice \in timers
  /\ Show(Dismissed(Page, notice))
  /\ UNCHANGED <<connected, consume, queue, failed, actions>>

-----------------------------------------------------------------------------
(* Consuming the queue. *)

Idle == [busy |-> FALSE, again |-> FALSE, answer |-> None]
Sent == [busy |-> TRUE, again |-> FALSE, answer |-> None]

AskedOnce(c) == IF c.busy THEN c ELSE Sent

AskedAgain(c) == IF c.busy THEN [c EXCEPT !.again = TRUE] ELSE Sent

\* An action queues a notification, and asks for the queue when it ends.
ActionEnds(notice) ==
  /\ actions < MaxActions /\ actions' = actions + 1
  /\ Len(queue) < MaxVisible + 1
  /\ queue' = Append(queue, notice)
  /\ consume' = IF connected THEN AskedAgain(consume) ELSE consume
  /\ UNCHANGED <<connected, visible, timers, failed>>

\* Kanvas hands the queue out once.
Served ==
  /\ consume.busy /\ consume.answer = None
  /\ consume' = [consume EXCEPT !.answer = queue]
  /\ queue' = <<>>
  /\ UNCHANGED <<connected, visible, timers, failed, actions>>

Answered(delivered) ==
  /\ consume.busy
  /\ delivered => consume.answer # None
  /\ IF delivered THEN Show(FoldLeft(Added, Page, consume.answer)) ELSE UNCHANGED <<visible, timers>>
  /\ failed' = ~delivered
  /\ consume' = IF consume.again THEN Sent ELSE Idle
  /\ UNCHANGED <<connected, queue, actions>>

\* The element leaves the page; its request is aborted, which may be too late to
\* keep Kanvas from handing the queue out.
Disconnect ==
  /\ connected /\ actions < MaxActions /\ actions' = actions + 1
  /\ connected' = FALSE
  /\ consume' = Idle
  /\ visible' = <<>> /\ timers' = {}
  /\ queue' = queue \/ (consume.busy /\ queue' = <<>>)
  /\ UNCHANGED failed

Connect ==
  /\ ~connected
  /\ connected' = TRUE
  /\ consume' = Sent
  /\ UNCHANGED <<visible, timers, queue, failed, actions>>

-----------------------------------------------------------------------------
Init ==
  /\ connected = TRUE
  /\ visible = <<>> /\ timers = {}
  /\ consume = Sent
  /\ queue \in {<<>>} \cup {<<n>> : n \in Notices}
  /\ failed = FALSE
  /\ actions = 0

Next ==
  \/ Connect \/ Disconnect \/ Served
  \/ \E delivered \in BOOLEAN : Answered(delivered)
  \/ \E notice \in Notices : Add(notice) \/ Dismiss(notice) \/ TimerFires(notice) \/ ActionEnds(notice)

Spec == Init /\ [][Next]_vars

-----------------------------------------------------------------------------
TypeOK ==
  /\ connected \in BOOLEAN
  /\ ToSet(visible) \subseteq Notices /\ timers \subseteq Notices
  /\ consume.busy \in BOOLEAN /\ consume.again \in BOOLEAN
  /\ ToSet(queue) \subseteq Notices

\* A notification that an action queued while the queue was being read is read
\* as well: it waits only while a request is on its way or after one failed.
QueueIsRead ==
  connected /\ queue # <<>> /\ ~failed => consume.busy /\ (consume.answer = None \/ consume.again)
=============================================================================
