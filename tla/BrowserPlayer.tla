---------------------------- MODULE BrowserPlayer ----------------------------
(***************************************************************************)
(* The player element of an item page (kanvas-playback.js): which entry of *)
(* the session it shows, how it obtains a delivery for it, what it reports *)
(* as progress, how it recovers a broken stream, and how it completes an   *)
(* entry and goes on to the next one.  The media element and the server    *)
(* are the environment: deliveries, reports and completions are answered   *)
(* in any order, refused or lost.                                          *)
(*                                                                         *)
(* A version counter that only tells the newest request from older ones    *)
(* (deliveryRequestVersion, audioSelectionVersion) is modelled by a mark   *)
(* on the newest request; all media are MaxPosition long.  An update of    *)
(* several handlers' shared state is one record.                           *)
(***************************************************************************)
EXTENDS Integers, FiniteSets

CONSTANTS LastEntry,       \* the session's entries are 0 .. LastEntry
          MaxPosition,     \* length of a medium
          ReportInterval,  \* progress between two unforced reports
          Resumes,         \* saved positions an entry may be opened at
          MaxRequests,     \* bound: delivery requests in flight
          MaxDisturbances, \* bound: viewer's actions and stream failures
          None

ASSUME PlayerAssumption ==
  /\ LastEntry \in Nat /\ MaxPosition \in Nat /\ MaxRequests \in Nat
  /\ MaxDisturbances \in Nat
  /\ ReportInterval \in Nat \ {0}
  /\ Resumes \subseteq 0 .. MaxPosition
  /\ None \notin Int

VARIABLES
  shown,     \* entryPosition, resumePosition, resumeApplied, lastReportedPosition
  delivery,  \* deliveryMode, streamStartSeconds, pendingDirectSeek, generatedStreamSeekPending
  video,     \* the media element, mediaEntryPosition and entryPlaybackReady
  seeking,   \* the flag between the events seeking and seeked
  requests,  \* delivery requests without an answer
  audio,     \* the position kept for an audio change whose save is awaited
  recoveries,\* streamRecoveryAttemptCount
  reports,   \* activeProgress, pendingProgress
  queue,     \* hasQueuedNextItem, autoplayNext, completing, the completion in flight
  screen,    \* fullscreen, pendingItemPageUrl, and whether the page is left
  flushed,   \* the report sent while the page was hidden
  disturbances, \* counts what MaxDisturbances bounds
  serverEntry \* the entry the server's session is at; past LastEntry when it is over

vars == <<shown, delivery, video, seeking, requests, audio, recoveries, reports,
          queue, screen, flushed, disturbances, serverEntry>>

Entries == 0 .. LastEntry
Positions == 0 .. MaxPosition
Least(a, b) == IF a < b THEN a ELSE b

-----------------------------------------------------------------------------
(* What the handlers compute. *)

PlaybackPosition(v, d) ==
  Least((IF d.mode = "direct" THEN 0 ELSE d.start) + v.time, MaxPosition)

IsSeekInProgress == seeking \/ video.seeking

Recovering == \E r \in requests : r.owner

Superseded(rs) == {[r EXCEPT !.live = FALSE] : r \in rs}

SelectDelivery(rs, kind, e, start) ==
  Superseded(rs) \cup {[kind |-> kind, entry |-> e, start |-> start, live |-> TRUE,
                        owner |-> kind = "recover"]}

ReportableUnready(force, position, s, v) ==
  /\ s.resume > 0 => s.applied
  /\ force \/ position - s.reported >= ReportInterval

Reportable(force, position, s, v) ==
  /\ v.ready
  /\ s.resume > 0 => s.applied
  /\ force \/ position - s.reported >= ReportInterval

ReplacedPending(pending, report) == report

MergedPending(pending, report) ==
  IF pending # None /\ pending.entry = report.entry
    THEN [pending EXCEPT !.position = report.position, !.source = report.source,
                         !.seek = @ \/ report.seek]
    ELSE report

\* source is a history field: the entry whose medium the position was read from.
ReportProgress(force, seek, s, v, d) ==
  LET position == PlaybackPosition(v, d)
      report == [entry |-> s.entry, position |-> position, seek |-> seek, source |-> v.source]
      repeated == /\ reports.active # None
                  /\ reports.active.entry = report.entry
                  /\ reports.active.position = position
                  /\ reports.active.seek \/ ~seek
  IN  reports' = IF ~Reportable(force, position, s, v) \/ repeated THEN reports
                 ELSE IF reports.active = None THEN [reports EXCEPT !.active = report]
                 ELSE [reports EXCEPT !.pending = MergedPending(reports.pending, report)]

NoVideo == [source |-> None, marked |-> None, time |-> 0, loaded |-> FALSE, ready |-> FALSE,
            paused |-> TRUE, seeking |-> FALSE, broken |-> FALSE]

Opened(e, resume) == [entry |-> e, resume |-> resume, applied |-> FALSE, reported |-> -1]

-----------------------------------------------------------------------------
Init ==
  /\ \E resume \in Resumes : /\ shown = Opened(0, resume)
                            /\ requests = SelectDelivery({}, "load", 0, resume)
  /\ delivery = [mode |-> "direct", start |-> 0, directSeek |-> None, seekPending |-> FALSE]
  /\ video = NoVideo
  /\ seeking = FALSE
  /\ audio = None
  /\ recoveries = 0
  /\ reports = [active |-> None, pending |-> None]
  /\ queue = [next |-> LastEntry > 0, autoplay |-> LastEntry > 0, completing |-> FALSE, post |-> None]
  /\ screen = [full |-> FALSE, itemPage |-> FALSE, page |-> "open"]
  /\ flushed = None
  /\ disturbances = 0
  /\ serverEntry = 0

Open == screen.page # "gone"

Disturbance == disturbances < MaxDisturbances /\ disturbances' = disturbances + 1

-----------------------------------------------------------------------------
(* Deliveries.  What follows the await of each caller is part of the answer. *)

AfterDeliveryStillBusy(r) ==
  /\ requests' = requests \ {r}
  /\ UNCHANGED <<queue, seeking, audio, recoveries, reports, screen, flushed, serverEntry, shown, disturbances>>

AfterDelivery(r) ==
  /\ requests' = requests \ {r}
  /\ queue' = IF r.kind = "advance" THEN [queue EXCEPT !.completing = FALSE] ELSE queue
  /\ UNCHANGED <<seeking, audio, recoveries, reports, screen, flushed, serverEntry, shown, disturbances>>

Current(r) == r.live /\ r.entry = shown.entry

DeliveryStale(r) ==
  /\ Open /\ ~Current(r)
  /\ AfterDelivery(r)
  /\ UNCHANGED <<delivery, video>>

\* A refused connection is thrown before the versions are compared.
DeliveryFails(r) ==
  /\ Open
  /\ AfterDelivery(r)
  /\ delivery' = IF r.kind = "seek" /\ r.entry = shown.entry
                   THEN [delivery EXCEPT !.seekPending = FALSE] ELSE delivery
  /\ UNCHANGED video

DeliveryUnsupported(r) ==
  /\ Open /\ Current(r)
  /\ AfterDelivery(r)
  /\ video' = [NoVideo EXCEPT !.marked = video.marked, !.ready = video.ready]
  /\ UNCHANGED delivery

DeliveryArrives(r, mode) ==
  /\ Open /\ Current(r)
  /\ AfterDelivery(r)
  /\ delivery' = [delivery EXCEPT
       !.mode = mode,
       !.start = IF mode = "direct" THEN 0 ELSE r.start,
       !.directSeek = IF mode = "direct" /\ r.start > 0 THEN r.start ELSE None]
  /\ \E paused \in BOOLEAN :  \* autoplay, unless the browser refuses it
       video' = [NoVideo EXCEPT !.source = r.entry, !.marked = r.entry, !.paused = paused]

LoadedMetadata ==
  /\ Open /\ video.source # None /\ ~video.loaded /\ ~video.broken
  /\ LET target == IF delivery.directSeek # None /\ delivery.mode = "direct" THEN delivery.directSeek
                   ELSE IF ~shown.applied /\ shown.resume > 0 /\ delivery.mode = "direct"
                     THEN shown.resume ELSE None
         v == [video EXCEPT !.loaded = TRUE, !.ready = TRUE,
                            !.time = IF target = None THEN @ ELSE target,
                            !.seeking = target # None]
         s == [shown EXCEPT !.applied = @ \/ target # None \/ shown.resume > 0]
         d == [delivery EXCEPT !.directSeek = IF delivery.mode = "direct" THEN None ELSE @,
                               !.seekPending = FALSE]
     IN  IF video.marked # shown.entry
           THEN /\ video' = [video EXCEPT !.loaded = TRUE]
                /\ UNCHANGED <<shown, delivery, seeking, reports>>
           ELSE /\ video' = v /\ shown' = s /\ delivery' = d
                /\ seeking' = (seeking \/ v.seeking)
                /\ IF delivery.seekPending THEN ReportProgress(TRUE, TRUE, s, v, d)
                                           ELSE UNCHANGED reports
  /\ UNCHANGED <<requests, audio, recoveries, queue, screen, flushed, serverEntry, disturbances>>

-----------------------------------------------------------------------------
(* Events of the media element. *)

Running == video.loaded /\ ~video.paused /\ ~video.broken /\ ~video.seeking

TimeAdvances ==
  /\ Open /\ Running /\ PlaybackPosition(video, delivery) < MaxPosition
  /\ LET v == [video EXCEPT !.time = @ + 1]
     IN  /\ video' = v
         /\ IF IsSeekInProgress THEN UNCHANGED reports
                                ELSE ReportProgress(FALSE, FALSE, shown, v, delivery)
  /\ UNCHANGED <<shown, delivery, seeking, requests, audio, recoveries, queue, screen, flushed, serverEntry, disturbances>>

Playing ==
  /\ Open /\ Running /\ recoveries > 0
  /\ recoveries' = 0
  /\ UNCHANGED <<shown, delivery, video, seeking, requests, audio, reports, queue, screen, flushed, serverEntry, disturbances>>

Seeked ==
  /\ Open /\ video.seeking /\ ~video.broken
  /\ ReportProgress(TRUE, TRUE, shown, video, delivery)
  /\ video' = [video EXCEPT !.seeking = FALSE]
  /\ seeking' = FALSE
  /\ UNCHANGED <<shown, delivery, requests, audio, recoveries, queue, screen, flushed, serverEntry, disturbances>>

TogglePlay ==
  /\ Open /\ Disturbance /\ video.source # None
  /\ video' = [video EXCEPT !.paused = ~@]
  /\ IF video.paused THEN UNCHANGED reports
                     ELSE ReportProgress(TRUE, IsSeekInProgress, shown, video, delivery)
  /\ UNCHANGED <<shown, delivery, seeking, requests, audio, recoveries, queue, screen, flushed, serverEntry>>

StreamBreaks ==
  /\ Open /\ Disturbance /\ video.source # None /\ ~video.broken
  /\ video' = [video EXCEPT !.broken = TRUE]
  /\ IF Recovering \/ recoveries >= 1
       THEN UNCHANGED <<requests, recoveries>>
       ELSE /\ Cardinality(requests) < MaxRequests
            /\ recoveries' = recoveries + 1
            /\ requests' = SelectDelivery(requests, "recover", shown.entry,
                                          PlaybackPosition(video, delivery))
  /\ UNCHANGED <<shown, delivery, seeking, audio, reports, queue, screen, flushed, serverEntry>>

-----------------------------------------------------------------------------
(* The viewer's controls. *)

SeekDirect(p) ==
  /\ Open /\ Disturbance /\ delivery.mode = "direct" /\ video.source # None /\ p # video.time
  /\ video' = [video EXCEPT !.time = p, !.seeking = video.loaded]
  /\ seeking' = (seeking \/ video.loaded)
  /\ UNCHANGED <<shown, delivery, requests, audio, recoveries, reports, queue, screen, flushed, serverEntry>>

RestartGeneratedStream(p) ==
  /\ Open /\ Disturbance /\ delivery.mode # "direct" /\ Cardinality(requests) < MaxRequests
  /\ delivery' = [delivery EXCEPT !.seekPending = TRUE]
  /\ requests' = SelectDelivery(requests, "seek", shown.entry, p)
  /\ UNCHANGED <<shown, video, seeking, audio, recoveries, reports, queue, screen, flushed, serverEntry>>

ChangeAudio ==
  /\ Open /\ Disturbance
  /\ audio' = PlaybackPosition(video, delivery)
  /\ requests' = Superseded(requests)
  /\ UNCHANGED <<shown, delivery, video, seeking, recoveries, reports, queue, screen, flushed, serverEntry>>

AudioSaved ==
  /\ Open /\ audio # None /\ Cardinality(requests) < MaxRequests
  /\ audio' = None
  /\ \/ UNCHANGED requests
     \/ requests' = SelectDelivery(requests, "audio", shown.entry, audio)
  /\ UNCHANGED <<shown, delivery, video, seeking, recoveries, reports, queue, screen, flushed, serverEntry, disturbances>>

ChooseAutoplay ==
  /\ Open /\ Disturbance /\ queue.next /\ ~queue.completing
  /\ queue' = [queue EXCEPT !.autoplay = ~@]
  /\ UNCHANGED <<shown, delivery, video, seeking, requests, audio, recoveries, reports, screen, flushed, serverEntry>>

-----------------------------------------------------------------------------
(* Completion. *)

Complete(kind) ==
  queue' = IF queue.completing THEN queue
           ELSE [queue EXCEPT !.completing = TRUE,
                              !.post = [kind |-> kind, entry |-> shown.entry]]

PlayNext ==
  /\ Open /\ queue.next /\ ~queue.completing
  /\ Complete("complete")
  /\ UNCHANGED <<shown, delivery, video, seeking, requests, audio, recoveries, reports, screen, flushed, serverEntry, disturbances>>

Ended ==
  /\ Open /\ Running /\ PlaybackPosition(video, delivery) = MaxPosition
  /\ video' = [video EXCEPT !.paused = TRUE]
  /\ ReportProgress(TRUE, IsSeekInProgress, shown, video, delivery)
  /\ Complete(IF ~queue.next \/ queue.autoplay THEN "complete" ELSE "complete-current")
  /\ UNCHANGED <<shown, delivery, seeking, requests, audio, recoveries, screen, flushed, serverEntry, disturbances>>

\* The server completes the entry it is at, once, however often it is asked.
ServerCompletes ==
  /\ queue.post # None /\ queue.post.kind = "complete" /\ queue.post.entry = serverEntry
  /\ serverEntry' = serverEntry + 1
  /\ UNCHANGED <<shown, delivery, video, seeking, requests, audio, recoveries, reports, queue, screen, flushed, disturbances>>

\* Refused, lost on either way, or not an entry the page understands.
CompletionFails ==
  /\ Open /\ queue.post # None
  /\ queue' = [queue EXCEPT !.completing = FALSE, !.post = None]
  /\ UNCHANGED <<shown, delivery, video, seeking, requests, audio, recoveries, reports, screen, flushed, serverEntry, disturbances>>

CurrentCompleted ==
  /\ Open /\ queue.post # None /\ queue.post.kind = "complete-current"
  /\ queue' = [queue EXCEPT !.completing = FALSE, !.post = None]
  /\ UNCHANGED <<shown, delivery, video, seeking, requests, audio, recoveries, reports, screen, flushed, serverEntry, disturbances>>

Processed == queue.post # None /\ queue.post.kind = "complete" /\ serverEntry > queue.post.entry

QueueCompleted ==
  /\ Open /\ Processed /\ serverEntry > LastEntry
  /\ queue' = [queue EXCEPT !.post = None]
  /\ UNCHANGED <<shown, delivery, video, seeking, requests, audio, recoveries, reports, screen, flushed, serverEntry, disturbances>>

GoToNextItem ==
  /\ Open /\ Processed /\ serverEntry <= LastEntry /\ ~screen.full
  /\ queue' = [queue EXCEPT !.post = None]
  /\ screen' = [screen EXCEPT !.page = "leaving"]
  /\ UNCHANGED <<shown, delivery, video, seeking, requests, audio, recoveries, reports, flushed, serverEntry, disturbances>>

\* The page lists what is queued: whether there is more is autoplay's new value.
AdvancedQueue ==
  [queue EXCEPT !.post = None, !.next = serverEntry < LastEntry, !.autoplay = serverEntry < LastEntry]

LoadNextEntry(resume) ==
  /\ Open /\ Processed /\ serverEntry <= LastEntry /\ screen.full
  /\ Cardinality(requests) < MaxRequests
  /\ shown' = Opened(serverEntry, resume)
  /\ requests' = SelectDelivery({[r EXCEPT !.owner = FALSE] : r \in requests},
                                "advance", serverEntry, resume)
  /\ delivery' = [delivery EXCEPT !.directSeek = None, !.seekPending = FALSE]
  /\ video' = [video EXCEPT !.marked = None, !.ready = FALSE]
  /\ audio' = None
  /\ recoveries' = 0
  /\ queue' = AdvancedQueue
  /\ screen' = [screen EXCEPT !.itemPage = TRUE]
  /\ UNCHANGED <<seeking, reports, flushed, serverEntry, disturbances>>

-----------------------------------------------------------------------------
(* Reports are sent one after the other; the page may be left at any time. *)

ReportAnswered(saved) ==
  /\ Open /\ reports.active # None
  /\ reports' = [active |-> reports.pending, pending |-> None]
  /\ shown' = IF saved /\ reports.active.entry = shown.entry
                THEN [shown EXCEPT !.reported = reports.active.position] ELSE shown
  /\ UNCHANGED <<delivery, video, seeking, requests, audio, recoveries, queue, screen, flushed, serverEntry, disturbances>>

FullscreenChange ==
  /\ Open /\ Disturbance
  /\ screen' = [screen EXCEPT !.full = ~@,
                  !.page = IF screen.full /\ screen.itemPage THEN "leaving" ELSE @,
                  !.itemPage = @ /\ ~screen.full]
  /\ UNCHANGED <<shown, delivery, video, seeking, requests, audio, recoveries, reports, queue, flushed, serverEntry>>

PageHide ==
  /\ Open
  /\ screen' = [screen EXCEPT !.page = "gone"]
  /\ flushed' = IF Reportable(TRUE, 0, shown, video)
       THEN [entry |-> shown.entry, position |-> PlaybackPosition(video, delivery),
             seek |-> IsSeekInProgress \/ delivery.seekPending, source |-> video.source]
       ELSE None
  /\ UNCHANGED <<shown, delivery, video, seeking, requests, audio, recoveries, reports, queue, serverEntry, disturbances>>

-----------------------------------------------------------------------------
Kinds == {"load", "advance", "seek", "audio", "recover"}

DeliveryAnswered(kind) ==
  \E r \in {q \in requests : q.kind = kind} :
    \/ DeliveryStale(r) \/ DeliveryFails(r) \/ DeliveryUnsupported(r)
    \/ \E mode \in {"direct", "generated"} : DeliveryArrives(r, mode)

CompletionAnswered ==
  \/ CompletionFails \/ CurrentCompleted \/ QueueCompleted \/ GoToNextItem
  \/ \E resume \in Resumes : LoadNextEntry(resume)

Report == \E saved \in BOOLEAN : ReportAnswered(saved)

Next ==
  \/ \E kind \in Kinds : DeliveryAnswered(kind)
  \/ LoadedMetadata \/ TimeAdvances \/ Playing \/ Seeked \/ TogglePlay \/ StreamBreaks
  \/ \E p \in Positions : SeekDirect(p) \/ RestartGeneratedStream(p)
  \/ ChangeAudio \/ AudioSaved \/ ChooseAutoplay
  \/ PlayNext \/ Ended \/ ServerCompletes \/ CompletionAnswered
  \/ Report \/ FullscreenChange \/ PageHide

\* Every request is answered or refused some day.
Fairness ==
  /\ \A kind \in Kinds : WF_vars(DeliveryAnswered(kind))
  /\ WF_vars(CompletionAnswered)
  /\ WF_vars(Report)

Spec == Init /\ [][Next]_vars /\ Fairness

-----------------------------------------------------------------------------
Requests == [kind : Kinds, entry : Entries, start : Positions,
             live : BOOLEAN, owner : BOOLEAN]
Reports == [entry : Entries, position : Positions, seek : BOOLEAN, source : Entries \cup {None}]

ASSUME NoneIsNoReport == None \notin Reports

\* The player's state between two handlers.
TypeOK ==
  /\ shown \in [entry : Entries, resume : Resumes, applied : BOOLEAN, reported : Positions \cup {-1}]
  /\ delivery \in [mode : {"direct", "generated"}, start : Positions,
                   directSeek : Positions \cup {None}, seekPending : BOOLEAN]
  /\ video \in [source : Entries \cup {None}, marked : Entries \cup {None}, time : Nat,
                loaded : BOOLEAN, ready : BOOLEAN, paused : BOOLEAN, seeking : BOOLEAN, broken : BOOLEAN]
  /\ seeking \in BOOLEAN
  /\ requests \in SUBSET Requests
  /\ audio \in Positions \cup {None}
  /\ recoveries \in 0 .. 1
  /\ reports \in [active : Reports \cup {None}, pending : Reports \cup {None}]
  /\ queue \in [next : BOOLEAN, autoplay : BOOLEAN, completing : BOOLEAN,
                post : [kind : {"complete", "complete-current"}, entry : Entries] \cup {None}]
  /\ screen \in [full : BOOLEAN, itemPage : BOOLEAN, page : {"open", "leaving", "gone"}]
  /\ disturbances \in 0 .. MaxDisturbances
  /\ flushed \in Reports \cup {None}
  /\ serverEntry \in 0 .. LastEntry + 1

\* A report never gives one entry the position of another entry's medium, not
\* even while the next entry is being opened behind the medium still playing.
ReportsNameTheirMedia ==
  \A r \in {reports.active, reports.pending, flushed} \ {None} : r.source \in {r.entry, None}

\* The report that waits behind the one in flight is sent, or replaced by a
\* later position of its entry, or given up only once its entry is completed;
\* a seek stays marked as one.  Leaving the page gives it up with the queue: the
\* page sends what it flushes, and is over.
WaitingReportsAreKept ==
  [][LET old == reports.pending
         new == reports'.pending
     IN  old # None /\ new # old =>
           \/ reports'.active = old
           \/ new # None /\ new.entry = old.entry /\ (old.seek => new.seek)
           \/ old.entry < serverEntry]_vars

\* The controls that complete an entry come back: a completion ends, with the
\* next entry opened, the page left, the queue over, or an error to retry from.
CompletionEnds ==
  queue.completing ~> \/ ~queue.completing
                      \/ screen.page # "open"
                      \/ serverEntry > LastEntry
=============================================================================
