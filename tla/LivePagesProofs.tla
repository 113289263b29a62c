-------------------------- MODULE LivePagesProofs ---------------------------
(***************************************************************************)
(* Proofs about the parts of the browser that run by themselves.           *)
(*                                                                         *)
(* The player (BrowserPlayer): a report never mixes the entry of one       *)
(* medium with the position of another, and a report that waits is not     *)
(* lost.  Both rest on PlayerInv: what is loaded is the medium of the      *)
(* marked entry, the player is ready only for the entry it shows, a        *)
(* completion on its way is of that entry, and a waiting report is of      *)
(* that entry or of one the server has completed.                          *)
(*                                                                         *)
(* The grid (LibraryGrid): the mounted posters are in order, and none is   *)
(* left out between the edges but by the answer to a request whose page    *)
(* was evicted.  It rests on GridInv: the mounted and the stored pages     *)
(* follow one another (PagesFit), and the one request of this              *)
(* initialisation goes on from an edge or from where one was.              *)
(*                                                                         *)
(* The notifications (Toasts): what is queued is read.  It rests on        *)
(* QueueInv, which says when a request on its way is enough.               *)
(***************************************************************************)
EXTENDS MCLivePages, Sequences, FiniteSetTheorems, WellFoundedInduction, TLAPS

-----------------------------------------------------------------------------
(* BrowserPlayer.  The inductive invariant and its parts.                   *)
MediumIsMarked == video.source = None \/ video.marked \in {None, video.source}

ReadyForShown == video.ready => video.marked = shown.entry

CompletesShown == queue.post # None => queue.post.entry = shown.entry

PendingOfShown ==
  reports.pending # None => \/ reports.pending.entry = shown.entry
                            \/ reports.pending.entry < serverEntry

PlayerInv ==
  /\ TypeOK
  /\ MediumIsMarked
  /\ ReadyForShown
  /\ CompletesShown
  /\ PendingOfShown
  /\ ReportsNameTheirMedia

Kept(old, new, entered) ==
  old # None /\ new # old =>
    \/ entered = old
    \/ new # None /\ new.entry = old.entry /\ (old.seek => new.seek)
    \/ old.entry < serverEntry

-----------------------------------------------------------------------------
(* A position computed from a well-typed medium and delivery is one.        *)
LEMMA PositionType ==
  ASSUME NEW v, NEW d, v.time \in Nat, d.start \in Positions
  PROVE  PlaybackPosition(v, d) \in Positions
BY PlayerAssumption DEF PlaybackPosition, Least, Positions

Shown == [entry : Entries, resume : Resumes, applied : BOOLEAN, reported : Positions \cup {-1}]
Delivery == [mode : {"direct", "generated"}, start : Positions,
             directSeek : Positions \cup {None}, seekPending : BOOLEAN]
Video == [source : Entries \cup {None}, marked : Entries \cup {None}, time : Nat,
          loaded : BOOLEAN, ready : BOOLEAN, paused : BOOLEAN, seeking : BOOLEAN, broken : BOOLEAN]
Queue == [next : BOOLEAN, autoplay : BOOLEAN, completing : BOOLEAN,
          post : [kind : {"complete", "complete-current"}, entry : Entries] \cup {None}]
Screen == [full : BOOLEAN, itemPage : BOOLEAN, page : {"open", "leaving", "gone"}]

(* Progress of the entry that is shown, read from its medium: the reports   *)
(* stay well typed, name their media, and the waiting one is kept.          *)
LEMMA ProgressReported ==
  ASSUME PlayerInv, NEW force \in BOOLEAN, NEW seek \in BOOLEAN,
         NEW s \in Shown, NEW v \in Video, NEW d \in Delivery,
         s.entry = shown.entry,
         v.ready => v.source \in {None, s.entry},
         ReportProgress(force, seek, s, v, d)
  PROVE  /\ reports' \in [active : Reports \cup {None}, pending : Reports \cup {None}]
         /\ \A r \in {reports'.active, reports'.pending} \ {None} : r.source \in {r.entry, None}
         /\ reports'.pending # None => \/ reports'.pending.entry = shown.entry
                                       \/ reports'.pending.entry < serverEntry
         /\ Kept(reports.pending, reports'.pending, reports'.active)
<1> DEFINE position == PlaybackPosition(v, d)
           report == [entry |-> s.entry, position |-> position, seek |-> seek, source |-> v.source]
<1>1. position \in Positions
  BY PositionType DEF Video, Delivery
<1>2. report \in Reports
  BY <1>1 DEF Reports, Shown, Video
<1>3. report # None /\ report.entry = shown.entry /\ report.seek = seek
  BY <1>2, NoneIsNoReport
<1>4. CASE reports' = reports
  BY <1>4 DEF PlayerInv, TypeOK, PendingOfShown, ReportsNameTheirMedia, Kept
<1>5. CASE /\ Reportable(force, position, s, v)
           /\ reports.active = None /\ reports' = [reports EXCEPT !.active = report]
  BY <1>2, <1>3, <1>5
     DEF PlayerInv, TypeOK, PendingOfShown, ReportsNameTheirMedia, Kept, Reportable
<1>6. CASE /\ Reportable(force, position, s, v)
           /\ reports' = [reports EXCEPT !.pending = MergedPending(reports.pending, report)]
  <2> DEFINE new == MergedPending(reports.pending, report)
  <2>1. reports'.pending = new /\ reports'.active = reports.active
    BY <1>6 DEF PlayerInv, TypeOK
  <2>2. report.source \in {report.entry, None}
    BY <1>6 DEF Reportable
  <2>3. CASE reports.pending # None /\ reports.pending.entry = report.entry
    <3>1. reports.pending \in Reports
      BY <2>3 DEF PlayerInv, TypeOK
    <3>2. new = [reports.pending EXCEPT !.position = report.position, !.source = report.source,
                                        !.seek = @ \/ report.seek]
      BY <2>3 DEF MergedPending
    <3> DEFINE old == reports.pending
    <3>3. /\ new.entry = old.entry /\ new.position = report.position
          /\ new.seek = (old.seek \/ report.seek) /\ new.source = report.source
          /\ DOMAIN new = {"entry", "position", "seek", "source"}
      BY <3>1, <3>2 DEF Reports
    <3>4. new \in Reports /\ new # None
      BY <1>2, <3>1, <3>2, <3>3, NoneIsNoReport DEF Reports
    <3>5. old.seek => new.seek
      BY <3>3
    <3> QED
      BY <1>3, <1>6, <2>1, <2>2, <2>3, <3>3, <3>4, <3>5 DEF PlayerInv, TypeOK, ReportsNameTheirMedia, Kept
  <2>4. CASE ~(reports.pending # None /\ reports.pending.entry = report.entry)
    <3>1. new = report
      BY <2>4 DEF MergedPending
    <3> QED
      BY <1>2, <1>3, <1>6, <2>1, <2>2, <2>4, <3>1
         DEF PlayerInv, TypeOK, PendingOfShown, ReportsNameTheirMedia, Kept
  <2> QED
    BY <2>3, <2>4
<1> QED
  BY <1>4, <1>5, <1>6 DEF ReportProgress

(* The requests stay well typed when the newest supersedes the others.      *)
LEMMA SelectDeliveryType ==
  ASSUME NEW rs \in SUBSET Requests, NEW kind \in Kinds, NEW e \in Entries, NEW start \in Positions
  PROVE  /\ Superseded(rs) \in SUBSET Requests
         /\ SelectDelivery(rs, kind, e, start) \in SUBSET Requests
<1>1. Superseded(rs) \in SUBSET Requests
  BY DEF Superseded, Requests
<1>2. [kind |-> kind, entry |-> e, start |-> start, live |-> TRUE, owner |-> kind = "recover"] \in Requests
  <2> DEFINE owner == kind = "recover"
  <2>1. owner \in BOOLEAN
    OBVIOUS
  <2> HIDE DEF owner
  <2>2. [kind |-> kind, entry |-> e, start |-> start, live |-> TRUE, owner |-> owner] \in Requests
    BY <2>1 DEF Requests
  <2> QED
    BY <2>2 DEF owner
<1> QED
  BY <1>1, <1>2 DEF SelectDelivery

(* A step that leaves the reports, the shown entry and the server alone     *)
(* keeps what is said of the waiting report.                                *)
LEMMA QuietStep ==
  ASSUME PlayerInv, UNCHANGED <<shown, reports, flushed, serverEntry>>
  PROVE  /\ PendingOfShown' /\ ReportsNameTheirMedia'
         /\ Kept(reports.pending, reports'.pending, reports'.active)
BY DEF PlayerInv, PendingOfShown, ReportsNameTheirMedia, Kept

(* What a step has to establish. *)
Goal == PlayerInv' /\ Kept(reports.pending, reports'.pending, reports'.active)

(* A step that reports progress of the entry shown, from a medium v of it,  *)
(* without opening another entry.                                           *)
LEMMA ReportingStep ==
  ASSUME PlayerInv, NEW force \in BOOLEAN, NEW seek \in BOOLEAN,
         NEW v \in Video, NEW d \in Delivery, NEW s \in Shown,
         s.entry = shown.entry, shown'.entry = shown.entry,
         v.ready => v.source \in {None, shown.entry},
         ReportProgress(force, seek, s, v, d) \/ UNCHANGED reports,
         UNCHANGED <<flushed, serverEntry>>
  PROVE  /\ reports' \in [active : Reports \cup {None}, pending : Reports \cup {None}]
         /\ PendingOfShown' /\ ReportsNameTheirMedia'
         /\ Kept(reports.pending, reports'.pending, reports'.active)
<1>1. CASE ReportProgress(force, seek, s, v, d)
  BY <1>1, ProgressReported DEF PlayerInv, PendingOfShown, ReportsNameTheirMedia
<1>2. CASE UNCHANGED reports
  BY <1>2 DEF PlayerInv, TypeOK, PendingOfShown, ReportsNameTheirMedia, Kept
<1> QED
  BY <1>1, <1>2

-----------------------------------------------------------------------------
(* Answers to delivery requests. *)
LEMMA DeliveryStep ==
  ASSUME PlayerInv, NEW kind \in Kinds, DeliveryAnswered(kind)
  PROVE  Goal
<1>1. PICK r \in requests : \/ DeliveryStale(r) \/ DeliveryFails(r) \/ DeliveryUnsupported(r)
                            \/ \E mode \in {"direct", "generated"} : DeliveryArrives(r, mode)
  BY DEF DeliveryAnswered
<1>2. /\ AfterDelivery(r)
      /\ r \in Requests
  BY <1>1 DEF DeliveryStale, DeliveryFails, DeliveryUnsupported, DeliveryArrives, PlayerInv, TypeOK
<1>3. UNCHANGED <<shown, reports, flushed, serverEntry, seeking, audio, recoveries, screen, disturbances>>
  BY <1>2 DEF AfterDelivery
<1>4. requests' \in SUBSET Requests
  BY <1>2 DEF AfterDelivery, PlayerInv, TypeOK
<1>5. queue' \in Queue /\ queue'.post = queue.post
  BY <1>2 DEF AfterDelivery, PlayerInv, TypeOK, Queue
<1>6. /\ video' \in Video /\ delivery' \in Delivery
      /\ MediumIsMarked' /\ ReadyForShown'
  <2>1. CASE DeliveryStale(r)
    BY <1>3, <2>1 DEF DeliveryStale, PlayerInv, TypeOK, MediumIsMarked, ReadyForShown, Video, Delivery
  <2>2. CASE DeliveryFails(r)
    BY <1>3, <2>2 DEF DeliveryFails, PlayerInv, TypeOK, MediumIsMarked, ReadyForShown, Video, Delivery
  <2>3. CASE DeliveryUnsupported(r)
    BY <1>3, <2>3 DEF DeliveryUnsupported, NoVideo, PlayerInv, TypeOK, MediumIsMarked, ReadyForShown, Video, Delivery
  <2>4. ASSUME NEW mode \in {"direct", "generated"}, DeliveryArrives(r, mode)
        PROVE  /\ video' \in Video /\ delivery' \in Delivery
               /\ MediumIsMarked' /\ ReadyForShown'
    <3>1. PICK paused \in BOOLEAN :
            video' = [NoVideo EXCEPT !.source = r.entry, !.marked = r.entry, !.paused = paused]
      BY <2>4 DEF DeliveryArrives
    <3>2. video' \in Video /\ MediumIsMarked' /\ ReadyForShown'
      BY <1>2, <3>1 DEF NoVideo, MediumIsMarked, ReadyForShown, Video, Requests
    <3> DEFINE start == IF mode = "direct" THEN 0 ELSE r.start
               directSeek == IF mode = "direct" /\ r.start > 0 THEN r.start ELSE None
    <3>3. start \in Positions /\ directSeek \in Positions \cup {None}
      BY <1>2, PlayerAssumption DEF Requests, Positions
    <3>4. delivery' = [delivery EXCEPT !.mode = mode, !.start = start, !.directSeek = directSeek]
      BY <2>4 DEF DeliveryArrives
    <3> HIDE DEF start, directSeek
    <3>5. delivery' \in Delivery
      BY <3>3, <3>4 DEF PlayerInv, TypeOK, Delivery
    <3> QED
      BY <3>2, <3>5
  <2> QED
    BY <1>1, <2>1, <2>2, <2>3, <2>4
<1>7. TypeOK' /\ CompletesShown'
  BY <1>3, <1>4, <1>5, <1>6 DEF PlayerInv, TypeOK, CompletesShown, Queue, Video, Delivery
<1> QED
  BY <1>3, <1>6, <1>7, QuietStep DEF Goal, PlayerInv

-----------------------------------------------------------------------------
(* Events of the media element. *)
LEMMA MetadataStep ==
  ASSUME PlayerInv, LoadedMetadata
  PROVE  Goal
<1> DEFINE target == IF delivery.directSeek # None /\ delivery.mode = "direct" THEN delivery.directSeek
                     ELSE IF ~shown.applied /\ shown.resume > 0 /\ delivery.mode = "direct"
                       THEN shown.resume ELSE None
           sought == target # None
           time == IF target = None THEN video.time ELSE target
           applied == shown.applied \/ target # None \/ shown.resume > 0
           direct == IF delivery.mode = "direct" THEN None ELSE delivery.directSeek
           v == [video EXCEPT !.loaded = TRUE, !.ready = TRUE, !.time = time, !.seeking = sought]
           s == [shown EXCEPT !.applied = applied]
           d == [delivery EXCEPT !.directSeek = direct, !.seekPending = FALSE]
<1>1. UNCHANGED <<requests, audio, recoveries, queue, screen, flushed, serverEntry, disturbances>>
  BY DEF LoadedMetadata
<1>2. /\ time \in Nat /\ direct \in Positions \cup {None}
      /\ sought \in BOOLEAN /\ applied \in BOOLEAN
  <2>1. target # None => target \in Positions
    BY PlayerAssumption DEF PlayerInv, TypeOK, Positions
  <2>2. shown.applied \in BOOLEAN /\ video.time \in Nat /\ delivery.directSeek \in Positions \cup {None}
    BY DEF PlayerInv, TypeOK
  <2> HIDE DEF target
  <2>3. time \in Nat /\ direct \in Positions \cup {None}
    BY <2>1, <2>2, PlayerAssumption DEF Positions
  <2>4. sought \in BOOLEAN /\ applied \in BOOLEAN
    BY Zenon
  <2> QED
    BY <2>3, <2>4
<1>3. CASE video.marked # shown.entry
  <2>1. video' = [video EXCEPT !.loaded = TRUE] /\ UNCHANGED <<shown, delivery, seeking, reports>>
    BY <1>3 DEF LoadedMetadata
  <2> HIDE DEF target, sought, time, applied, direct, v, s, d
  <2>2. /\ video' \in Video /\ video'.source = video.source /\ video'.marked = video.marked
        /\ video'.ready = video.ready
    BY <2>1 DEF PlayerInv, TypeOK, Video
  <2>3. TypeOK'
    BY <1>1, <2>1, <2>2 DEF PlayerInv, TypeOK, Video
  <2>4. MediumIsMarked' /\ ReadyForShown' /\ CompletesShown'
    BY <1>1, <2>1, <2>2 DEF PlayerInv, MediumIsMarked, ReadyForShown, CompletesShown
  <2> QED
    BY <1>1, <2>1, <2>3, <2>4, QuietStep DEF Goal, PlayerInv
<1>4. CASE video.marked = shown.entry
  <2>1. /\ video' = v /\ shown' = s /\ delivery' = d /\ seeking' = (seeking \/ v.seeking)
        /\ ReportProgress(TRUE, TRUE, s, v, d) \/ UNCHANGED reports
    BY <1>4 DEF LoadedMetadata
  <2> HIDE DEF target, sought, time, applied, direct
  <2>2. /\ v \in Video /\ v.source = video.source /\ v.marked = video.marked /\ v.seeking \in BOOLEAN
    BY <1>2 DEF PlayerInv, TypeOK, Video
  <2>3. s \in Shown /\ s.entry = shown.entry
    BY <1>2 DEF PlayerInv, TypeOK, Shown
  <2>4. d \in Delivery
    BY <1>2 DEF PlayerInv, TypeOK, Delivery
  <2> HIDE DEF v, s, d
  <2>5. v.source \in {None, shown.entry}
    BY <1>4, <2>2, PlayerAssumption DEF PlayerInv, MediumIsMarked, TypeOK, Entries
  <2>6. /\ reports' \in [active : Reports \cup {None}, pending : Reports \cup {None}]
        /\ PendingOfShown' /\ ReportsNameTheirMedia'
        /\ Kept(reports.pending, reports'.pending, reports'.active)
    <3>1. shown'.entry = shown.entry
      BY <2>1, <2>3
    <3> QED
      BY <1>1, <2>1, <2>2, <2>3, <2>4, <2>5, <3>1, ReportingStep
  <2>7. TypeOK'
    BY <1>1, <2>1, <2>2, <2>3, <2>4, <2>6 DEF PlayerInv, TypeOK, Video, Shown, Delivery
  <2>8. MediumIsMarked' /\ ReadyForShown' /\ CompletesShown'
    BY <1>1, <1>4, <2>1, <2>2, <2>3 DEF PlayerInv, MediumIsMarked, ReadyForShown, CompletesShown
  <2> QED
    BY <2>6, <2>7, <2>8 DEF Goal, PlayerInv
<1> QED
  BY <1>3, <1>4

(* A ready medium is that of the shown entry. *)
LEMMA ReadyMedium ==
  ASSUME PlayerInv
  PROVE  /\ video.ready => video.source \in {None, shown.entry}
         /\ video \in Video /\ shown \in Shown /\ delivery \in Delivery
         /\ IsSeekInProgress \in BOOLEAN
<1>1. shown.entry # None
  BY PlayerAssumption DEF PlayerInv, TypeOK, Entries
<1> QED
  BY <1>1 DEF PlayerInv, TypeOK, MediumIsMarked, ReadyForShown, Video, Shown, Delivery, IsSeekInProgress

(* What the medium does reports progress of the shown entry only.           *)
LEMMA PlaybackStep ==
  ASSUME PlayerInv, TimeAdvances \/ Seeked \/ TogglePlay \/ Ended
  PROVE  Goal
<1>1. UNCHANGED <<shown, delivery, requests, audio, recoveries, screen, flushed, serverEntry>>
  BY DEF TimeAdvances, Seeked, TogglePlay, Ended
<1>2. /\ video' \in Video
      /\ video'.source = video.source /\ video'.marked = video.marked /\ video'.ready = video.ready
  <2>1. video \in Video
    BY ReadyMedium
  <2>2. CASE video' = [video EXCEPT !.time = @ + 1]
    BY <2>1, <2>2 DEF Video
  <2>3. CASE video' = [video EXCEPT !.seeking = FALSE] \/ video' = [video EXCEPT !.paused = TRUE]
    BY <2>1, <2>3 DEF Video
  <2>4. CASE video' = [video EXCEPT !.paused = ~@]
    <3>1. (~video.paused) \in BOOLEAN
      BY Zenon
    <3> QED
      BY <2>1, <2>4, <3>1 DEF Video
  <2> QED
    BY <2>2, <2>3, <2>4 DEF TimeAdvances, Seeked, TogglePlay, Ended
<1>3. seeking' \in BOOLEAN /\ disturbances' \in 0 .. MaxDisturbances
  <2>1. seeking \in BOOLEAN /\ disturbances \in 0 .. MaxDisturbances
    BY DEF PlayerInv, TypeOK
  <2>2. seeking' = seeking \/ seeking' = FALSE
    BY DEF TimeAdvances, Seeked, TogglePlay, Ended
  <2>3. UNCHANGED disturbances \/ Disturbance
    BY DEF TimeAdvances, Seeked, TogglePlay, Ended
  <2>4. seeking' \in BOOLEAN
    BY <2>1, <2>2
  <2>5. disturbances' \in 0 .. MaxDisturbances
    BY <2>1, <2>3, PlayerAssumption DEF Disturbance
  <2> QED
    BY <2>4, <2>5
<1>4. queue' \in Queue /\ CompletesShown'
  <2>1. CASE UNCHANGED queue
    BY <1>1, <2>1 DEF PlayerInv, TypeOK, CompletesShown, Queue
  <2>2. CASE Ended
    <3> DEFINE kind == IF ~queue.next \/ queue.autoplay THEN "complete" ELSE "complete-current"
    <3>1. Complete(kind)
      BY <2>2 DEF Ended
    <3> HIDE DEF kind
    <3>2. kind \in {"complete", "complete-current"}
      BY DEF kind
    <3> QED
      BY <1>1, <3>1, <3>2 DEF Complete, PlayerInv, TypeOK, CompletesShown, Queue
  <2> QED
    BY <2>1, <2>2 DEF TimeAdvances, Seeked, TogglePlay
<1>5. \/ UNCHANGED reports
      \/ ReportProgress(FALSE, FALSE, shown, video', delivery)
      \/ ReportProgress(TRUE, TRUE, shown, video, delivery)
      \/ ReportProgress(TRUE, IsSeekInProgress, shown, video, delivery)
  BY DEF TimeAdvances, Seeked, TogglePlay, Ended
<1>6. /\ reports' \in [active : Reports \cup {None}, pending : Reports \cup {None}]
      /\ PendingOfShown' /\ ReportsNameTheirMedia'
      /\ Kept(reports.pending, reports'.pending, reports'.active)
  <2>1. /\ shown'.entry = shown.entry /\ UNCHANGED <<flushed, serverEntry>>
        /\ video'.ready => video'.source \in {None, shown.entry}
    BY <1>1, <1>2, ReadyMedium
  <2>2. CASE UNCHANGED reports
    BY <1>1, <2>2 DEF PlayerInv, TypeOK, PendingOfShown, ReportsNameTheirMedia, Kept
  <2>3. CASE ReportProgress(FALSE, FALSE, shown, video', delivery)
    BY <1>2, <2>1, <2>3, ReadyMedium, ReportingStep
  <2>4. CASE ReportProgress(TRUE, TRUE, shown, video, delivery)
    BY <2>1, <2>4, ReadyMedium, ReportingStep
  <2>5. CASE ReportProgress(TRUE, IsSeekInProgress, shown, video, delivery)
    BY <2>1, <2>5, ReadyMedium, ReportingStep
  <2> QED
    BY <1>5, <2>2, <2>3, <2>4, <2>5
<1>7. TypeOK'
  BY <1>1, <1>2, <1>3, <1>4, <1>6 DEF PlayerInv, TypeOK, Video, Queue
<1>8. MediumIsMarked' /\ ReadyForShown'
  BY <1>1, <1>2 DEF PlayerInv, MediumIsMarked, ReadyForShown
<1> QED
  BY <1>4, <1>6, <1>7, <1>8 DEF Goal, PlayerInv

-----------------------------------------------------------------------------
(* The viewer's controls and the recovery of a stream: no report is made.   *)
LEMMA ControlStep ==
  ASSUME PlayerInv,
         \/ Playing \/ StreamBreaks \/ ChangeAudio \/ AudioSaved \/ ChooseAutoplay
         \/ \E p \in Positions : SeekDirect(p) \/ RestartGeneratedStream(p)
  PROVE  Goal
<1>1. /\ UNCHANGED <<shown, reports, screen, flushed, serverEntry>>
      /\ UNCHANGED disturbances \/ Disturbance
  BY DEF Playing, StreamBreaks, ChangeAudio, AudioSaved, ChooseAutoplay, SeekDirect,
         RestartGeneratedStream
<1>2. disturbances' \in 0 .. MaxDisturbances
  BY <1>1, PlayerAssumption DEF Disturbance, PlayerInv, TypeOK
<1>3. /\ video' \in Video /\ seeking' \in BOOLEAN
      /\ video'.source = video.source /\ video'.marked = video.marked /\ video'.ready = video.ready
  <2>1. CASE UNCHANGED <<video, seeking>>
    BY <2>1 DEF PlayerInv, TypeOK, Video
  <2>2. CASE StreamBreaks
    <3>1. video' = [video EXCEPT !.broken = TRUE] /\ UNCHANGED seeking
      BY <2>2 DEF StreamBreaks
    <3> QED
      BY <3>1 DEF PlayerInv, TypeOK, Video
  <2>3. ASSUME NEW p \in Positions, SeekDirect(p)
        PROVE  /\ video' \in Video /\ seeking' \in BOOLEAN
               /\ video'.source = video.source /\ video'.marked = video.marked
               /\ video'.ready = video.ready
    <3>1. /\ video' = [video EXCEPT !.time = p, !.seeking = video.loaded]
          /\ seeking' = (seeking \/ video.loaded)
      BY <2>3 DEF SeekDirect
    <3>2. p \in Nat
      BY PlayerAssumption DEF Positions
    <3>3. (seeking \/ video.loaded) \in BOOLEAN
      BY Zenon
    <3> QED
      BY <3>1, <3>2, <3>3 DEF PlayerInv, TypeOK, Video
  <2> QED
    BY <2>1, <2>2, <2>3
       DEF Playing, ChangeAudio, AudioSaved, ChooseAutoplay, RestartGeneratedStream
<1>4. delivery' \in Delivery
  BY DEF Playing, StreamBreaks, ChangeAudio, AudioSaved, ChooseAutoplay, SeekDirect,
         RestartGeneratedStream, PlayerInv, TypeOK, Delivery
<1>5. PlaybackPosition(video, delivery) \in Positions
  BY PositionType DEF PlayerInv, TypeOK
<1>6. audio' \in Positions \cup {None} /\ recoveries' \in 0 .. 1
  <2>1. audio \in Positions \cup {None} /\ recoveries \in 0 .. 1
    BY DEF PlayerInv, TypeOK
  <2>2. audio' \in {audio, None, PlaybackPosition(video, delivery)}
    BY DEF Playing, StreamBreaks, ChangeAudio, AudioSaved, ChooseAutoplay, SeekDirect,
           RestartGeneratedStream
  <2>3. recoveries' \in {recoveries, 0} \/ (~(recoveries >= 1) /\ recoveries' = recoveries + 1)
    BY DEF Playing, StreamBreaks, ChangeAudio, AudioSaved, ChooseAutoplay, SeekDirect,
           RestartGeneratedStream
  <2> QED
    BY <1>5, <2>1, <2>2, <2>3
<1>7. requests' \in SUBSET Requests
  <2>1. /\ requests \in SUBSET Requests /\ shown.entry \in Entries
        /\ audio # None => audio \in Positions
        /\ {"recover", "seek", "audio"} \subseteq Kinds
    BY DEF PlayerInv, TypeOK, Kinds
  <2>2. CASE StreamBreaks
    BY <1>5, <2>1, <2>2, SelectDeliveryType DEF StreamBreaks
  <2>3. CASE ChangeAudio \/ AudioSaved
    <3>1. \/ requests' = Superseded(requests) \/ UNCHANGED requests
          \/ audio # None /\ requests' = SelectDelivery(requests, "audio", shown.entry, audio)
      BY <2>3 DEF ChangeAudio, AudioSaved
    <3>2. Superseded(requests) \in SUBSET Requests
      BY <2>1, SelectDeliveryType, <1>5
    <3>3. audio # None => SelectDelivery(requests, "audio", shown.entry, audio) \in SUBSET Requests
      BY <2>1, SelectDeliveryType
    <3> QED
      BY <2>1, <3>1, <3>2, <3>3
  <2>4. ASSUME NEW p \in Positions, SeekDirect(p) \/ RestartGeneratedStream(p)
        PROVE  requests' \in SUBSET Requests
    <3>1. \/ UNCHANGED requests
          \/ requests' = SelectDelivery(requests, "seek", shown.entry, p)
      BY <2>4 DEF SeekDirect, RestartGeneratedStream
    <3>2. SelectDelivery(requests, "seek", shown.entry, p) \in SUBSET Requests
      BY <2>1, SelectDeliveryType
    <3> QED
      BY <2>1, <3>1, <3>2
  <2> QED
    BY <2>1, <2>2, <2>3, <2>4 DEF Playing, ChooseAutoplay
<1>8. queue' \in Queue /\ queue'.post = queue.post
  <2>1. CASE UNCHANGED queue
    BY <2>1 DEF PlayerInv, TypeOK, Queue
  <2>2. CASE queue' = [queue EXCEPT !.autoplay = ~@]
    <3>1. (~queue.autoplay) \in BOOLEAN
      BY Zenon
    <3> QED
      BY <2>2, <3>1 DEF PlayerInv, TypeOK, Queue
  <2> QED
    BY <2>1, <2>2 DEF Playing, StreamBreaks, ChangeAudio, AudioSaved, ChooseAutoplay, SeekDirect,
         RestartGeneratedStream
<1>9. TypeOK'
  BY <1>1, <1>2, <1>3, <1>4, <1>6, <1>7, <1>8 DEF PlayerInv, TypeOK, Video, Delivery, Queue
<1>10. MediumIsMarked' /\ ReadyForShown' /\ CompletesShown'
  BY <1>1, <1>3, <1>8 DEF PlayerInv, MediumIsMarked, ReadyForShown, CompletesShown
<1> QED
  BY <1>1, <1>9, <1>10, QuietStep DEF Goal, PlayerInv

-----------------------------------------------------------------------------
(* Completions that do not open an entry. *)
LEMMA CompletionStep ==
  ASSUME PlayerInv,
         PlayNext \/ CompletionFails \/ CurrentCompleted \/ QueueCompleted \/ GoToNextItem
  PROVE  Goal
<1>1. UNCHANGED <<shown, delivery, video, seeking, requests, audio, recoveries, reports, flushed,
                  serverEntry, disturbances>>
  BY DEF PlayNext, CompletionFails, CurrentCompleted, QueueCompleted, GoToNextItem
<1>2. queue' \in Queue /\ CompletesShown'
  <2>1. queue \in Queue /\ shown.entry \in Entries
    BY DEF PlayerInv, TypeOK, Queue
  <2>2. CASE PlayNext
    <3>1. CASE UNCHANGED queue
      BY <1>1, <2>1, <3>1 DEF PlayerInv, CompletesShown
    <3>2. CASE queue' = [queue EXCEPT !.completing = TRUE,
                                      !.post = [kind |-> "complete", entry |-> shown.entry]]
      BY <1>1, <2>1, <3>2 DEF CompletesShown, Queue
    <3> QED
      BY <2>2, <3>1, <3>2 DEF PlayNext, Complete
  <2>3. CASE \/ queue' = [queue EXCEPT !.completing = FALSE, !.post = None]
             \/ queue' = [queue EXCEPT !.post = None]
    BY <2>1, <2>3 DEF CompletesShown, Queue
  <2> QED
    BY <2>2, <2>3 DEF CompletionFails, CurrentCompleted, QueueCompleted, GoToNextItem
<1>3. screen' \in Screen
  BY DEF PlayNext, CompletionFails, CurrentCompleted, QueueCompleted, GoToNextItem,
         PlayerInv, TypeOK, Screen
<1>4. TypeOK'
  BY <1>1, <1>2, <1>3 DEF PlayerInv, TypeOK, Queue, Screen
<1>5. MediumIsMarked' /\ ReadyForShown'
  BY <1>1 DEF PlayerInv, MediumIsMarked, ReadyForShown
<1> QED
  BY <1>1, <1>2, <1>4, <1>5, QuietStep DEF Goal, PlayerInv

(* The next entry opens once the server has completed the one shown: what   *)
(* waits is of an entry that is over.                                       *)
LEMMA NextEntryStep ==
  ASSUME PlayerInv, NEW resume \in Resumes, LoadNextEntry(resume)
  PROVE  Goal
<1>1. /\ UNCHANGED <<seeking, reports, flushed, serverEntry, disturbances>>
      /\ serverEntry > shown.entry /\ serverEntry \in Entries /\ shown' = Opened(serverEntry, resume)
  BY PlayerAssumption
     DEF LoadNextEntry, Processed, PlayerInv, TypeOK, CompletesShown, Entries
<1>2. shown' \in Shown /\ shown'.entry = serverEntry
  BY <1>1 DEF Opened, Shown
<1>3. /\ video' \in Video /\ video'.marked = None /\ ~video'.ready
      /\ delivery' \in Delivery
  BY DEF LoadNextEntry, PlayerInv, TypeOK, Video, Delivery
<1>4. requests' \in SUBSET Requests
  <2> DEFINE rest == {[r EXCEPT !.owner = FALSE] : r \in requests}
  <2>1. rest \in SUBSET Requests
    <3>1. \A r \in Requests : [r EXCEPT !.owner = FALSE] \in Requests
      BY DEF Requests
    <3>2. requests \in SUBSET Requests
      BY DEF PlayerInv, TypeOK
    <3> HIDE DEF Requests
    <3> QED
      BY <3>1, <3>2
  <2>2. requests' = SelectDelivery(rest, "advance", serverEntry, resume)
    BY DEF LoadNextEntry
  <2>3. resume \in Positions /\ "advance" \in Kinds
    BY PlayerAssumption DEF Positions, Kinds
  <2> HIDE DEF rest
  <2> QED
    BY <1>1, <2>1, <2>2, <2>3, SelectDeliveryType
<1>5. queue' \in Queue /\ queue'.post = None
  <2> DEFINE more == serverEntry < LastEntry
  <2>1. more \in BOOLEAN
    OBVIOUS
  <2>2. queue' = [queue EXCEPT !.post = None, !.next = more, !.autoplay = more]
    BY DEF LoadNextEntry, AdvancedQueue
  <2> HIDE DEF more
  <2> QED
    BY <2>1, <2>2 DEF PlayerInv, TypeOK, Queue
<1>6. screen' \in Screen /\ audio' = None /\ recoveries' = 0
  BY DEF LoadNextEntry, PlayerInv, TypeOK, Screen
<1>7. TypeOK'
  BY <1>1, <1>2, <1>3, <1>4, <1>5, <1>6 DEF PlayerInv, TypeOK, Shown, Video, Delivery, Queue, Screen
<1>8. MediumIsMarked' /\ ReadyForShown' /\ CompletesShown'
  BY <1>3, <1>5 DEF MediumIsMarked, ReadyForShown, CompletesShown
<1>9. PendingOfShown'
  BY <1>1, <1>2 DEF PlayerInv, PendingOfShown
<1>10. ReportsNameTheirMedia' /\ Kept(reports.pending, reports'.pending, reports'.active)
  BY <1>1 DEF PlayerInv, ReportsNameTheirMedia, Kept
<1> QED
  BY <1>7, <1>8, <1>9, <1>10 DEF Goal, PlayerInv

-----------------------------------------------------------------------------
(* The server goes on: a waiting report of an entry that is over stays so.  *)
LEMMA ServerStep ==
  ASSUME PlayerInv, ServerCompletes
  PROVE  Goal
<1>1. /\ UNCHANGED <<shown, delivery, video, seeking, requests, audio, recoveries, reports, queue,
                    screen, flushed, disturbances>>
      /\ serverEntry' = serverEntry + 1 /\ serverEntry \in Entries
  BY DEF ServerCompletes, PlayerInv, TypeOK
<1>2. TypeOK'
  BY <1>1, PlayerAssumption DEF PlayerInv, TypeOK, Entries
<1>3. PendingOfShown'
  <2>1. reports.pending # None => reports.pending.entry \in Int
    BY PlayerAssumption DEF PlayerInv, TypeOK, Reports, Entries
  <2> QED
    BY <1>1, <2>1, PlayerAssumption DEF PlayerInv, PendingOfShown, Entries
<1>4. /\ MediumIsMarked' /\ ReadyForShown' /\ CompletesShown' /\ ReportsNameTheirMedia'
      /\ Kept(reports.pending, reports'.pending, reports'.active)
  BY <1>1 DEF PlayerInv, MediumIsMarked, ReadyForShown, CompletesShown, ReportsNameTheirMedia, Kept
<1> QED
  BY <1>2, <1>3, <1>4 DEF Goal, PlayerInv

(* The answer to a report sends the one that waits. *)
LEMMA ReportStep ==
  ASSUME PlayerInv, NEW saved \in BOOLEAN, ReportAnswered(saved)
  PROVE  Goal
<1>1. /\ UNCHANGED <<delivery, video, seeking, requests, audio, recoveries, queue, screen, flushed,
                    serverEntry, disturbances>>
      /\ reports' = [active |-> reports.pending, pending |-> None]
      /\ reports.active # None
      /\ \/ shown' = shown \/ shown' = [shown EXCEPT !.reported = reports.active.position]
  BY DEF ReportAnswered
<1>2. reports.active \in Reports
  BY <1>1 DEF PlayerInv, TypeOK
<1>3. shown' \in Shown /\ shown'.entry = shown.entry
  <2>1. reports.active.position \in Positions /\ shown \in Shown
    BY <1>2 DEF Reports, PlayerInv, TypeOK, Shown
  <2> QED
    BY <1>1, <2>1 DEF Shown
<1>4. TypeOK'
  BY <1>1, <1>3 DEF PlayerInv, TypeOK, Shown
<1>5. MediumIsMarked' /\ ReadyForShown' /\ CompletesShown' /\ PendingOfShown'
  BY <1>1, <1>3 DEF PlayerInv, MediumIsMarked, ReadyForShown, CompletesShown, PendingOfShown
<1>6. ReportsNameTheirMedia' /\ Kept(reports.pending, reports'.pending, reports'.active)
  BY <1>1 DEF PlayerInv, ReportsNameTheirMedia, Kept
<1> QED
  BY <1>4, <1>5, <1>6 DEF Goal, PlayerInv

(* The flush at page hide is of the medium of the shown entry.              *)
LEMMA ScreenStep ==
  ASSUME PlayerInv, FullscreenChange \/ PageHide
  PROVE  Goal
<1>1. /\ UNCHANGED <<shown, delivery, video, seeking, requests, audio, recoveries, reports, queue,
                    serverEntry>>
      /\ UNCHANGED disturbances \/ Disturbance
  BY DEF FullscreenChange, PageHide
<1>2. disturbances' \in 0 .. MaxDisturbances
  BY <1>1, PlayerAssumption DEF Disturbance, PlayerInv, TypeOK
<1>3. screen' \in Screen
  <2>1. screen \in Screen
    BY DEF PlayerInv, TypeOK, Screen
  <2>2. CASE FullscreenChange
    <3> DEFINE full == ~screen.full
               shownPage == IF screen.full /\ screen.itemPage THEN "leaving" ELSE screen.page
               itemPage == screen.itemPage /\ ~screen.full
    <3>1. screen' = [screen EXCEPT !.full = full, !.page = shownPage, !.itemPage = itemPage]
      BY <2>2 DEF FullscreenChange
    <3>2. full \in BOOLEAN /\ itemPage \in BOOLEAN
      BY Zenon
    <3>3. shownPage \in {"open", "leaving", "gone"}
      BY <2>1 DEF Screen
    <3> HIDE DEF full, shownPage, itemPage
    <3> QED
      BY <2>1, <3>1, <3>2, <3>3 DEF Screen
  <2>3. CASE PageHide
    BY <2>1, <2>3 DEF PageHide, Screen
  <2> QED
    BY <2>2, <2>3
<1>4. /\ flushed' \in Reports \cup {None}
      /\ flushed' # None => flushed'.source \in {flushed'.entry, None}
  <2>1. CASE UNCHANGED flushed
    BY <2>1 DEF PlayerInv, TypeOK, ReportsNameTheirMedia
  <2>2. CASE PageHide
    <3> DEFINE position == PlaybackPosition(video, delivery)
               seek == IsSeekInProgress \/ delivery.seekPending
    <3>1. \/ flushed' = None
          \/ /\ video.ready
             /\ flushed' = [entry |-> shown.entry, position |-> position,
                            seek |-> seek, source |-> video.source]
      BY <2>2 DEF PageHide, Reportable
    <3>2. position \in Positions
      BY PositionType DEF PlayerInv, TypeOK
    <3>3. seek \in BOOLEAN
      BY Zenon
    <3>4. shown.entry \in Entries /\ video.source \in Entries \cup {None}
      BY DEF PlayerInv, TypeOK
    <3> HIDE DEF position, seek
    <3> QED
      BY <3>1, <3>2, <3>3, <3>4, ReadyMedium DEF Reports
  <2> QED
    BY <2>1, <2>2 DEF FullscreenChange
<1>5. TypeOK'
  BY <1>1, <1>2, <1>3, <1>4 DEF PlayerInv, TypeOK, Screen
<1>6. MediumIsMarked' /\ ReadyForShown' /\ CompletesShown' /\ PendingOfShown'
  BY <1>1 DEF PlayerInv, MediumIsMarked, ReadyForShown, CompletesShown, PendingOfShown
<1>7. ReportsNameTheirMedia' /\ Kept(reports.pending, reports'.pending, reports'.active)
  BY <1>1, <1>4 DEF PlayerInv, ReportsNameTheirMedia, Kept
<1> QED
  BY <1>5, <1>6, <1>7 DEF Goal, PlayerInv

-----------------------------------------------------------------------------
(* Every step keeps the invariant, and what waits.                          *)
LEMMA PlayerInvStep == PlayerInv /\ [Next]_vars => Goal
<1> SUFFICES ASSUME PlayerInv, [Next]_vars PROVE Goal
  OBVIOUS
<1>1. CASE \E kind \in Kinds : DeliveryAnswered(kind)
  BY <1>1, DeliveryStep
<1>2. CASE LoadedMetadata
  BY <1>2, MetadataStep
<1>3. CASE TimeAdvances \/ Seeked \/ TogglePlay \/ Ended
  BY <1>3, PlaybackStep
<1>4. CASE \/ Playing \/ StreamBreaks \/ ChangeAudio \/ AudioSaved \/ ChooseAutoplay
           \/ \E p \in Positions : SeekDirect(p) \/ RestartGeneratedStream(p)
  BY <1>4, ControlStep
<1>5. CASE PlayNext \/ CompletionFails \/ CurrentCompleted \/ QueueCompleted \/ GoToNextItem
  BY <1>5, CompletionStep
<1>6. CASE \E resume \in Resumes : LoadNextEntry(resume)
  BY <1>6, NextEntryStep
<1>7. CASE ServerCompletes
  BY <1>7, ServerStep
<1>8. CASE Report
  BY <1>8, ReportStep DEF Report
<1>9. CASE FullscreenChange \/ PageHide
  BY <1>9, ScreenStep
<1>10. CASE UNCHANGED vars
  <2>1. TypeOK' /\ MediumIsMarked' /\ ReadyForShown' /\ CompletesShown'
    BY <1>10 DEF vars, PlayerInv, TypeOK, MediumIsMarked, ReadyForShown, CompletesShown
  <2> QED
    BY <1>10, <2>1, QuietStep DEF vars, Goal, PlayerInv
<1> QED
  BY <1>1, <1>2, <1>3, <1>4, <1>5, <1>6, <1>7, <1>8, <1>9, <1>10 DEF Next, CompletionAnswered

(* The page opens with an empty player.                                     *)
LEMMA PlayerInvInit == Init => PlayerInv
<1> SUFFICES ASSUME Init PROVE PlayerInv
  OBVIOUS
<1>1. PICK resume \in Resumes : /\ shown = Opened(0, resume)
                                /\ requests = SelectDelivery({}, "load", 0, resume)
  BY DEF Init
<1>2. 0 \in Entries /\ 0 \in Positions /\ resume \in Positions
  BY PlayerAssumption DEF Entries, Positions
<1>3. requests \in SUBSET Requests
  BY <1>1, <1>2, SelectDeliveryType DEF Kinds
<1>4. shown \in Shown /\ shown.entry = 0
  BY <1>1, <1>2 DEF Opened, Shown
<1>5. video \in Video /\ video.source = None /\ ~video.ready
  BY DEF Init, NoVideo, Video
<1>6. queue \in Queue /\ queue.post = None
  <2> DEFINE more == LastEntry > 0
  <2>1. more \in BOOLEAN
    OBVIOUS
  <2>2. queue = [next |-> more, autoplay |-> more, completing |-> FALSE, post |-> None]
    BY DEF Init
  <2> HIDE DEF more
  <2> QED
    BY <2>1, <2>2 DEF Queue
<1>7. /\ reports = [active |-> None, pending |-> None] /\ flushed = None
      /\ delivery \in Delivery /\ screen \in Screen
  BY <1>2 DEF Init, Delivery, Screen
<1>8. TypeOK
  <2>1. seeking = FALSE /\ audio = None /\ recoveries = 0 /\ disturbances = 0 /\ serverEntry = 0
    BY DEF Init
  <2>2. 0 \in 0 .. MaxDisturbances /\ 0 \in 0 .. LastEntry + 1
    BY PlayerAssumption
  <2>3. reports \in [active : Reports \cup {None}, pending : Reports \cup {None}]
    BY <1>7
  <2>4. shown \in Shown /\ video \in Video /\ queue \in Queue /\ delivery \in Delivery /\ screen \in Screen
    BY <1>4, <1>5, <1>6, <1>7
  <2>5. flushed \in Reports \cup {None} /\ requests \in SUBSET Requests
    BY <1>3, <1>7
  <2>6. seeking \in BOOLEAN /\ audio \in Positions \cup {None}
    BY <2>1
  <2>7. /\ recoveries \in 0 .. 1 /\ disturbances \in 0 .. MaxDisturbances
        /\ serverEntry \in 0 .. LastEntry + 1
    BY <2>1, <2>2
  <2> QED
    BY <2>3, <2>4, <2>5, <2>6, <2>7, Zenon DEF TypeOK, Shown, Video, Queue, Delivery, Screen
<1> QED
  BY <1>4, <1>5, <1>6, <1>7, <1>8
     DEF PlayerInv, MediumIsMarked, ReadyForShown, CompletesShown, PendingOfShown, ReportsNameTheirMedia

(* Every report names the medium it was read from, for any number of        *)
(* entries, positions, requests in flight and disturbances.                 *)
THEOREM ReportsAlwaysNameTheirMedia == Spec => []ReportsNameTheirMedia
<1>1. PlayerInv /\ [Next]_vars => PlayerInv'
  BY PlayerInvStep DEF Goal
<1>2. PlayerInv => ReportsNameTheirMedia
  BY DEF PlayerInv
<1> QED
  BY <1>1, <1>2, PlayerInvInit, PTL DEF Spec

(* No step of a page that stays loses a report that waits behind the one in *)
(* flight.                                                                   *)
THEOREM NoWaitingReportIsLost == Spec => WaitingReportsAreKept
<1>1. PlayerInv /\ [Next]_vars => PlayerInv'
  BY PlayerInvStep DEF Goal
<1>2. PlayerInv /\ [Next]_vars =>
        [LET old == reports.pending
             new == reports'.pending
         IN  old # None /\ new # old =>
               \/ reports'.active = old
               \/ new # None /\ new.entry = old.entry /\ (old.seek => new.seek)
               \/ old.entry < serverEntry]_vars
  BY PlayerInvStep DEF Goal, Kept
<1> QED
  BY <1>1, <1>2, PlayerInvInit, PTL DEF Spec, WaitingReportsAreKept

-----------------------------------------------------------------------------
(* The player beside the other parts of the page: whichever part a          *)
(* behaviour exercises, the player makes steps of its own or none.          *)
LEMMA PlayerPart == LiveInit => Init
BY DEF LiveInit, NoPlayer

LEMMA PlayerPartStep == [LiveNext]_liveVars => [Next]_vars
BY Zenon DEF LiveNext, liveVars, playerVars, vars

(* Every report of the player names its medium, in a behaviour of any part.  *)
THEOREM LivePlayerReportsNameTheirMedia == LiveSpec => []ReportsNameTheirMedia
<1>1. PlayerInv /\ [LiveNext]_liveVars => PlayerInv'
  BY PlayerPartStep, PlayerInvStep DEF Goal
<1>2. LiveInit => PlayerInv
  BY PlayerPart, PlayerInvInit
<1>3. PlayerInv => ReportsNameTheirMedia
  BY DEF PlayerInv
<1> QED
  BY <1>1, <1>2, <1>3, PTL DEF LiveSpec

(* No waiting report is lost while the page stays, in a behaviour of any     *)
(* part.                                                                     *)
THEOREM LivePlayerKeepsWaitingReports == LiveSpec => WaitingReportsAreKept
<1>1. PlayerInv /\ [LiveNext]_liveVars => PlayerInv' /\
        [LET old == reports.pending
             new == reports'.pending
         IN  old # None /\ new # old =>
               \/ reports'.active = old
               \/ new # None /\ new.entry = old.entry /\ (old.seek => new.seek)
               \/ old.entry < serverEntry]_vars
  BY PlayerPartStep, PlayerInvStep DEF Goal, Kept
<1>2. LiveInit => PlayerInv
  BY PlayerPart, PlayerInvInit
<1> QED
  BY <1>1, <1>2, PTL DEF LiveSpec, WaitingReportsAreKept

-----------------------------------------------------------------------------
(* LibraryGrid: the pages that the server hands out.                        *)

LEMMA PlaceTypes ==
  /\ Grid!Places \subseteq Nat /\ None \notin Grid!Places /\ None \notin Int
  /\ Grid!Places = 1 .. Last
BY PlayerAssumption, LiveAssumption DEF Grid!Places

LEMMA MinimumExists ==
  ASSUME NEW S \in SUBSET Nat, S # {}
  PROVE  \E i \in S : \A j \in S : i <= j
<1>1. PICK i \in S : \A j \in S : <<j, i>> \notin OpToRel(<, Nat)
  BY NatLessThanWellFounded, WFMin
<1>2. ASSUME NEW j \in S PROVE i <= j
  <2>1. <<j, i>> \in Nat \X Nat /\ i \in Nat /\ j \in Nat
    OBVIOUS
  <2>2. ~(j < i)
    BY <1>1, <2>1 DEF OpToRel
  <2> QED
    BY <2>1, <2>2
<1> QED
  BY <1>2

LEMMA LowestIsThere ==
  ASSUME NEW S \in SUBSET Nat, S # {}
  PROVE  Grid!Lowest(S) \in S /\ \A j \in S : Grid!Lowest(S) <= j
BY MinimumExists DEF Grid!Lowest

LEMMA HighestIsThere ==
  ASSUME NEW S \in SUBSET Grid!Places, S # {}
  PROVE  Grid!Highest(S) \in S /\ \A j \in S : j <= Grid!Highest(S)
<1> DEFINE Minus(i) == Last - i
           T == {Minus(i) : i \in S}
<1>1. \A i \in S : i \in Nat /\ Minus(i) \in Nat
  BY PlaceTypes, LiveAssumption
<1>2. T \in SUBSET Nat /\ T # {}
  BY <1>1
<1>3. PICK i \in T : \A j \in T : i <= j
  <2> HIDE DEF T
  <2> QED
    BY <1>2, MinimumExists
<1>4. PICK k \in S : i = Minus(k)
  OBVIOUS
<1>5. ASSUME NEW j \in S PROVE j <= k
  <2>1. Minus(j) \in T
    OBVIOUS
  <2>2. Minus(k) <= Minus(j)
    BY <1>3, <1>4, <2>1
  <2> QED
    BY <1>1, <2>2, LiveAssumption
<1> QED
  BY <1>5 DEF Grid!Highest

(* The grid counts as the library does.                                     *)
LEMMA GridCounts == \A S : Grid!Cardinality(S) = Cardinality(S)
BY DEF Grid!Cardinality, Cardinality

(* A page takes the first PageSize places in the direction of before: with  *)
(* a place every place before it, and one place if there is any.            *)
LEMMA TakenFromAbove ==
  ASSUME NEW rest \in SUBSET Grid!Places
  PROVE  LET taken == {p \in rest : Grid!Cardinality({q \in rest : q < p}) < PageSize}
         IN  /\ \A p \in taken, q \in rest : q <= p => q \in taken
             /\ rest # {} => taken # {}
<1> DEFINE Before(p) == {q \in rest : q < p}
           taken == {p \in rest : Grid!Cardinality(Before(p)) < PageSize}
<1>1. rest \in SUBSET Nat /\ IsFiniteSet(rest)
  <2>1. IsFiniteSet(1 .. Last)
    BY FS_Interval, LiveAssumption
  <2> QED
    BY <2>1, PlaceTypes, FS_Subset
<1>2. \A p : Before(p) \subseteq rest /\ IsFiniteSet(Before(p)) /\ Cardinality(Before(p)) \in Nat
  BY <1>1, FS_Subset, FS_CardinalityType
<1>3. ASSUME NEW p \in taken, NEW q \in rest, q <= p PROVE q \in taken
  <2>1. ASSUME NEW x \in Before(q) PROVE x \in Before(p)
    <3>1. x \in rest /\ x \in Nat /\ q \in Nat /\ p \in Nat /\ x < q
      BY <1>1
    <3> QED
      BY <1>3, <3>1
  <2>2. Cardinality(Before(q)) <= Cardinality(Before(p))
    BY <1>2, <2>1, FS_Subset
  <2> QED
    BY <1>2, <1>3, <2>2, GridCounts, LiveAssumption
<1>4. ASSUME rest # {} PROVE taken # {}
  <2>1. PICK m \in rest : \A q \in rest : m <= q
    BY <1>1, <1>4, MinimumExists
  <2>2. Before(m) = {}
    <3>1. ASSUME NEW x \in Before(m) PROVE FALSE
      <4>1. x \in rest /\ x \in Nat /\ m \in Nat /\ x < m
        BY <1>1
      <4> QED
        BY <2>1, <4>1
    <3> QED
      BY <3>1
  <2>3. Grid!Cardinality(Before(m)) = 0
    BY <2>2, GridCounts, FS_EmptySet
  <2> QED
    BY <2>1, <2>3, LiveAssumption
<1> QED
  BY <1>3, <1>4

LEMMA TakenFromBelow ==
  ASSUME NEW rest \in SUBSET Grid!Places
  PROVE  LET taken == {p \in rest : Grid!Cardinality({q \in rest : q > p}) < PageSize}
         IN  /\ \A p \in taken, q \in rest : q >= p => q \in taken
             /\ rest # {} => taken # {}
<1> DEFINE Behind(p) == {q \in rest : q > p}
           taken == {p \in rest : Grid!Cardinality(Behind(p)) < PageSize}
<1>1. rest \in SUBSET Nat /\ IsFiniteSet(rest)
  <2>1. IsFiniteSet(1 .. Last)
    BY FS_Interval, LiveAssumption
  <2> QED
    BY <2>1, PlaceTypes, FS_Subset
<1>2. \A p : Behind(p) \subseteq rest /\ IsFiniteSet(Behind(p)) /\ Cardinality(Behind(p)) \in Nat
  BY <1>1, FS_Subset, FS_CardinalityType
<1>3. ASSUME NEW p \in taken, NEW q \in rest, q >= p PROVE q \in taken
  <2>1. ASSUME NEW x \in Behind(q) PROVE x \in Behind(p)
    <3>1. x \in rest /\ x \in Nat /\ q \in Nat /\ p \in Nat /\ x > q
      BY <1>1
    <3> QED
      BY <1>3, <3>1
  <2>2. Cardinality(Behind(q)) <= Cardinality(Behind(p))
    BY <1>2, <2>1, FS_Subset
  <2> QED
    BY <1>2, <1>3, <2>2, GridCounts, LiveAssumption
<1>4. ASSUME rest # {} PROVE taken # {}
  <2>1. Grid!Highest(rest) \in rest /\ \A q \in rest : q <= Grid!Highest(rest)
    BY <1>4, HighestIsThere
  <2>2. Behind(Grid!Highest(rest)) = {}
    <3>1. ASSUME NEW x \in Behind(Grid!Highest(rest)) PROVE FALSE
      <4>1. x \in rest /\ x \in Nat /\ Grid!Highest(rest) \in Nat /\ x > Grid!Highest(rest)
        BY <1>1, <2>1
      <4> QED
        BY <2>1, <4>1
    <3> QED
      BY <3>1
  <2>3. Grid!Cardinality(Behind(Grid!Highest(rest))) = 0
    BY <2>2, GridCounts, FS_EmptySet
  <2> QED
    BY <2>1, <2>3, LiveAssumption
<1> QED
  BY <1>3, <1>4

Cursors == Grid!Places \cup {None}

GridPages == [items : SUBSET Grid!Places, previous : Cursors, next : Cursors]

(* A page lies between its cursors.                                         *)
Bounded(leaf) ==
  /\ leaf \in GridPages
  /\ \A p \in leaf.items : /\ leaf.previous = None \/ leaf.previous <= p
                           /\ leaf.next = None \/ p <= leaf.next

Mountable(leaf) == [items |-> leaf.items, previous |-> leaf.previous, next |-> leaf.next]

(* A page after a cursor holds every poster up to its own next cursor, and  *)
(* lies behind the cursor.                                                  *)
LEMMA PageAfterFits ==
  ASSUME catalogue \subseteq Grid!Places, NEW s \in GridSources, NEW c \in Cursors
  PROVE  LET leaf == Grid!PageAfter(s, c)
         IN  /\ Bounded(Mountable(leaf))
             /\ leaf.items \subseteq Matching[s]
             /\ c = None => leaf.previous = None
             /\ c # None /\ leaf.items # {} => leaf.previous # None
             /\ c # None /\ leaf.previous # None => c < leaf.previous
             /\ c # None /\ leaf.next # None => c < leaf.next
             /\ \A p \in Grid!Kept(s) : /\ c = None \/ c < p
                                        /\ leaf.next = None \/ p <= leaf.next
                                        => p \in leaf.items
<1> DEFINE rest == {p \in catalogue \cap Matching[s] : c = None \/ p > c}
           taken == {p \in rest : Grid!Cardinality({q \in rest : q < p}) < PageSize}
           leaf == Grid!PageAfter(s, c)
<1>1. rest \in SUBSET Grid!Places
  OBVIOUS
<1>2. /\ \A p \in taken, q \in rest : q <= p => q \in taken
      /\ rest # {} => taken # {}
  <2> HIDE DEF rest
  <2> QED
    BY <1>1, TakenFromAbove
<1>3. /\ leaf.items = taken \ Unshown
      /\ leaf.previous = IF taken = {} \/ c = None THEN None ELSE Grid!Lowest(taken)
      /\ leaf.next = IF taken = rest THEN None ELSE Grid!Highest(taken)
  BY DEF Grid!PageAfter
<1>4. taken \subseteq rest /\ \A p \in rest : c = None \/ c < p
  <2>1. \A p \in rest : p \in Nat
    BY <1>1, PlaceTypes
  <2> QED
    BY <2>1, PlaceTypes
<1> HIDE DEF taken
<1>5. taken # {} => /\ Grid!Lowest(taken) \in taken /\ \A p \in taken : Grid!Lowest(taken) <= p
                    /\ Grid!Highest(taken) \in taken /\ \A p \in taken : p <= Grid!Highest(taken)
  BY <1>1, <1>4, LowestIsThere, HighestIsThere, PlaceTypes
<1>6. taken = {} => taken = rest
  BY <1>2
<1>7. \A p \in Grid!Kept(s) : (c = None \/ c < p) => p \in rest /\ p \notin Unshown
  BY PlaceTypes DEF Grid!Kept
<1> HIDE DEF rest, leaf
<1>8. leaf.items \subseteq taken /\ leaf.previous \in Cursors /\ leaf.next \in Cursors
  BY <1>1, <1>3, <1>4, <1>5, <1>6 DEF Cursors
<1>9. Bounded(Mountable(leaf))
  BY <1>1, <1>3, <1>4, <1>5, <1>6, <1>8, PlaceTypes DEF Bounded, GridPages, Mountable
<1>10. leaf.items \subseteq Matching[s]
  BY <1>4, <1>8 DEF rest
<1>11. ASSUME c # None
       PROVE  /\ leaf.items # {} => leaf.previous # None
              /\ leaf.previous # None => c < leaf.previous
              /\ leaf.next # None => c < leaf.next
  BY <1>1, <1>3, <1>4, <1>5, <1>6, <1>8, <1>11, PlaceTypes
<1>12. ASSUME NEW p \in Grid!Kept(s), c = None \/ c < p, leaf.next = None \/ p <= leaf.next
       PROVE  p \in leaf.items
  <2>1. p \in rest /\ p \notin Unshown
    BY <1>7, <1>12
  <2>2. p \in taken
    <3>1. CASE taken = rest
      BY <2>1, <3>1
    <3>2. CASE taken # rest
      <4>1. leaf.next = Grid!Highest(taken) /\ taken # {}
        BY <1>3, <1>6, <3>2
      <4>2. leaf.next # None
        BY <1>1, <1>4, <1>5, <4>1, PlaceTypes
      <4> QED
        BY <1>2, <1>5, <1>12, <2>1, <4>1, <4>2
    <3> QED
      BY <3>1, <3>2
  <2> QED
    BY <1>3, <2>1, <2>2
<1> QED
  BY <1>3, <1>9, <1>10, <1>11, <1>12 DEF leaf

LEMMA PageBeforeFits ==
  ASSUME catalogue \subseteq Grid!Places, NEW s \in GridSources, NEW c \in Grid!Places
  PROVE  LET leaf == Grid!PageBefore(s, c)
         IN  /\ Bounded(Mountable(leaf))
             /\ leaf.items \subseteq Matching[s]
             /\ leaf.items # {} => leaf.next # None
             /\ leaf.next # None => leaf.next < c
             /\ leaf.previous # None => leaf.previous < c
             /\ \A p \in Grid!Kept(s) : /\ p < c
                                        /\ leaf.previous = None \/ leaf.previous <= p
                                        => p \in leaf.items
<1> DEFINE rest == {p \in catalogue \cap Matching[s] : p < c}
           taken == {p \in rest : Grid!Cardinality({q \in rest : q > p}) < PageSize}
           leaf == Grid!PageBefore(s, c)
<1>1. rest \in SUBSET Grid!Places
  OBVIOUS
<1>2. /\ \A p \in taken, q \in rest : q >= p => q \in taken
      /\ rest # {} => taken # {}
  <2> HIDE DEF rest
  <2> QED
    BY <1>1, TakenFromBelow
<1>3. /\ leaf.items = taken \ Unshown
      /\ leaf.previous = IF taken = rest THEN None ELSE Grid!Lowest(taken)
      /\ leaf.next = IF taken = {} THEN None ELSE Grid!Highest(taken)
  BY DEF Grid!PageBefore
<1>4. taken \subseteq rest /\ \A p \in rest : p < c
  OBVIOUS
<1> HIDE DEF taken
<1>5. taken # {} => /\ Grid!Lowest(taken) \in taken /\ \A p \in taken : Grid!Lowest(taken) <= p
                    /\ Grid!Highest(taken) \in taken /\ \A p \in taken : p <= Grid!Highest(taken)
  BY <1>1, <1>4, LowestIsThere, HighestIsThere, PlaceTypes
<1>6. taken = {} => taken = rest
  BY <1>2
<1>7. \A p \in Grid!Kept(s) : p < c => p \in rest /\ p \notin Unshown
  BY PlaceTypes DEF Grid!Kept
<1> HIDE DEF rest, leaf
<1>8. leaf.items \subseteq taken /\ leaf.previous \in Cursors /\ leaf.next \in Cursors
  BY <1>1, <1>3, <1>4, <1>5, <1>6 DEF Cursors
<1>9. Bounded(Mountable(leaf))
  BY <1>1, <1>3, <1>4, <1>5, <1>6, <1>8, PlaceTypes DEF Bounded, GridPages, Mountable
<1>10. leaf.items \subseteq Matching[s]
  BY <1>4, <1>8 DEF rest
<1>11. /\ leaf.items # {} => leaf.next # None
       /\ leaf.next # None => leaf.next < c
       /\ leaf.previous # None => leaf.previous < c
  BY <1>1, <1>3, <1>4, <1>5, <1>6, <1>8, PlaceTypes
<1>12. ASSUME NEW p \in Grid!Kept(s), p < c, leaf.previous = None \/ leaf.previous <= p
       PROVE  p \in leaf.items
  <2>1. p \in rest /\ p \notin Unshown
    BY <1>7, <1>12
  <2>2. p \in taken
    <3>1. CASE taken = rest
      BY <2>1, <3>1
    <3>2. CASE taken # rest
      <4>1. leaf.previous = Grid!Lowest(taken) /\ taken # {}
        BY <1>3, <1>6, <3>2
      <4>2. leaf.previous # None /\ leaf.previous \in Nat /\ p \in Nat
        BY <1>1, <1>4, <1>5, <2>1, <4>1, PlaceTypes
      <4> QED
        BY <1>2, <1>5, <1>12, <2>1, <4>1, <4>2
    <3> QED
      BY <3>1, <3>2
  <2> QED
    BY <1>3, <2>1, <2>2
<1> QED
  BY <1>9, <1>10, <1>11, <1>12 DEF leaf

-----------------------------------------------------------------------------
(* The mounted pages.  They follow one another: between two of them the one *)
(* ends before the other starts.  Only the first page may be without        *)
(* posters, and only when nothing comes before it.                          *)
PagesFit(ps, s) ==
  /\ ps \in Seq(GridPages)
  /\ \A i \in 1 .. Len(ps) : Bounded(ps[i]) /\ ps[i].items \subseteq Matching[s]
  /\ \A i \in 1 .. Len(ps) : ps[i].items = {} => i = 1 /\ ps[i].previous = None
  /\ \A i, j \in 1 .. Len(ps) : i < j =>
       ps[i].next # None /\ ps[j].previous # None /\ ps[i].next < ps[j].previous

LEMMA PageTypes ==
  ASSUME NEW leaf, Bounded(leaf)
  PROVE  /\ leaf.items \subseteq Grid!Places
         /\ leaf.previous \in Cursors /\ leaf.next \in Cursors
         /\ leaf.previous # None => leaf.previous \in Nat
         /\ leaf.next # None => leaf.next \in Nat
BY PlaceTypes DEF Bounded, GridPages, Cursors

LEMMA PosterBetweenCursors ==
  ASSUME NEW leaf, Bounded(leaf), NEW p \in leaf.items
  PROVE  /\ p \in Nat
         /\ leaf.previous = None \/ leaf.previous <= p
         /\ leaf.next = None \/ p <= leaf.next
BY PlaceTypes DEF Bounded, GridPages

LEMMA PagesTypes ==
  ASSUME NEW ps, NEW s, PagesFit(ps, s)
  PROVE  /\ Len(ps) \in Nat /\ DOMAIN ps = 1 .. Len(ps)
         /\ \A i \in 1 .. Len(ps) : Bounded(ps[i])
BY DEF PagesFit

(* The posters of pages that follow one another are in order.               *)
LEMMA PagesAreInOrder ==
  ASSUME NEW ps, NEW s, PagesFit(ps, s)
  PROVE  /\ Grid!Posters(ps) \subseteq Matching[s]
         /\ \A i, j \in DOMAIN ps : i < j =>
              \A p \in ps[i].items, q \in ps[j].items : p < q
<1>1. Grid!Posters(ps) \subseteq Matching[s]
  BY PagesTypes DEF PagesFit, Grid!Posters
<1>2. ASSUME NEW i \in 1 .. Len(ps), NEW j \in 1 .. Len(ps), i < j,
             NEW p \in ps[i].items, NEW q \in ps[j].items
      PROVE  p < q
  <2>1. ps[i].next # None /\ ps[j].previous # None /\ ps[i].next < ps[j].previous
    BY <1>2 DEF PagesFit
  <2>2. Bounded(ps[i]) /\ Bounded(ps[j])
    BY PagesTypes
  <2>3. p \in Nat /\ p <= ps[i].next /\ ps[i].next \in Nat
    BY <2>1, <2>2, PageTypes, PosterBetweenCursors
  <2>4. q \in Nat /\ ps[j].previous <= q /\ ps[j].previous \in Nat
    BY <2>1, <2>2, PageTypes, PosterBetweenCursors
  <2> QED
    BY <2>1, <2>3, <2>4
<1> QED
  BY <1>1, <1>2, PagesTypes

(* No cursor lies beyond those of the edges.                                *)
LEMMA EdgesAreOutermost ==
  ASSUME NEW ps, NEW s, PagesFit(ps, s), NEW k \in 1 .. Len(ps)
  PROVE  /\ ps[Len(ps)].next # None =>
              ps[k].next # None /\ ps[k].next <= ps[Len(ps)].next
         /\ ps[1].previous # None =>
              ps[k].previous # None /\ ps[1].previous <= ps[k].previous
<1> DEFINE n == Len(ps)
<1>1. n \in Nat /\ 1 \in 1 .. n /\ n \in 1 .. n
  BY PagesTypes
<1> HIDE DEF n
<1>2. /\ \A i \in 1 .. n : ps[i].previous # None => ps[i].previous \in Nat
      /\ \A i \in 1 .. n : ps[i].next # None => ps[i].next \in Nat
  BY PagesTypes, PageTypes DEF n
<1>3. ASSUME NEW i \in 1 .. n, NEW q \in ps[i].items
      PROVE  /\ q \in Nat
             /\ ps[i].previous = None \/ ps[i].previous <= q
             /\ ps[i].next = None \/ q <= ps[i].next
  BY PagesTypes, PosterBetweenCursors DEF n
<1>4. k \in 1 .. n
  BY DEF n
<1>5. ASSUME ps[n].next # None PROVE ps[k].next # None /\ ps[k].next <= ps[n].next
  <2>1. CASE k = n
    BY <1>1, <1>2, <1>5, <2>1
  <2>2. CASE k < n
    <3>1. ps[k].next # None /\ ps[n].previous # None /\ ps[k].next < ps[n].previous
      BY <1>1, <1>4, <2>2 DEF PagesFit, n
    <3>2. PICK q \in ps[n].items : TRUE
      BY <1>1, <1>4, <2>2 DEF PagesFit, n
    <3>3. ps[n].previous <= q /\ q <= ps[n].next /\ q \in Nat
      BY <1>1, <1>3, <1>5, <3>1
    <3> QED
      BY <1>1, <1>2, <1>4, <1>5, <3>1, <3>3
  <2> QED
    BY <1>1, <1>4, <2>1, <2>2
<1>6. ASSUME ps[1].previous # None PROVE ps[k].previous # None /\ ps[1].previous <= ps[k].previous
  <2>1. CASE k = 1
    BY <1>1, <1>2, <1>6, <2>1
  <2>2. CASE 1 < k
    <3>1. ps[1].next # None /\ ps[k].previous # None /\ ps[1].next < ps[k].previous
      BY <1>1, <1>4, <2>2 DEF PagesFit, n
    <3>2. PICK q \in ps[1].items : TRUE
      BY <1>1, <1>6 DEF PagesFit, n
    <3>3. ps[1].previous <= q /\ q <= ps[1].next /\ q \in Nat
      BY <1>1, <1>3, <1>6, <3>1
    <3> QED
      BY <1>1, <1>2, <1>4, <1>6, <3>1, <3>3
  <2> QED
    BY <1>1, <1>4, <2>1, <2>2
<1> QED
  BY <1>5, <1>6 DEF n

(* The pages i to j of ps.                                                  *)
Piece(qs, ps, i, j) ==
  /\ qs = [k \in 1 .. j - i + 1 |-> ps[k + i - 1]]
  /\ i \in 1 .. Len(ps) /\ j \in i .. Len(ps)

LEMMA PieceFacts ==
  ASSUME NEW S, NEW ps \in Seq(S), NEW qs, NEW i, NEW j, Piece(qs, ps, i, j)
  PROVE  /\ qs \in Seq(S) /\ Len(qs) = j - i + 1 /\ Len(qs) \in Nat \ {0}
         /\ i \in Nat /\ j \in Nat /\ i <= j
         /\ \A k \in 1 .. Len(qs) : k + i - 1 \in i .. j /\ qs[k] = ps[k + i - 1]
         /\ \A k \in i .. j : k - i + 1 \in 1 .. Len(qs) /\ qs[k - i + 1] = ps[k]
         /\ qs[1] = ps[i] /\ qs[Len(qs)] = ps[j]
<1>1. /\ Len(ps) \in Nat /\ i \in Nat \ {0} /\ j \in Nat /\ i <= j /\ j <= Len(ps)
  BY DEF Piece
<1> DEFINE n == j - i + 1
<1>2. n \in Nat \ {0}
  BY <1>1
<1>3. \A k \in 1 .. n : k + i - 1 \in i .. j /\ k + i - 1 \in 1 .. Len(ps)
  BY <1>1
<1>4. \A k \in 1 .. n : ps[k + i - 1] \in S
  BY <1>3
<1>5. qs = [k \in 1 .. n |-> ps[k + i - 1]]
  BY DEF Piece
<1>6. \A k \in i .. j : k - i + 1 \in 1 .. n /\ (k - i + 1) + i - 1 = k
  BY <1>1
<1> HIDE DEF n
<1>7. qs \in Seq(S) /\ Len(qs) = n /\ \A k \in 1 .. n : qs[k] = ps[k + i - 1]
  BY <1>2, <1>4, <1>5
<1>8. \A k \in i .. j : qs[k - i + 1] = ps[k]
  BY <1>6, <1>7
<1>9. qs[1] = ps[i] /\ qs[n] = ps[j]
  <2>1. 1 \in 1 .. n /\ n \in 1 .. n /\ 1 + i - 1 = i /\ n + i - 1 = j
    BY <1>1, <1>2 DEF n
  <2> QED
    BY <1>7, <2>1
<1> QED
  BY <1>1, <1>2, <1>3, <1>6, <1>7, <1>8, <1>9 DEF n

(* Pages that follow one another still do when some are given up at either  *)
(* end, and their edges do not move apart.                                  *)
LEMMA PieceFits ==
  ASSUME NEW ps, NEW qs, NEW s, NEW i, NEW j, PagesFit(ps, s), Piece(qs, ps, i, j)
  PROVE  /\ PagesFit(qs, s) /\ qs # <<>>
         /\ ps[Len(ps)].next # None =>
              qs[Len(qs)].next # None /\ qs[Len(qs)].next <= ps[Len(ps)].next
         /\ ps[1].previous # None =>
              qs[1].previous # None /\ ps[1].previous <= qs[1].previous
         /\ Grid!Whole(ps, s) => Grid!Whole(qs, s)
<1> DEFINE n == Len(ps)
           m == Len(qs)
<1>1. /\ qs \in Seq(GridPages) /\ m = j - i + 1 /\ m \in Nat \ {0}
      /\ i \in Nat /\ j \in Nat /\ i <= j
      /\ \A k \in 1 .. m : k + i - 1 \in i .. j /\ qs[k] = ps[k + i - 1]
      /\ \A k \in i .. j : k - i + 1 \in 1 .. m /\ qs[k - i + 1] = ps[k]
      /\ qs[1] = ps[i] /\ qs[m] = ps[j]
  <2> HIDE DEF m
  <2>1. ps \in Seq(GridPages)
    BY DEF PagesFit
  <2> QED
    BY <2>1, PieceFacts DEF m
<1>2. n \in Nat /\ i \in 1 .. n /\ j \in 1 .. n /\ 1 \in 1 .. n /\ n \in 1 .. n
  BY <1>1, PagesTypes DEF Piece
<1>3. \A k \in 1 .. m : k + i - 1 \in 1 .. n
  BY <1>1, <1>2
<1> HIDE DEF n, m
<1>4. PagesFit(qs, s)
  <2>1. \A k \in 1 .. m : Bounded(qs[k]) /\ qs[k].items \subseteq Matching[s]
    BY <1>1, <1>3 DEF PagesFit, n
  <2>2. ASSUME NEW k \in 1 .. m, qs[k].items = {} PROVE k = 1 /\ qs[k].previous = None
    <3>1. k + i - 1 = 1 /\ ps[k + i - 1].previous = None
      BY <1>1, <1>3, <2>2 DEF PagesFit, n
    <3>2. k \in Nat /\ k >= 1 /\ i \in Nat /\ i >= 1
      BY <1>1, <1>2
    <3>3. qs[k] = ps[k + i - 1]
      BY <1>1
    <3> QED
      BY <3>1, <3>2, <3>3
  <2>3. ASSUME NEW k \in 1 .. m, NEW l \in 1 .. m, k < l
        PROVE  qs[k].next # None /\ qs[l].previous # None /\ qs[k].next < qs[l].previous
    <3> DEFINE a == k + i - 1
               b == l + i - 1
    <3>1. a \in 1 .. n /\ b \in 1 .. n /\ qs[k] = ps[a] /\ qs[l] = ps[b]
      BY <1>1, <1>3
    <3>2. a < b
      BY <1>1, <2>3
    <3> HIDE DEF a, b
    <3> QED
      BY <3>1, <3>2 DEF PagesFit, n
  <2> QED
    BY <1>1, <2>1, <2>2, <2>3 DEF PagesFit, m
<1>5. qs # <<>>
  BY <1>1 DEF m
<1>6. \A k \in 1 .. n : ps[k].previous # None => ps[k].previous \in Nat
  BY PagesTypes, PageTypes DEF n
<1>7. \A k \in 1 .. n : ps[k].next # None => ps[k].next \in Nat
  BY PagesTypes, PageTypes DEF n
<1>8. ps[n].next # None => ps[j].next # None /\ ps[j].next <= ps[n].next
  BY <1>2, EdgesAreOutermost DEF n
<1>9. ps[1].previous # None => ps[i].previous # None /\ ps[1].previous <= ps[i].previous
  BY <1>2, EdgesAreOutermost DEF n
<1>10. ASSUME Grid!Whole(ps, s), NEW p \in Grid!Kept(s), p \in Grid!Reach(qs)
       PROVE  p \in Grid!Posters(qs)
  <2>1. /\ p \in Grid!Places /\ p \in Nat
        /\ ps[i].previous = None \/ ps[i].previous <= p
        /\ ps[j].next = None \/ p <= ps[j].next
    BY <1>1, <1>10, PlaceTypes DEF Grid!Reach, m
  <2>2. p \in Grid!Reach(ps)
    <3>1. ps[1].previous = None \/ ps[1].previous <= p
      BY <1>2, <1>6, <1>9, <2>1
    <3>2. ps[n].next = None \/ p <= ps[n].next
      BY <1>2, <1>7, <1>8, <2>1
    <3> QED
      BY <2>1, <3>1, <3>2 DEF Grid!Reach, n
  <2>3. ps # <<>>
    BY <1>2 DEF n
  <2>4. PICK k \in 1 .. n : p \in ps[k].items
    BY <1>10, <2>2, <2>3, PagesTypes DEF Grid!Whole, Grid!Posters, n
  <2>5. ps[k].previous = None \/ ps[k].previous <= p
    BY <2>4, PagesTypes, PosterBetweenCursors DEF n
  <2>6. ps[k].next = None \/ p <= ps[k].next
    BY <2>4, PagesTypes, PosterBetweenCursors DEF n
  <2>7. ~(k < i)
    <3>1. SUFFICES ASSUME k < i PROVE FALSE
      OBVIOUS
    <3>2. ps[k].next # None /\ ps[i].previous # None /\ ps[k].next < ps[i].previous
      BY <1>2, <3>1 DEF PagesFit, n
    <3> QED
      BY <1>2, <1>6, <1>7, <2>1, <2>6, <3>2
  <2>8. ~(j < k)
    <3>1. SUFFICES ASSUME j < k PROVE FALSE
      OBVIOUS
    <3>2. ps[j].next # None /\ ps[k].previous # None /\ ps[j].next < ps[k].previous
      BY <1>2, <3>1 DEF PagesFit, n
    <3> QED
      BY <1>2, <1>6, <1>7, <2>1, <2>5, <3>2
  <2>9. k \in i .. j
    BY <1>1, <2>7, <2>8
  <2>10. k - i + 1 \in DOMAIN qs /\ p \in qs[k - i + 1].items
    BY <1>1, <2>4, <2>9 DEF m
  <2> QED
    BY <2>10 DEF Grid!Posters
<1>11. Grid!Whole(ps, s) => Grid!Whole(qs, s)
  BY <1>10 DEF Grid!Whole
<1> QED
  BY <1>1, <1>4, <1>5, <1>8, <1>9, <1>11 DEF n, m

(* What Trims leaves is a piece of the pages.                               *)
LEMMA FrontIsPiece ==
  ASSUME NEW ps \in Seq(GridPages), Len(ps) # 0, NEW view, NEW focus
  PROVE  \E i \in 1 .. Len(ps) : Piece(Grid!FrontTrimmed(ps, view, focus), ps, i, Len(ps))
<1> DEFINE n == Len(ps)
           Stops(k) == ~(/\ Grid!Overfull(Grid!From(ps, k))
                         /\ Grid!CanEvictPrevious(Grid!From(ps, k), view, focus))
           T == {k \in 0 .. n : Stops(k)}
           low == Grid!Lowest(T)
<1>1. n \in Nat /\ n >= 1
  OBVIOUS
<1>2. n - 1 \in T
  <2>1. Len(Grid!From(ps, n - 1)) = 1
    BY <1>1 DEF Grid!From
  <2>2. ~Grid!CanEvictPrevious(Grid!From(ps, n - 1), view, focus)
    <3>1. ASSUME NEW one, Len(one) = 1 PROVE ~Grid!CanEvictPrevious(one, view, focus)
      <4>1. ~(Len(one) >= 2)
        BY <3>1
      <4> QED
        BY <4>1, Zenon DEF Grid!CanEvictPrevious
    <3> QED
      BY <2>1, <3>1, Zenon
  <2> QED
    BY <1>1, <2>2
<1>3. low \in T /\ \A k \in T : low <= k
  <2>1. T \in SUBSET Nat
    BY <1>1
  <2> HIDE DEF T
  <2> QED
    BY <1>2, <2>1, LowestIsThere
<1>4. low \in 0 .. n - 1
  BY <1>1, <1>2, <1>3
<1>5. Grid!FrontTrimmed(ps, view, focus) = Grid!From(ps, low)
  BY DEF Grid!FrontTrimmed
<1> HIDE DEF low
<1>6. Piece(Grid!From(ps, low), ps, low + 1, n)
  <2>1. Grid!From(ps, low) = [k \in 1 .. n - (low + 1) + 1 |-> ps[(low + 1) + k - 1]]
    BY <1>1, <1>4 DEF Grid!From
  <2>2. \A k \in 1 .. n - (low + 1) + 1 : (low + 1) + k - 1 = k + (low + 1) - 1
    BY <1>1, <1>4
  <2> QED
    BY <1>1, <1>4, <2>1, <2>2 DEF Piece
<1> QED
  BY <1>1, <1>4, <1>5, <1>6

LEMMA BackIsPiece ==
  ASSUME NEW ps \in Seq(GridPages), Len(ps) # 0, NEW view, NEW focus
  PROVE  \E j \in 1 .. Len(ps) : Piece(Grid!BackTrimmed(ps, view, focus), ps, 1, j)
<1> DEFINE n == Len(ps)
           T == {k \in 0 .. n : ~(/\ Grid!Overfull(Grid!UpTo(ps, k))
                                  /\ Grid!CanEvictNext(Grid!UpTo(ps, k), view, focus))}
           low == Grid!Lowest(T)
<1>1. n \in Nat /\ n >= 1
  OBVIOUS
<1>2. n - 1 \in T
  <2>1. Len(Grid!UpTo(ps, n - 1)) = 1
    BY <1>1 DEF Grid!UpTo
  <2>2. ~Grid!CanEvictNext(Grid!UpTo(ps, n - 1), view, focus)
    BY <2>1 DEF Grid!CanEvictNext
  <2> QED
    BY <1>1, <2>2
<1>3. low \in T /\ \A k \in T : low <= k
  <2>1. T \in SUBSET Nat
    BY <1>1
  <2> HIDE DEF T
  <2> QED
    BY <1>2, <2>1, LowestIsThere
<1>4. low \in 0 .. n - 1
  BY <1>1, <1>2, <1>3
<1>5. Grid!BackTrimmed(ps, view, focus) = Grid!UpTo(ps, low)
  BY DEF Grid!BackTrimmed
<1> HIDE DEF low
<1>6. Piece(Grid!UpTo(ps, low), ps, 1, n - low)
  <2>1. Grid!UpTo(ps, low) = [k \in 1 .. n - low - 1 + 1 |-> ps[1 + k - 1]]
    BY <1>1, <1>4 DEF Grid!UpTo
  <2>2. \A k \in 1 .. n - low - 1 + 1 : 1 + k - 1 = k + 1 - 1
    BY <1>1, <1>4
  <2> QED
    BY <1>1, <1>4, <2>1, <2>2 DEF Piece
<1> QED
  BY <1>1, <1>4, <1>5, <1>6

LEMMA PieceOfPiece ==
  ASSUME NEW S, NEW ps \in Seq(S), NEW qs, NEW rs, NEW i, NEW j,
         Piece(qs, ps, i, Len(ps)), Piece(rs, qs, 1, j)
  PROVE  Piece(rs, ps, i, j + i - 1)
<1>1. /\ qs \in Seq(S) /\ Len(qs) = Len(ps) - i + 1 /\ i \in Nat
      /\ \A k \in 1 .. Len(qs) : qs[k] = ps[k + i - 1]
  BY PieceFacts
<1>2. Len(ps) \in Nat /\ i \in 1 .. Len(ps)
  BY DEF Piece
<1>3. j \in 1 .. Len(qs) /\ rs = [k \in 1 .. j - 1 + 1 |-> qs[k + 1 - 1]]
  BY DEF Piece
<1>4. j \in Nat /\ j - 1 + 1 = j /\ (j + i - 1) - i + 1 = j /\ j + i - 1 \in i .. Len(ps)
  BY <1>1, <1>2, <1>3
<1>5. \A k \in 1 .. j : qs[k + 1 - 1] = ps[k + i - 1]
  BY <1>1, <1>3, <1>4
<1>6. rs = [k \in 1 .. j |-> ps[k + i - 1]]
  BY <1>3, <1>4, <1>5
<1> QED
  BY <1>2, <1>4, <1>6 DEF Piece

LEMMA TrimmedIsPiece ==
  ASSUME NEW ps, NEW s, PagesFit(ps, s), ps # <<>>, NEW qs \in Grid!Trims(ps)
  PROVE  \E i, j \in 1 .. Len(ps) : Piece(qs, ps, i, j)
<1>1. ps \in Seq(GridPages) /\ Len(ps) # 0
  BY DEF PagesFit
<1>2. CASE qs = ps
  <2>1. Len(ps) \in Nat /\ Len(ps) >= 1
    BY <1>1
  <2>2. ps = [k \in 1 .. Len(ps) - 1 + 1 |-> ps[k + 1 - 1]]
    <3>1. Len(ps) - 1 + 1 = Len(ps) /\ \A k \in 1 .. Len(ps) : k + 1 - 1 = k
      BY <2>1
    <3>2. ps = [k \in 1 .. Len(ps) |-> ps[k]]
      BY <1>1
    <3> QED
      BY <3>1, <3>2
  <2>3. Piece(qs, ps, 1, Len(ps))
    BY <1>2, <2>1, <2>2 DEF Piece
  <2> QED
    BY <2>1, <2>3
<1>3. CASE \E view, focus : qs = Grid!BackTrimmed(Grid!FrontTrimmed(ps, view, focus), view, focus)
  <2>1. PICK view, focus :
          qs = Grid!BackTrimmed(Grid!FrontTrimmed(ps, view, focus), view, focus)
    BY <1>3
  <2> DEFINE front == Grid!FrontTrimmed(ps, view, focus)
  <2>2. PICK i \in 1 .. Len(ps) : Piece(front, ps, i, Len(ps))
    BY <1>1, FrontIsPiece
  <2> HIDE DEF front
  <2>3. front \in Seq(GridPages) /\ Len(front) \in Nat \ {0}
    BY <1>1, <2>2, PieceFacts
  <2>4. PICK j \in 1 .. Len(front) : Piece(Grid!BackTrimmed(front, view, focus), front, 1, j)
    BY <2>3, BackIsPiece
  <2>5. Piece(qs, ps, i, j + i - 1)
    BY <1>1, <2>1, <2>2, <2>4, PieceOfPiece DEF front
  <2>6. j + i - 1 \in 1 .. Len(ps)
    BY <2>2, <2>5, <1>1 DEF Piece
  <2> QED
    BY <2>2, <2>5, <2>6
<1> QED
  BY <1>2, <1>3 DEF Grid!Trims

(* So a trim keeps what is said of the pages.                               *)
LEMMA TrimmedFits ==
  ASSUME NEW ps, NEW s, PagesFit(ps, s), ps # <<>>, NEW qs \in Grid!Trims(ps)
  PROVE  /\ PagesFit(qs, s) /\ qs # <<>>
         /\ ps[Len(ps)].next # None =>
              qs[Len(qs)].next # None /\ qs[Len(qs)].next <= ps[Len(ps)].next
         /\ ps[1].previous # None =>
              qs[1].previous # None /\ ps[1].previous <= qs[1].previous
         /\ Grid!Whole(ps, s) => Grid!Whole(qs, s)
BY TrimmedIsPiece, PieceFits

LEMMA NothingToTrim == Grid!Trims(<<>>) = {<<>>}
<1>1. Grid!Posters(<<>>) = {}
  BY DEF Grid!Posters
<1>2. Grid!Cardinality({}) = 0
  BY GridCounts, FS_EmptySet
<1>3. ~Grid!Overfull(<<>>)
  <2>1. ~(0 > Cap)
    BY LiveAssumption
  <2>2. ~(Grid!Cardinality(Grid!Posters(<<>>)) > Cap)
    BY <1>1, <1>2, <2>1, Zenon
  <2> QED
    BY <2>2, Zenon DEF Grid!Overfull
<1> QED
  BY <1>3 DEF Grid!Trims

-----------------------------------------------------------------------------
(* Answers. *)

Fitting(leaf, s) ==
  Bounded(leaf) /\ leaf.items \subseteq Matching[s] /\ (leaf.items = {} => leaf.previous = None)

(* Every poster behind the cursor, up to where the page ends, is on it.     *)
HoldsAfter(leaf, s, c) ==
  \A p \in Grid!Kept(s) : c < p /\ (leaf.next = None \/ p <= leaf.next) => p \in leaf.items

HoldsBefore(leaf, s, c) ==
  \A p \in Grid!Kept(s) : p < c /\ (leaf.previous = None \/ leaf.previous <= p) => p \in leaf.items

LEMMA FirstPageFits ==
  ASSUME NEW leaf, NEW s, Fitting(leaf, s),
         \A p \in Grid!Kept(s) : leaf.next = None \/ p <= leaf.next => p \in leaf.items
  PROVE  PagesFit(<<leaf>>, s) /\ Grid!Whole(<<leaf>>, s)
<1>1. leaf \in GridPages
  BY DEF Fitting, Bounded
<1>2. <<leaf>> \in Seq(GridPages) /\ Len(<<leaf>>) = 1 /\ <<leaf>>[1] = leaf
  BY <1>1
<1> DEFINE ps == <<leaf>>
<1> HIDE DEF ps
<1>3. ps \in Seq(GridPages) /\ Len(ps) = 1 /\ ps[1] = leaf /\ DOMAIN ps = {1}
  BY <1>2 DEF ps
<1>4. PagesFit(ps, s)
  BY <1>3 DEF PagesFit, Fitting
<1>5. Grid!Posters(ps) = leaf.items
  BY <1>3 DEF Grid!Posters
<1>6. Grid!Whole(ps, s)
  BY <1>3, <1>5 DEF Grid!Whole, Grid!Reach
<1> QED
  BY <1>4, <1>6 DEF ps

LEMMA AppendedFits ==
  ASSUME NEW ps, NEW s, PagesFit(ps, s), ps # <<>>,
         NEW leaf, Fitting(leaf, s), leaf.items # {}, leaf.previous # None,
         NEW c \in Grid!Places, c < leaf.previous, HoldsAfter(leaf, s, c),
         ps[Len(ps)].next # None, ps[Len(ps)].next <= c
  PROVE  /\ PagesFit(Append(ps, leaf), s)
         /\ Grid!Whole(ps, s) /\ c = ps[Len(ps)].next => Grid!Whole(Append(ps, leaf), s)
<1> DEFINE n == Len(ps)
           qs == Append(ps, leaf)
<1>1. /\ qs \in Seq(GridPages) /\ n \in Nat \ {0} /\ Len(qs) = n + 1 /\ DOMAIN qs = 1 .. n + 1
      /\ \A k \in 1 .. n : qs[k] = ps[k]
      /\ qs[n + 1] = leaf
  <2>1. ps \in Seq(GridPages) /\ leaf \in GridPages
    BY DEF PagesFit, Fitting, Bounded
  <2> QED
    BY <2>1
<1> HIDE DEF n, qs
<1>2. \A k \in 1 .. n + 1 : k \in 1 .. n \/ k = n + 1
  BY <1>1
<1>3. \A k \in 1 .. n + 1 : Bounded(qs[k]) /\ qs[k].items \subseteq Matching[s]
  BY <1>1, <1>2 DEF PagesFit, Fitting, n
<1>4. \A k \in 1 .. n + 1 : qs[k].items = {} => k = 1 /\ qs[k].previous = None
  BY <1>1, <1>2 DEF PagesFit, n
<1>5. c \in Nat /\ leaf.previous \in Nat
  BY PlaceTypes, PageTypes DEF Fitting
<1>6. ASSUME NEW i \in 1 .. n PROVE ps[i].next # None /\ ps[i].next \in Nat /\ ps[i].next <= c
  <2>1. ps[i].next # None /\ ps[i].next <= ps[n].next
    BY EdgesAreOutermost DEF n
  <2>2. ps[i].next \in Nat /\ ps[n].next \in Nat
    BY <1>1, <2>1, PagesTypes, PageTypes DEF n
  <2> QED
    BY <1>5, <2>1, <2>2 DEF n
<1>7. ASSUME NEW i \in 1 .. n + 1, NEW j \in 1 .. n + 1, i < j
      PROVE  qs[i].next # None /\ qs[j].previous # None /\ qs[i].next < qs[j].previous
  <2>1. i \in 1 .. n
    BY <1>1, <1>7
  <2>2. CASE j \in 1 .. n
    BY <1>1, <1>7, <2>1, <2>2 DEF PagesFit, n
  <2>3. CASE j = n + 1
    BY <1>1, <1>5, <1>6, <2>1, <2>3
  <2> QED
    BY <1>2, <2>2, <2>3
<1>8. PagesFit(qs, s)
  BY <1>1, <1>3, <1>4, <1>7 DEF PagesFit
<1>9. ASSUME Grid!Whole(ps, s), c = ps[n].next, NEW p \in Grid!Kept(s), p \in Grid!Reach(qs)
      PROVE  p \in Grid!Posters(qs)
  <2>1. /\ p \in Grid!Places /\ p \in Nat /\ n + 1 \in 1 .. n + 1
        /\ ps[1].previous = None \/ ps[1].previous <= p
        /\ leaf.next = None \/ p <= leaf.next
    BY <1>1, <1>9, PlaceTypes DEF Grid!Reach
  <2>2. CASE p <= c
    <3>1. p \in Grid!Reach(ps)
      BY <1>9, <2>1, <2>2 DEF Grid!Reach, n
    <3>2. PICK k \in 1 .. n : p \in ps[k].items
      BY <1>9, <3>1, PagesTypes DEF Grid!Whole, Grid!Posters, n
    <3>3. k \in DOMAIN qs /\ p \in qs[k].items
      BY <1>1, <3>2
    <3> QED
      BY <3>3 DEF Grid!Posters
  <2>3. CASE c < p
    <3>1. p \in leaf.items
      BY <1>9, <2>1, <2>3 DEF HoldsAfter
    <3>2. n + 1 \in DOMAIN qs /\ p \in qs[n + 1].items
      BY <1>1, <2>1, <3>1
    <3> QED
      BY <3>2 DEF Grid!Posters
  <2> QED
    BY <1>5, <2>1, <2>2, <2>3
<1> QED
  BY <1>8, <1>9 DEF Grid!Whole, n, qs

LEMMA PrependedFits ==
  ASSUME NEW ps, NEW s, PagesFit(ps, s), ps # <<>>,
         NEW leaf, Fitting(leaf, s), leaf.items # {}, leaf.next # None,
         NEW c \in Grid!Places, leaf.next < c, HoldsBefore(leaf, s, c),
         ps[1].previous # None, c <= ps[1].previous
  PROVE  /\ PagesFit(<<leaf>> \o ps, s)
         /\ Grid!Whole(ps, s) /\ c = ps[1].previous => Grid!Whole(<<leaf>> \o ps, s)
<1> DEFINE n == Len(ps)
           qs == <<leaf>> \o ps
<1>1. /\ qs \in Seq(GridPages) /\ n \in Nat \ {0} /\ Len(qs) = n + 1 /\ DOMAIN qs = 1 .. n + 1
      /\ \A k \in 1 .. n : qs[k + 1] = ps[k]
      /\ qs[1] = leaf
  <2>1. ps \in Seq(GridPages) /\ leaf \in GridPages
    BY DEF PagesFit, Fitting, Bounded
  <2>2. <<leaf>> \in Seq(GridPages) /\ Len(<<leaf>>) = 1
    BY <2>1
  <2> QED
    BY <2>1, <2>2
<1> HIDE DEF n, qs
<1>2. \A k \in 1 .. n + 1 : k = 1 \/ (k - 1 \in 1 .. n /\ (k - 1) + 1 = k)
  BY <1>1
<1>3. \A k \in 1 .. n + 1 : k = 1 \/ (k - 1 \in 1 .. n /\ qs[k] = ps[k - 1])
  BY <1>1, <1>2
<1>4. \A k \in 1 .. n : ps[k].items # {}
  BY <1>1 DEF PagesFit, n
<1>5. \A k \in 1 .. n + 1 : Bounded(qs[k]) /\ qs[k].items \subseteq Matching[s] /\ qs[k].items # {}
  BY <1>1, <1>3, <1>4 DEF PagesFit, Fitting, n
<1>6. c \in Nat /\ leaf.next \in Nat
  BY PlaceTypes, PageTypes DEF Fitting
<1>7. ASSUME NEW i \in 1 .. n
      PROVE  ps[i].previous # None /\ ps[i].previous \in Nat /\ c <= ps[i].previous
  <2>1. ps[i].previous # None /\ ps[1].previous <= ps[i].previous
    BY EdgesAreOutermost DEF n
  <2>2. ps[i].previous \in Nat /\ ps[1].previous \in Nat
    BY <1>1, <2>1, PagesTypes, PageTypes DEF n
  <2> QED
    BY <1>6, <2>1, <2>2 DEF n
<1>8. ASSUME NEW i \in 1 .. n + 1, NEW j \in 1 .. n + 1, i < j
      PROVE  qs[i].next # None /\ qs[j].previous # None /\ qs[i].next < qs[j].previous
  <2>1. j - 1 \in 1 .. n /\ qs[j] = ps[j - 1]
    BY <1>1, <1>3, <1>8
  <2>2. CASE i = 1
    BY <1>1, <1>6, <1>7, <2>1, <2>2
  <2>3. CASE i # 1
    <3>1. i - 1 \in 1 .. n /\ qs[i] = ps[i - 1] /\ i - 1 < j - 1
      BY <1>1, <1>3, <1>8, <2>3
    <3> DEFINE a == i - 1
               b == j - 1
    <3>2. a \in 1 .. n /\ b \in 1 .. n /\ qs[i] = ps[a] /\ qs[j] = ps[b] /\ a < b
      BY <2>1, <3>1
    <3> HIDE DEF a, b
    <3> QED
      BY <3>2 DEF PagesFit, n
  <2> QED
    BY <2>2, <2>3
<1>9. PagesFit(qs, s)
  BY <1>1, <1>5, <1>8 DEF PagesFit
<1>10. ASSUME Grid!Whole(ps, s), c = ps[1].previous, NEW p \in Grid!Kept(s), p \in Grid!Reach(qs)
       PROVE  p \in Grid!Posters(qs)
  <2>1. /\ p \in Grid!Places /\ p \in Nat /\ 1 \in 1 .. n + 1
        /\ qs[n + 1] = ps[n]
        /\ leaf.previous = None \/ leaf.previous <= p
        /\ ps[n].next = None \/ p <= ps[n].next
    BY <1>1, <1>10, PlaceTypes DEF Grid!Reach
  <2>2. CASE c <= p
    <3>1. p \in Grid!Reach(ps)
      BY <1>10, <2>1, <2>2 DEF Grid!Reach, n
    <3>2. PICK k \in 1 .. n : p \in ps[k].items
      BY <1>10, <3>1, PagesTypes DEF Grid!Whole, Grid!Posters, n
    <3>3. k + 1 \in DOMAIN qs /\ p \in qs[k + 1].items
      BY <1>1, <3>2
    <3> QED
      BY <3>3 DEF Grid!Posters
  <2>3. CASE p < c
    <3>1. p \in leaf.items
      BY <1>10, <2>1, <2>3 DEF HoldsBefore
    <3>2. 1 \in DOMAIN qs /\ p \in qs[1].items
      BY <1>1, <2>1, <3>1
    <3> QED
      BY <3>2 DEF Grid!Posters
  <2> QED
    BY <1>6, <2>1, <2>2, <2>3
<1> QED
  BY <1>9, <1>10 DEF Grid!Whole, n, qs

(* The edge that was loaded has a new cursor.                               *)
LEMMA NextEdgeMovedFits ==
  ASSUME NEW ps, NEW s, PagesFit(ps, s), ps # <<>>,
         NEW new \in Cursors, NEW c \in Grid!Places, new # None => c < new,
         \A p \in Grid!Kept(s) : ~(c < p /\ (new = None \/ p <= new)),
         ps[Len(ps)].next # None, ps[Len(ps)].next <= c
  PROVE  LET qs == [ps EXCEPT ![Len(ps)].next = new]
         IN  /\ PagesFit(qs, s)
             /\ Grid!Whole(ps, s) /\ c = ps[Len(ps)].next => Grid!Whole(qs, s)
<1> DEFINE n == Len(ps)
           edge == [ps[n] EXCEPT !.next = new]
           qs == [ps EXCEPT ![n] = edge]
<1>1. n \in Nat \ {0} /\ 1 \in 1 .. n /\ n \in 1 .. n /\ ps \in Seq(GridPages) /\ ps[n] \in GridPages
  BY DEF PagesFit
<1>2. edge \in GridPages /\ edge.items = ps[n].items /\ edge.previous = ps[n].previous /\ edge.next = new
  BY <1>1 DEF GridPages
<1> HIDE DEF n, edge
<1>3. /\ qs \in Seq(GridPages) /\ Len(qs) = n /\ DOMAIN qs = 1 .. n
      /\ qs[n] = edge /\ \A k \in 1 .. n : k # n => qs[k] = ps[k]
  BY <1>1, <1>2 DEF n
<1> HIDE DEF qs
<1>4. \A k \in 1 .. n : qs[k].items = ps[k].items /\ qs[k].previous = ps[k].previous
  BY <1>2, <1>3
<1>5. c \in Nat /\ ps[n].next \in Nat /\ ps[n].next <= c /\ (new # None => new \in Nat)
  BY <1>1, PlaceTypes, PagesTypes, PageTypes DEF n, Cursors
<1>6. Bounded(edge)
  <2>1. ASSUME NEW p \in ps[n].items
        PROVE  (ps[n].previous = None \/ ps[n].previous <= p) /\ (new = None \/ p <= new)
    <3>1. Bounded(ps[n])
      BY <1>1, PagesTypes DEF n
    <3>2. p \in Nat /\ (ps[n].previous = None \/ ps[n].previous <= p) /\ p <= ps[n].next
      BY <3>1, PosterBetweenCursors DEF n
    <3> QED
      BY <1>5, <3>2
  <2> QED
    BY <1>2, <2>1 DEF Bounded
<1>7. PagesFit(qs, s)
  <2>1. \A k \in 1 .. n : Bounded(qs[k]) /\ qs[k].items \subseteq Matching[s]
    BY <1>3, <1>4, <1>6 DEF PagesFit, n
  <2>2. \A k \in 1 .. n : qs[k].items = {} => k = 1 /\ qs[k].previous = None
    BY <1>4 DEF PagesFit, n
  <2>3. ASSUME NEW i \in 1 .. n, NEW j \in 1 .. n, i < j
        PROVE  qs[i].next # None /\ qs[j].previous # None /\ qs[i].next < qs[j].previous
    <3>1. i # n
      BY <1>1, <2>3
    <3> QED
      BY <1>3, <1>4, <2>3, <3>1 DEF PagesFit, n
  <2> QED
    BY <1>3, <2>1, <2>2, <2>3 DEF PagesFit
<1>8. ASSUME Grid!Whole(ps, s), c = ps[n].next, NEW p \in Grid!Kept(s), p \in Grid!Reach(qs)
      PROVE  p \in Grid!Posters(qs)
  <2>1. /\ p \in Grid!Places /\ p \in Nat
        /\ ps[1].previous = None \/ ps[1].previous <= p
        /\ new = None \/ p <= new
    BY <1>1, <1>2, <1>3, <1>4, <1>8, PlaceTypes DEF Grid!Reach
  <2>2. p <= c
    BY <1>5, <1>8, <2>1
  <2>3. p \in Grid!Reach(ps)
    BY <1>8, <2>1, <2>2 DEF Grid!Reach, n
  <2>4. PICK k \in 1 .. n : p \in ps[k].items
    BY <1>8, <2>3, PagesTypes DEF Grid!Whole, Grid!Posters, n
  <2>5. k \in DOMAIN qs /\ p \in qs[k].items
    BY <1>3, <1>4, <2>4
  <2> QED
    BY <2>5 DEF Grid!Posters
<1>9. qs = [ps EXCEPT ![Len(ps)].next = new]
  BY DEF qs, n, edge
<1> QED
  BY <1>7, <1>8, <1>9 DEF Grid!Whole, n

LEMMA PreviousEdgeMovedFits ==
  ASSUME NEW ps, NEW s, PagesFit(ps, s), ps # <<>>,
         NEW new \in Cursors, NEW c \in Grid!Places, new # None => new < c,
         \A p \in Grid!Kept(s) : ~(p < c /\ (new = None \/ new <= p)),
         ps[1].previous # None, c <= ps[1].previous
  PROVE  LET qs == [ps EXCEPT ![1].previous = new]
         IN  /\ PagesFit(qs, s)
             /\ Grid!Whole(ps, s) /\ c = ps[1].previous => Grid!Whole(qs, s)
<1> DEFINE n == Len(ps)
           edge == [ps[1] EXCEPT !.previous = new]
           qs == [ps EXCEPT ![1] = edge]
<1>1. n \in Nat \ {0} /\ 1 \in 1 .. n /\ n \in 1 .. n /\ ps \in Seq(GridPages) /\ ps[1] \in GridPages
  BY DEF PagesFit
<1>2. edge \in GridPages /\ edge.items = ps[1].items /\ edge.next = ps[1].next /\ edge.previous = new
  BY <1>1 DEF GridPages
<1> HIDE DEF n, edge
<1>3. /\ qs \in Seq(GridPages) /\ Len(qs) = n /\ DOMAIN qs = 1 .. n
      /\ qs[1] = edge /\ \A k \in 1 .. n : k # 1 => qs[k] = ps[k]
  BY <1>1, <1>2 DEF n
<1> HIDE DEF qs
<1>4. \A k \in 1 .. n : qs[k].items = ps[k].items /\ qs[k].next = ps[k].next
  BY <1>2, <1>3
<1>5. c \in Nat /\ ps[1].previous \in Nat /\ c <= ps[1].previous /\ (new # None => new \in Nat)
  BY <1>1, PlaceTypes, PagesTypes, PageTypes DEF n, Cursors
<1>6. Bounded(edge)
  <2>1. ASSUME NEW p \in ps[1].items
        PROVE  (new = None \/ new <= p) /\ (ps[1].next = None \/ p <= ps[1].next)
    <3>1. Bounded(ps[1])
      BY <1>1, PagesTypes DEF n
    <3>2. p \in Nat /\ ps[1].previous <= p /\ (ps[1].next = None \/ p <= ps[1].next)
      BY <3>1, PosterBetweenCursors DEF n
    <3> QED
      BY <1>5, <3>2
  <2> QED
    BY <1>2, <2>1 DEF Bounded
<1>7. PagesFit(qs, s)
  <2>1. \A k \in 1 .. n : Bounded(qs[k]) /\ qs[k].items \subseteq Matching[s]
    BY <1>3, <1>4, <1>6 DEF PagesFit, n
  <2>2. \A k \in 1 .. n : qs[k].items # {}
    BY <1>1, <1>4 DEF PagesFit, n
  <2>3. ASSUME NEW i \in 1 .. n, NEW j \in 1 .. n, i < j
        PROVE  qs[i].next # None /\ qs[j].previous # None /\ qs[i].next < qs[j].previous
    <3>1. j # 1
      BY <1>1, <2>3
    <3> QED
      BY <1>3, <1>4, <2>3, <3>1 DEF PagesFit, n
  <2> QED
    BY <1>3, <2>1, <2>2, <2>3 DEF PagesFit
<1>8. ASSUME Grid!Whole(ps, s), c = ps[1].previous, NEW p \in Grid!Kept(s), p \in Grid!Reach(qs)
      PROVE  p \in Grid!Posters(qs)
  <2>1. /\ p \in Grid!Places /\ p \in Nat
        /\ ps[n].next = None \/ p <= ps[n].next
        /\ new = None \/ new <= p
    BY <1>1, <1>2, <1>3, <1>4, <1>8, PlaceTypes DEF Grid!Reach
  <2>2. c <= p
    BY <1>5, <1>8, <2>1
  <2>3. p \in Grid!Reach(ps)
    BY <1>8, <2>1, <2>2 DEF Grid!Reach, n
  <2>4. PICK k \in 1 .. n : p \in ps[k].items
    BY <1>8, <2>3, PagesTypes DEF Grid!Whole, Grid!Posters, n
  <2>5. k \in DOMAIN qs /\ p \in qs[k].items
    BY <1>3, <1>4, <2>4
  <2> QED
    BY <2>5 DEF Grid!Posters
<1>9. qs = [ps EXCEPT ![1].previous = new]
  BY DEF qs, edge
<1> QED
  BY <1>7, <1>8, <1>9 DEF Grid!Whole, n

(* A request goes on from an edge of the pages, or from one further out     *)
(* when its page was evicted while it was on its way.                       *)
GoesOn(direction, c, ps) ==
  /\ direction \in Grid!Directions
  /\ direction = "initial" => ps = <<>> /\ c = None
  /\ direction = "previous" => /\ ps # <<>> /\ c \in Grid!Places
                               /\ ps[1].previous # None /\ c <= ps[1].previous
  /\ direction = "next" => /\ ps # <<>> /\ c \in Grid!Places
                           /\ ps[Len(ps)].next # None /\ ps[Len(ps)].next <= c

EdgeOf(direction, ps) ==
  IF ps = <<>> \/ direction = "initial" THEN None
  ELSE IF direction = "previous" THEN ps[1].previous ELSE ps[Len(ps)].next

Served(direction, s, c) ==
  IF direction = "previous" THEN Grid!PageBefore(s, c) ELSE Grid!PageAfter(s, c)

(* The pages after an answer follow one another, and if the answer is that  *)
(* of the edge they leave nothing out.                                      *)
LEMMA IntegratedFits ==
  ASSUME catalogue \subseteq Grid!Places, NEW s \in GridSources, NEW ps, PagesFit(ps, s),
         NEW direction, NEW c, GoesOn(direction, c, ps), NEW any
  PROVE  LET grown == Grid!Integrated(ps, Mountable(Served(direction, s, c)), direction, any)
         IN  /\ PagesFit(grown, s)
             /\ Grid!Whole(ps, s) /\ (direction # "initial" => c = EdgeOf(direction, ps))
                  => Grid!Whole(grown, s)
<1> DEFINE leaf == Mountable(Served(direction, s, c))
           grown == Grid!Integrated(ps, leaf, direction, any)
<1>1. CASE direction = "initial"
  <2> DEFINE got == Grid!PageAfter(s, None)
  <2>1. ps = <<>> /\ leaf = Mountable(got) /\ None \in Cursors
    BY <1>1 DEF GoesOn, Served, Cursors
  <2>2. /\ Bounded(Mountable(got)) /\ got.items \subseteq Matching[s] /\ got.previous = None
        /\ \A p \in Grid!Kept(s) : got.next = None \/ p <= got.next => p \in got.items
    BY <2>1, PageAfterFits
  <2> HIDE DEF got
  <2>3. leaf.items = got.items /\ leaf.previous = got.previous /\ leaf.next = got.next
    BY <2>1 DEF Mountable
  <2>4. PagesFit(<<leaf>>, s) /\ Grid!Whole(<<leaf>>, s)
    <3>1. Fitting(leaf, s)
      BY <2>1, <2>2, <2>3 DEF Fitting
    <3> HIDE DEF leaf
    <3> QED
      BY <2>2, <2>3, <3>1, FirstPageFits
  <2>5. grown \in {<<>>, <<leaf>>}
    BY <1>1 DEF Grid!Integrated
  <2>6. Grid!Whole(<<>>, s)
    BY DEF Grid!Whole
  <2> HIDE DEF leaf, grown
  <2>7. PagesFit(grown, s) /\ Grid!Whole(grown, s)
    BY <2>1, <2>4, <2>5, <2>6
  <2> QED
    BY <2>7 DEF grown, leaf
<1>2. CASE direction = "next"
  <2> DEFINE got == Grid!PageAfter(s, c)
  <2>1. /\ ps # <<>> /\ c \in Grid!Places /\ c \in Cursors /\ c # None
        /\ ps[Len(ps)].next # None /\ ps[Len(ps)].next <= c
        /\ leaf = Mountable(got)
    BY <1>2, PlaceTypes DEF GoesOn, Served, Cursors
  <2>2. /\ Bounded(Mountable(got)) /\ got.items \subseteq Matching[s]
        /\ got.items # {} => got.previous # None /\ c < got.previous
        /\ got.next # None => c < got.next
        /\ \A p \in Grid!Kept(s) : c < p /\ (got.next = None \/ p <= got.next) => p \in got.items
    BY <2>1, PageAfterFits
  <2> HIDE DEF got
  <2>3. leaf.items = got.items /\ leaf.previous = got.previous /\ leaf.next = got.next
    BY <2>1 DEF Mountable
  <2>4. EdgeOf(direction, ps) = ps[Len(ps)].next
    BY <1>2, <2>1 DEF EdgeOf
  <2>5. CASE leaf.items = {}
    <3>1. grown = [ps EXCEPT ![Len(ps)].next = leaf.next]
      BY <1>2, <2>1, <2>5 DEF Grid!Integrated, Grid!UpdateEmptyEdge
    <3>2. leaf.next \in Cursors /\ (leaf.next # None => c < leaf.next)
      BY <2>1, <2>2, <2>3, PageTypes
    <3>3. \A p \in Grid!Kept(s) : ~(c < p /\ (leaf.next = None \/ p <= leaf.next))
      BY <2>2, <2>3, <2>5
    <3> HIDE DEF leaf, grown
    <3>4. PagesFit(grown, s) /\ (Grid!Whole(ps, s) /\ c = ps[Len(ps)].next => Grid!Whole(grown, s))
      BY <2>1, <3>1, <3>2, <3>3, NextEdgeMovedFits
    <3> QED
      BY <1>2, <2>4, <3>4 DEF grown, leaf
  <2>6. CASE leaf.items # {}
    <3>1. grown = Append(ps, leaf)
      BY <1>2, <2>6 DEF Grid!Integrated
    <3>2. Fitting(leaf, s) /\ HoldsAfter(leaf, s, c)
      BY <2>1, <2>2, <2>3, <2>6 DEF Fitting, HoldsAfter
    <3>3. leaf.previous # None /\ c < leaf.previous
      BY <2>2, <2>3, <2>6
    <3> HIDE DEF leaf, grown
    <3>4. PagesFit(grown, s) /\ (Grid!Whole(ps, s) /\ c = ps[Len(ps)].next => Grid!Whole(grown, s))
      BY <2>1, <2>6, <3>1, <3>2, <3>3, AppendedFits
    <3> QED
      BY <1>2, <2>4, <3>4 DEF grown, leaf
  <2> QED
    BY <2>5, <2>6
<1>3. CASE direction = "previous"
  <2> DEFINE got == Grid!PageBefore(s, c)
  <2>1. /\ ps # <<>> /\ c \in Grid!Places
        /\ ps[1].previous # None /\ c <= ps[1].previous
        /\ leaf = Mountable(got)
    BY <1>3 DEF GoesOn, Served
  <2>2. /\ Bounded(Mountable(got)) /\ got.items \subseteq Matching[s]
        /\ got.items # {} => got.next # None /\ got.next < c
        /\ got.previous # None => got.previous < c
        /\ \A p \in Grid!Kept(s) :
             p < c /\ (got.previous = None \/ got.previous <= p) => p \in got.items
    BY <2>1, PageBeforeFits
  <2> HIDE DEF got
  <2>3. leaf.items = got.items /\ leaf.previous = got.previous /\ leaf.next = got.next
    BY <2>1 DEF Mountable
  <2>4. EdgeOf(direction, ps) = ps[1].previous
    BY <1>3, <2>1 DEF EdgeOf
  <2>5. CASE leaf.items = {}
    <3>1. grown = [ps EXCEPT ![1].previous = leaf.previous]
      BY <1>3, <2>1, <2>5 DEF Grid!Integrated, Grid!UpdateEmptyEdge
    <3>2. leaf.previous \in Cursors /\ (leaf.previous # None => leaf.previous < c)
      BY <2>1, <2>2, <2>3, PageTypes
    <3>3. \A p \in Grid!Kept(s) : ~(p < c /\ (leaf.previous = None \/ leaf.previous <= p))
      BY <2>2, <2>3, <2>5
    <3> HIDE DEF leaf, grown
    <3>4. PagesFit(grown, s) /\ (Grid!Whole(ps, s) /\ c = ps[1].previous => Grid!Whole(grown, s))
      BY <2>1, <3>1, <3>2, <3>3, PreviousEdgeMovedFits
    <3> QED
      BY <1>3, <2>4, <3>4 DEF grown, leaf
  <2>6. CASE leaf.items # {}
    <3>1. grown = <<leaf>> \o ps
      BY <1>3, <2>6 DEF Grid!Integrated
    <3>2. Fitting(leaf, s) /\ HoldsBefore(leaf, s, c)
      BY <2>1, <2>2, <2>3, <2>6 DEF Fitting, HoldsBefore
    <3>3. leaf.next # None /\ leaf.next < c
      BY <2>2, <2>3, <2>6
    <3> HIDE DEF leaf, grown
    <3>4. PagesFit(grown, s) /\ (Grid!Whole(ps, s) /\ c = ps[1].previous => Grid!Whole(grown, s))
      BY <2>1, <2>6, <3>1, <3>2, <3>3, PrependedFits
    <3> QED
      BY <1>3, <2>4, <3>4 DEF grown, leaf
  <2> QED
    BY <2>5, <2>6
<1> QED
  BY <1>1, <1>2, <1>3 DEF GoesOn, Grid!Directions

-----------------------------------------------------------------------------
(* The grid's steps. *)

(* The inductive invariant: the mounted and the stored pages follow one     *)
(* another, and at most one request is of this initialisation, which goes   *)
(* on from an edge or from one that was given up meanwhile.                 *)
GridInv ==
  /\ catalogue \subseteq Grid!Places /\ source \in GridSources /\ generation \in Nat
  /\ PagesFit(pages, source)
  /\ \A k \in stored : PagesFit(k.pages, k.key[1])
  /\ \A r \in fetches : r.generation \in Nat /\ r.generation <= generation
  /\ \A r \in fetches : Grid!Current(r) =>
       r.direction = loading /\ r.source = source /\ GoesOn(r.direction, r.cursor, pages)
  /\ \A q, r \in fetches : Grid!Current(q) /\ Grid!Current(r) => q = r

GridGoal ==
  /\ GridInv'
  /\ Grid!NoneLeftOut =>
       Grid!NoneLeftOut' \/ \E r \in fetches : Grid!Overtaken(r) /\ Grid!Answered(r)

LEMMA NoPagesFit == \A s : PagesFit(<<>>, s)
BY DEF PagesFit

LEMMA GridStarts == Grid!Init => GridInv
<1> SUFFICES ASSUME Grid!Init PROVE GridInv
  OBVIOUS
<1>1. pages = <<>> /\ stored = {} /\ generation = 1 /\ loading = "initial" /\ source \in GridSources
  BY DEF Grid!Init
<1>2. fetches = {[generation |-> 1, source |-> source, direction |-> "initial", cursor |-> None]}
  BY DEF Grid!Init
<1>3. catalogue \subseteq Grid!Places
  BY DEF Grid!Init
<1>4. GoesOn("initial", None, <<>>)
  BY DEF GoesOn, Grid!Directions
<1> QED
  BY <1>1, <1>2, <1>3, <1>4, NoPagesFit DEF GridInv

(* Nothing is on its way while nothing is loading.                          *)
LEMMA NothingOnItsWay ==
  ASSUME GridInv, loading = None
  PROVE  \A r \in fetches : ~Grid!Current(r)
BY LiveAssumption DEF GridInv, GoesOn

(* What was whole is whole: the catalogue only changes where it is touched. *)
LEMMA StillWhole ==
  ASSUME GridInv, UNCHANGED <<catalogue, touched>>,
         Grid!Whole(pages', source'), \A k \in stored' : Grid!Whole(k.pages, k.key[1])
  PROVE  Grid!NoneLeftOut'
BY DEF Grid!NoneLeftOut, Grid!Whole, Grid!Kept

(* Asking for the page at an edge.                                          *)
LEMMA RequestGoesOn ==
  ASSUME GridInv, NEW direction \in Grid!Directions, NEW again, Grid!CanLoad(direction, again)
  PROVE  GoesOn(direction, Grid!EdgeCursor(direction), pages)
<1>1. CASE direction = "initial"
  BY <1>1 DEF Grid!CanLoad, Grid!EdgeCursor, GoesOn
<1>2. CASE direction = "previous"
  <2>1. Grid!EdgeCursor(direction) # None
    BY <1>2 DEF Grid!CanLoad
  <2>2. pages # <<>> /\ pages[1].previous # None /\ Grid!EdgeCursor(direction) = pages[1].previous
    BY <1>2, <2>1 DEF Grid!EdgeCursor
  <2>3. 1 \in 1 .. Len(pages)
    BY <2>2 DEF GridInv, PagesFit
  <2>4. Bounded(pages[1])
    BY <2>3 DEF GridInv, PagesFit
  <2>5. pages[1].previous \in Grid!Places /\ pages[1].previous \in Nat
    BY <2>2, <2>4, PageTypes DEF Cursors
  <2> QED
    BY <1>2, <2>2, <2>5 DEF GoesOn
<1>3. CASE direction = "next"
  <2>1. Grid!EdgeCursor(direction) # None
    BY <1>3 DEF Grid!CanLoad
  <2>2. /\ pages # <<>> /\ pages[Len(pages)].next # None
        /\ Grid!EdgeCursor(direction) = pages[Len(pages)].next
    BY <1>3, <2>1 DEF Grid!EdgeCursor
  <2>3. Len(pages) \in 1 .. Len(pages)
    BY <2>2 DEF GridInv, PagesFit
  <2>4. Bounded(pages[Len(pages)])
    BY <2>3 DEF GridInv, PagesFit
  <2>5. pages[Len(pages)].next \in Grid!Places /\ pages[Len(pages)].next \in Nat
    BY <2>2, <2>4, PageTypes DEF Cursors
  <2> QED
    BY <1>3, <2>2, <2>5 DEF GoesOn
<1> QED
  BY <1>1, <1>2, <1>3 DEF Grid!Directions

LEMMA RequestStep ==
  ASSUME GridInv, NEW direction \in Grid!Directions, NEW again, Grid!CanLoad(direction, again),
         loading' = direction, fetches' = fetches \cup {Grid!Request(direction)},
         UNCHANGED <<catalogue, touched, source, pages, generation, stored>>
  PROVE  GridGoal
<1> DEFINE new == Grid!Request(direction)
<1>1. /\ new.generation = generation /\ new.source = source /\ new.direction = direction
      /\ new.cursor = Grid!EdgeCursor(direction)
  BY DEF Grid!Request
<1>2. GoesOn(direction, new.cursor, pages)
  BY <1>1, RequestGoesOn
<1>3. \A r \in fetches : ~Grid!Current(r)
  BY NothingOnItsWay DEF Grid!CanLoad
<1>4. \A r \in fetches' : r \in fetches \/ r = new
  OBVIOUS
<1> HIDE DEF new
<1>5. \A r \in fetches' : r.generation \in Nat /\ r.generation <= generation
  BY <1>1, <1>4 DEF GridInv
<1>6. \A r \in fetches' : r.generation = generation => r = new
  BY <1>3, <1>4 DEF Grid!Current
<1>7. GridInv'
  BY <1>1, <1>2, <1>5, <1>6 DEF GridInv, Grid!Current
<1>8. Grid!NoneLeftOut => Grid!NoneLeftOut'
  BY StillWhole DEF Grid!NoneLeftOut
<1> QED
  BY <1>7, <1>8 DEF GridGoal

LEMMA LoadStep ==
  ASSUME GridInv, NEW direction \in Grid!Directions, NEW again \in BOOLEAN,
         Grid!Load(direction, again)
  PROVE  GridGoal
BY RequestStep DEF Grid!Load

LEMMA FrameStep ==
  ASSUME GridInv, Grid!FrameFires
  PROVE  GridGoal
<1>1. UNCHANGED <<catalogue, touched, source, pages, generation, stored>>
  BY DEF Grid!FrameFires
<1>2. CASE Grid!CanLoad("next", FALSE)
  BY <1>1, <1>2, RequestStep DEF Grid!FrameFires, Grid!Directions
<1>3. CASE ~Grid!CanLoad("next", FALSE)
  <2>1. UNCHANGED <<loading, fetches>>
    BY <1>3 DEF Grid!FrameFires
  <2>2. GridInv'
    BY <1>1, <2>1 DEF GridInv, Grid!Current
  <2> QED
    BY <1>1, <2>1, <2>2, StillWhole DEF GridGoal, Grid!NoneLeftOut
<1> QED
  BY <1>2, <1>3

(* A grid that is opened or opened anew: restored, or loaded from the start. *)
LEMMA InitialiseStep ==
  ASSUME GridInv, NEW s \in GridSources, NEW rev, NEW kept, NEW waiting,
         \A k \in kept : PagesFit(k.pages, k.key[1]),
         Grid!NoneLeftOut => \A k \in kept : Grid!Whole(k.pages, k.key[1]),
         Grid!Initialise(s, rev, kept, waiting)
  PROVE  GridGoal
<1>1. /\ generation \in Nat /\ generation' = generation + 1 /\ source' = s
      /\ UNCHANGED <<catalogue, touched>>
  BY DEF Grid!Initialise, GridInv
<1>2. \A r \in fetches : /\ r.generation \in Nat /\ r.generation <= generation'
                         /\ r.generation # generation'
  BY <1>1 DEF GridInv
<1> DEFINE Restored == Grid!Restorable(kept, Grid!Key(s, rev))
           back == CHOOSE k \in Restored : TRUE
<1>3. CASE Restored # {}
  <2>1. back \in Restored
    BY <1>3
  <2>2. back \in kept /\ back.key = <<s, rev>>
    BY <2>1 DEF Grid!Restorable, Grid!Key
  <2>3. back.key[1] = s
    BY <2>2
  <2>4. pages' = back.pages /\ loading' = None /\ stored' = kept /\ UNCHANGED fetches
    BY <1>3 DEF Grid!Initialise
  <2> HIDE DEF back, Restored
  <2>5. PagesFit(pages', s)
    BY <2>2, <2>3, <2>4
  <2>6. GridInv'
    BY <1>1, <1>2, <2>4, <2>5 DEF GridInv, Grid!Current
  <2>7. Grid!NoneLeftOut => Grid!NoneLeftOut'
    <3>1. ASSUME Grid!NoneLeftOut PROVE Grid!Whole(pages', source')
      BY <1>1, <2>2, <2>3, <2>4, <3>1
    <3> QED
      BY <1>1, <2>4, <3>1, StillWhole
  <2> QED
    BY <2>6, <2>7 DEF GridGoal
<1>4. CASE Restored = {}
  <2> DEFINE new == [generation |-> generation', source |-> s, direction |-> "initial", cursor |-> None]
  <2>1. /\ pages' = <<>> /\ loading' = "initial"
        /\ stored' = {k \in kept : k.key # Grid!Key(s, rev)}
        /\ fetches' = fetches \cup {new}
    BY <1>4 DEF Grid!Initialise
  <2>2. /\ new.generation = generation' /\ new.source = s /\ new.direction = "initial"
        /\ new.cursor = None
    OBVIOUS
  <2>3. GoesOn("initial", None, <<>>)
    BY DEF GoesOn, Grid!Directions
  <2>4. stored' \subseteq kept
    BY <2>1
  <2>5. \A r \in fetches' : r \in fetches \/ r = new
    BY <2>1
  <2> HIDE DEF new, Restored
  <2>6. \A r \in fetches' : /\ r.generation \in Nat /\ r.generation <= generation'
                            /\ r.generation = generation' => r = new
    BY <1>1, <1>2, <2>2, <2>5
  <2>7. GridInv'
    BY <1>1, <2>1, <2>2, <2>3, <2>4, <2>6, NoPagesFit DEF GridInv, Grid!Current
  <2>8. Grid!Whole(pages', source')
    BY <2>1 DEF Grid!Whole
  <2>9. Grid!NoneLeftOut => Grid!NoneLeftOut'
    BY <1>1, <2>4, <2>8, StillWhole
  <2> QED
    BY <2>7, <2>9 DEF GridGoal
<1> QED
  BY <1>3, <1>4

(* What is saved is what is mounted.                                        *)
LEMMA SavedFits ==
  ASSUME GridInv, NEW room \in BOOLEAN
  PROVE  /\ \A k \in Grid!SavedState(room) : PagesFit(k.pages, k.key[1])
         /\ Grid!NoneLeftOut => \A k \in Grid!SavedState(room) : Grid!Whole(k.pages, k.key[1])
<1> DEFINE new == [key |-> Grid!Key(source, attribute), pages |-> pages]
<1>1. new.pages = pages /\ new.key[1] = source
  BY DEF Grid!Key
<1>2. \A k \in Grid!SavedState(room) : k \in stored \/ k = new
  BY DEF Grid!SavedState
<1> HIDE DEF new
<1> QED
  BY <1>1, <1>2 DEF GridInv, Grid!NoneLeftOut

(* An answer.                                                               *)
LEMMA AnsweredStep ==
  ASSUME GridInv, NEW r \in fetches, Grid!Answered(r)
  PROVE  GridGoal
<1>1. /\ Grid!Current(r) /\ r.source = source /\ GoesOn(r.direction, r.cursor, pages)
      /\ PagesFit(pages, source) /\ source \in GridSources /\ catalogue \subseteq Grid!Places
  BY DEF GridInv, Grid!Answered
<1>2. /\ fetches' = fetches \ {r} /\ loading' = None
      /\ UNCHANGED <<catalogue, touched, source, generation, stored>>
  BY DEF Grid!Answered
<1>3. Grid!ServedPage(r) = Served(r.direction, source, r.cursor)
  BY <1>1 DEF Grid!ServedPage, Served
<1> DEFINE grown == Grid!Integrated(pages, Mountable(Served(r.direction, source, r.cursor)),
                                    r.direction, dropped')
<1>4. pages' \in Grid!Trims(grown)
  BY <1>3 DEF Grid!Answered, Mountable
<1>5. PagesFit(grown, source)
  BY <1>1, IntegratedFits
<1>6. /\ Grid!Whole(pages, source)
      /\ r.direction # "initial" => r.cursor = EdgeOf(r.direction, pages)
      => Grid!Whole(grown, source)
  BY <1>1, IntegratedFits
<1> HIDE DEF grown
<1>7. PagesFit(pages', source) /\ (Grid!Whole(grown, source) => Grid!Whole(pages', source))
  <2>1. CASE grown = <<>>
    <3>1. pages' = <<>>
      BY <1>4, <2>1, NothingToTrim
    <3> QED
      BY <2>1, <3>1, <1>5
  <2>2. CASE grown # <<>>
    BY <1>4, <1>5, <2>2, TrimmedFits
  <2> QED
    BY <2>1, <2>2
<1>8. \A q \in fetches' : q \in fetches /\ ~Grid!Current(q)
  BY <1>1, <1>2 DEF GridInv
<1>9. GridInv'
  BY <1>2, <1>7, <1>8 DEF GridInv, Grid!Current
<1>10. ASSUME Grid!NoneLeftOut, ~Grid!Overtaken(r) PROVE Grid!NoneLeftOut'
  <2>1. r.direction # "initial" => r.cursor = EdgeOf(r.direction, pages)
    BY <1>10 DEF Grid!Overtaken, Grid!EdgeCursor, EdgeOf
  <2>2. Grid!Whole(pages', source')
    BY <1>2, <1>6, <1>7, <1>10, <2>1 DEF Grid!NoneLeftOut
  <2> QED
    BY <1>2, <1>10, <2>2, StillWhole DEF Grid!NoneLeftOut
<1> QED
  BY <1>9, <1>10 DEF GridGoal

(* A failure, an answer that is no longer asked for, a scroll.              *)
LEMMA FailedStep ==
  ASSUME GridInv, NEW r \in fetches, Grid!Failed(r)
  PROVE  GridGoal
<1>1. /\ Grid!Current(r) /\ fetches' = fetches \ {r}
      /\ UNCHANGED <<catalogue, touched, source, pages, generation, stored>>
  BY DEF Grid!Failed
<1>2. \A q \in fetches' : q \in fetches /\ ~Grid!Current(q)
  BY <1>1 DEF GridInv
<1>3. GridInv'
  BY <1>1, <1>2 DEF GridInv, Grid!Current
<1> QED
  BY <1>1, <1>3, StillWhole DEF GridGoal, Grid!NoneLeftOut

LEMMA SupersededStep ==
  ASSUME GridInv, NEW r \in fetches, Grid!Superseded(r)
  PROVE  GridGoal
<1>1. /\ fetches' = fetches \ {r}
      /\ UNCHANGED <<catalogue, touched, source, pages, loading, generation, stored>>
  BY DEF Grid!Superseded, Grid!client
<1>2. fetches' \subseteq fetches
  BY <1>1
<1>3. GridInv'
  BY <1>1, <1>2 DEF GridInv, Grid!Current
<1> QED
  BY <1>1, <1>3, StillWhole DEF GridGoal, Grid!NoneLeftOut

LEMMA ScrollStep ==
  ASSUME GridInv, Grid!Scroll
  PROVE  GridGoal
<1>1. /\ pages' \in Grid!Trims(pages) /\ pages' # pages
      /\ UNCHANGED <<catalogue, touched, source, loading, generation, fetches, stored>>
  BY DEF Grid!Scroll
<1>2. pages # <<>>
  BY <1>1, NothingToTrim
<1>3. PagesFit(pages, source)
  BY DEF GridInv
<1>4. /\ PagesFit(pages', source) /\ pages' # <<>>
      /\ pages[Len(pages)].next # None =>
           pages'[Len(pages')].next # None /\ pages'[Len(pages')].next <= pages[Len(pages)].next
      /\ pages[1].previous # None =>
           pages'[1].previous # None /\ pages[1].previous <= pages'[1].previous
      /\ Grid!Whole(pages, source) => Grid!Whole(pages', source)
  BY <1>1, <1>2, <1>3, TrimmedFits
<1>5. ASSUME NEW direction, NEW c, GoesOn(direction, c, pages) PROVE GoesOn(direction, c, pages')
  <2>1. CASE direction = "initial"
    BY <1>2, <1>5, <2>1 DEF GoesOn
  <2>2. CASE direction = "previous"
    <3>1. /\ c \in Grid!Places /\ c \in Nat /\ pages[1].previous # None /\ c <= pages[1].previous
      BY <1>5, <2>2, PlaceTypes DEF GoesOn
    <3>2. Bounded(pages[1]) /\ Bounded(pages'[1])
      BY <1>2, <1>3, <1>4 DEF PagesFit
    <3>3. pages[1].previous \in Nat /\ pages'[1].previous \in Nat
      BY <1>4, <3>1, <3>2, PageTypes
    <3>4. c <= pages'[1].previous
      BY <1>4, <3>1, <3>3
    <3> QED
      BY <1>4, <2>2, <3>1, <3>4 DEF GoesOn, Grid!Directions
  <2>3. CASE direction = "next"
    <3>1. /\ c \in Grid!Places /\ c \in Nat /\ pages[Len(pages)].next # None
          /\ pages[Len(pages)].next <= c
      BY <1>5, <2>3, PlaceTypes DEF GoesOn
    <3>2. Bounded(pages[Len(pages)]) /\ Bounded(pages'[Len(pages')])
      BY <1>2, <1>3, <1>4 DEF PagesFit
    <3>3. pages[Len(pages)].next \in Nat /\ pages'[Len(pages')].next \in Nat
      BY <1>4, <3>1, <3>2, PageTypes
    <3>4. pages'[Len(pages')].next <= c
      BY <1>4, <3>1, <3>3
    <3> QED
      BY <1>4, <2>3, <3>1, <3>4 DEF GoesOn, Grid!Directions
  <2> QED
    BY <1>5, <2>1, <2>2, <2>3 DEF GoesOn, Grid!Directions
<1>6. GridInv'
  BY <1>1, <1>4, <1>5 DEF GridInv, Grid!Current
<1>7. Grid!NoneLeftOut => Grid!NoneLeftOut'
  BY <1>1, <1>4, StillWhole DEF Grid!NoneLeftOut
<1> QED
  BY <1>6, <1>7 DEF GridGoal

LEMMA CatalogueStep ==
  ASSUME GridInv, NEW p \in Grid!Places, Grid!CatalogueChanges(p)
  PROVE  GridGoal
<1>1. /\ catalogue' = (catalogue \ {p}) \cup ({p} \ catalogue) /\ touched' = touched \cup {p}
      /\ UNCHANGED <<source, pages, loading, generation, fetches, stored>>
  BY DEF Grid!CatalogueChanges, Grid!client
<1>2. catalogue' \subseteq Grid!Places
  BY <1>1 DEF GridInv
<1>3. GridInv'
  BY <1>1, <1>2 DEF GridInv, Grid!Current
<1>4. \A s : (Grid!Kept(s))' \subseteq Grid!Kept(s)
  BY <1>1 DEF Grid!Kept
<1>5. Grid!NoneLeftOut => Grid!NoneLeftOut'
  BY <1>1, <1>4 DEF Grid!NoneLeftOut, Grid!Whole
<1> QED
  BY <1>3, <1>5 DEF GridGoal

(* A step of no part of the grid. *)
LEMMA GridStill ==
  ASSUME GridInv, UNCHANGED Grid!vars
  PROVE  GridGoal
<1>1. UNCHANGED <<catalogue, touched, source, pages, loading, generation, fetches, stored>>
  BY DEF Grid!vars
<1>2. GridInv'
  BY <1>1 DEF GridInv, Grid!Current
<1> QED
  BY <1>1, <1>2, StillWhole DEF GridGoal, Grid!NoneLeftOut

-----------------------------------------------------------------------------
LEMMA GridNext == GridInv /\ Grid!Next => GridGoal
<1> SUFFICES ASSUME GridInv, Grid!Next PROVE GridGoal
  OBVIOUS
<1>1. ASSUME NEW direction \in Grid!Directions, Grid!Approach(direction) \/ Grid!Retry(direction)
      PROVE  GridGoal
  BY <1>1, LoadStep DEF Grid!Approach, Grid!Retry
<1>2. ASSUME NEW s \in GridSources, Grid!ChangeSource(s) PROVE GridGoal
  <2>1. Grid!Initialise(s, attribute, stored, frame)
    BY <1>2 DEF Grid!ChangeSource
  <2>2. \A k \in stored : PagesFit(k.pages, k.key[1])
    BY DEF GridInv
  <2>3. Grid!NoneLeftOut => \A k \in stored : Grid!Whole(k.pages, k.key[1])
    BY DEF Grid!NoneLeftOut
  <2> QED
    BY <2>1, <2>2, <2>3, InitialiseStep
<1>3. ASSUME NEW s \in GridSources, NEW room \in BOOLEAN, Grid!Revisit(s, room) PROVE GridGoal
  <2>1. Grid!Initialise(s, Grid!revision, Grid!SavedState(room), FALSE)
    BY <1>3 DEF Grid!Revisit
  <2>2. /\ \A k \in Grid!SavedState(room) : PagesFit(k.pages, k.key[1])
        /\ Grid!NoneLeftOut => \A k \in Grid!SavedState(room) : Grid!Whole(k.pages, k.key[1])
    BY SavedFits
  <2> QED
    BY <2>1, <2>2, InitialiseStep
<1>4. CASE Grid!Answer
  BY <1>4, AnsweredStep, FailedStep DEF Grid!Answer
<1>5. CASE \E r \in fetches : Grid!Superseded(r)
  BY <1>5, SupersededStep
<1>6. CASE Grid!FrameFires
  BY <1>6, FrameStep
<1>7. CASE Grid!Scroll
  BY <1>7, ScrollStep
<1>8. CASE \E p \in Grid!Places : Grid!CatalogueChanges(p)
  BY <1>8, CatalogueStep
<1> QED
  BY <1>1, <1>2, <1>3, <1>4, <1>5, <1>6, <1>7, <1>8 DEF Grid!Next

LEMMA GridPromised == GridInv /\ GridGoal => Grid!InOrder /\ Grid!SegmentStep
<1> SUFFICES ASSUME GridInv, GridGoal PROVE Grid!InOrder /\ Grid!SegmentStep
  OBVIOUS
<1>1. ASSUME NEW ps, NEW s, PagesFit(ps, s)
      PROVE  /\ Grid!Posters(ps) \subseteq Matching[s]
             /\ \A i, j \in DOMAIN ps : i < j => \A p \in ps[i].items, q \in ps[j].items : p < q
  BY <1>1, PagesAreInOrder
<1>2. PagesFit(pages, source) /\ PagesFit(pages', source')
  BY DEF GridInv, GridGoal
<1>3. Grid!InOrder /\ Grid!InOrder'
  BY <1>1, <1>2 DEF Grid!InOrder, Grid!Mounted
<1> QED
  BY <1>3 DEF GridGoal, Grid!SegmentStep

(* The mounted pages are a piece of the catalogue in order, and no step     *)
(* leaves a poster out but the answer to an overtaken request: for any      *)
(* catalogue, sources, page size, capacity, visits and edits.               *)
THEOREM GridIsAlwaysASegment == Grid!Spec => Grid!MountedIsSegment /\ []Grid!InOrder
<1>1. GridInv /\ [Grid!Next]_(Grid!vars) => GridGoal
  BY GridNext, GridStill
<1>2. GridInv /\ [Grid!Next]_(Grid!vars) => GridInv' /\ [Grid!SegmentStep]_(Grid!vars)
  BY <1>1, GridPromised DEF GridGoal
<1>3. GridInv => Grid!InOrder
  BY PagesAreInOrder DEF GridInv, Grid!InOrder, Grid!Mounted
<1> QED
  BY <1>2, <1>3, GridStarts, PTL DEF Grid!Spec, Grid!MountedIsSegment

-----------------------------------------------------------------------------
(* The grid beside the other parts of the page.                             *)
GridPart == part = "grid" => GridInv

LEMMA GridPartStep ==
  GridPart /\ [LiveNext]_liveVars => GridPart' /\ (part = "grid" => Grid!SegmentStep)
<1> SUFFICES ASSUME GridPart, [LiveNext]_liveVars
             PROVE  GridPart' /\ (part = "grid" => Grid!SegmentStep)
  OBVIOUS
<1>1. part' = part
  BY DEF LiveNext, liveVars
<1>2. CASE part # "grid"
  BY <1>1, <1>2 DEF GridPart
<1>3. CASE part = "grid"
  <2>1. Grid!Next \/ UNCHANGED Grid!vars
    BY <1>3, Zenon DEF LiveNext, liveVars, gridVars, Grid!vars
  <2>2. GridInv
    BY <1>3 DEF GridPart
  <2>3. GridGoal
    BY <2>1, <2>2, GridNext, GridStill
  <2> QED
    BY <1>1, <2>2, <2>3, GridPromised DEF GridGoal, GridPart
<1> QED
  BY <1>2, <1>3

(* Whatever part a behaviour exercises, the mounted pages of the grid stay a *)
(* piece of the catalogue, but for the answer to an overtaken request.      *)
THEOREM MountedIsAlwaysASegment == LiveSpec => MountedIsSegment
<1>1. LiveInit => GridPart
  BY GridStarts DEF LiveInit, GridPart
<1>2. GridPart /\ [LiveNext]_liveVars =>
        GridPart' /\ [part = "grid" => Grid!SegmentStep]_liveVars
  BY GridPartStep
<1> QED
  BY <1>1, <1>2, PTL DEF LiveSpec, MountedIsSegment

-----------------------------------------------------------------------------
(* Toasts. *)
(* The inductive invariant: while something is queued for a page that       *)
(* listens, the request on its way has not read the queue yet or will be    *)
(* repeated; with none on its way, the last one failed.                     *)
Asks(c) ==
  /\ c.busy \in BOOLEAN /\ c.again \in BOOLEAN
  /\ c = [busy |-> c.busy, again |-> c.again, answer |-> c.answer]

QueueInv ==
  /\ Asks(consume)
  /\ connected /\ notices # <<>> =>
       /\ consume.busy => consume.answer = None \/ consume.again
       /\ ~consume.busy => failed

LEMMA QueueStarts == Notify!Init => QueueInv
BY DEF Notify!Init, Notify!Sent, QueueInv, Asks

LEMMA QueueStep == QueueInv /\ [Notify!Next]_(Notify!vars) => QueueInv'
<1> SUFFICES ASSUME QueueInv, [Notify!Next]_(Notify!vars) PROVE QueueInv'
  OBVIOUS
<1> DEFINE busy == consume.busy
           again == consume.again
           answer == consume.answer
<1>1. consume = [busy |-> busy, again |-> again, answer |-> answer]
  BY DEF QueueInv, Asks
<1>2. busy \in BOOLEAN /\ again \in BOOLEAN
  BY DEF QueueInv, Asks
<1>3. CASE Notify!Connect
  BY <1>3 DEF Notify!Connect, Notify!Sent, QueueInv, Asks
<1>4. CASE Notify!Disconnect
  BY <1>4 DEF Notify!Disconnect, Notify!Idle, QueueInv, Asks
<1>5. CASE Notify!Served
  <2>1. consume' = [busy |-> busy, again |-> again, answer |-> notices] /\ notices' = <<>>
    BY <1>1, <1>5 DEF Notify!Served
  <2> QED
    BY <2>1 DEF QueueInv, Asks
<1>6. ASSUME NEW delivered \in BOOLEAN, Notify!Answered(delivered) PROVE QueueInv'
  <2>1. /\ busy /\ (delivered => answer # None) /\ failed' = ~delivered
        /\ consume' = IF again THEN Notify!Sent ELSE Notify!Idle
        /\ UNCHANGED <<connected, notices>>
    BY <1>2, <1>6 DEF Notify!Answered
  <2>2. connected /\ notices # <<>> => answer = None \/ again
    BY <1>2, <2>1 DEF QueueInv
  <2>3. CASE again
    BY <2>1, <2>3 DEF Notify!Sent, QueueInv, Asks
  <2>4. CASE ~again
    <3>1. connected' /\ notices' # <<>> => failed'
      BY <2>1, <2>2, <2>4
    <3> QED
      BY <2>1, <2>4, <3>1 DEF Notify!Idle, QueueInv, Asks
  <2> QED
    BY <2>3, <2>4
<1>7. ASSUME NEW notice, Notify!ActionEnds(notice) PROVE QueueInv'
  <2>1. consume' = IF connected THEN Notify!AskedAgain(consume) ELSE consume
    BY <1>7 DEF Notify!ActionEnds
  <2>2. UNCHANGED connected
    BY <1>7 DEF Notify!ActionEnds
  <2>3. CASE connected /\ busy
    <3>1. consume' = [busy |-> busy, again |-> TRUE, answer |-> answer]
      BY <1>1, <2>1, <2>3 DEF Notify!AskedAgain
    <3> QED
      BY <2>3, <3>1 DEF QueueInv, Asks
  <2>4. CASE connected /\ ~busy
    <3>1. consume' = Notify!Sent
      BY <1>2, <2>1, <2>4 DEF Notify!AskedAgain
    <3> QED
      BY <3>1 DEF Notify!Sent, QueueInv, Asks
  <2>5. CASE ~connected
    BY <1>1, <2>1, <2>2, <2>5 DEF QueueInv, Asks
  <2> QED
    BY <2>3, <2>4, <2>5
<1>8. CASE UNCHANGED <<connected, consume, notices, failed>>
  BY <1>8 DEF QueueInv, Asks
<1> QED
  BY <1>3, <1>4, <1>5, <1>6, <1>7, <1>8
     DEF Notify!Next, Notify!vars, Notify!Add, Notify!Dismiss, Notify!TimerFires

LEMMA QueueInvSuffices == QueueInv => Notify!QueueIsRead
BY DEF QueueInv, Notify!QueueIsRead

(* What an action queued waits only while a request will still read it, or  *)
(* after one failed: for any notifications, limits and number of actions.   *)
THEOREM QueueIsReadByThePage == Notify!Spec => []Notify!QueueIsRead
BY QueueStarts, QueueStep, QueueInvSuffices, PTL DEF Notify!Spec

QueuePart == part = "toasts" => QueueInv

LEMMA QueuePartStep == QueuePart /\ [LiveNext]_liveVars => QueuePart'
<1> SUFFICES ASSUME QueuePart, [LiveNext]_liveVars, part = "toasts" PROVE QueuePart'
  BY DEF LiveNext, liveVars, QueuePart
<1>1. Notify!Next \/ UNCHANGED Notify!vars
  BY Zenon DEF LiveNext, liveVars, toastVars, Notify!vars
<1> QED
  BY <1>1, QueueStep DEF QueuePart

(* The same in a behaviour of any part. *)
THEOREM QueueIsAlwaysRead == LiveSpec => []QueueIsRead
<1>1. LiveInit => QueuePart
  BY QueueStarts DEF LiveInit, QueuePart
<1>2. QueuePart => QueueIsRead
  BY QueueInvSuffices DEF QueuePart, QueueIsRead
<1> QED
  BY <1>1, <1>2, QueuePartStep, PTL DEF LiveSpec
=============================================================================
