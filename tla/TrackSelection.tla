--------------------------- MODULE TrackSelection ---------------------------
(***************************************************************************)
(* The audio and subtitle selection of the browser player and how it is    *)
(* saved (kanvas-playback.js): changes that come in quick succession share *)
(* one save, saves are sent one after the other, an audio change asks for a *)
(* new delivery once it is saved, and the subtitles that are drawn follow  *)
(* the selection without being fetched again where the browser allows it.  *)
(*                                                                         *)
(* A delivery is asked for and answered in one step here: BrowserPlayer    *)
(* has its races.  A track stands for its format; the two version counters *)
(* that tell the newest save and the newest audio change are marks.        *)
(***************************************************************************)
EXTENDS Integers, Sequences

CONSTANTS LastEntry,    \* entries 0 .. LastEntry of the session
          AudioStreams, Looks,
          MaxOffset,    \* subtitles are moved by at most this much
          CueEnds,      \* when the cues of a file end
          MaxChanges,   \* bound: changes by the viewer
          None

VARIABLES
  entry,     \* entryPosition
  selected,  \* what the viewer has selected for it
  pending,   \* pendingTrackSelectionSave
  timer,     \* trackSelectionSaveTimer is set
  chain,     \* trackSelectionSaveSequence: the head is in flight
  drawn,     \* the native track or the ASS renderer
  heard,     \* the audio stream of the current delivery
  told,      \* the failures the viewer has been told of
  saved,     \* the server's selection of every entry
  changes    \* counts what MaxChanges bounds

vars == <<entry, selected, pending, timer, chain, drawn, heard, told, saved, changes>>

Entries == 0 .. LastEntry
Tracks == {"webvtt", "ass", "unsupported"}
Offsets == -MaxOffset .. MaxOffset
Selections == [audio : AudioStreams, subtitle : Tracks \cup {None}, timing : Offsets, look : Looks]

\* A stored selection may name a track the file no longer has.
Stored == [audio : AudioStreams, subtitle : Tracks \cup {None, "missing"}, timing : Offsets, look : Looks]
Least(a, b) == IF a < b THEN a ELSE b
Greatest(a, b) == IF a > b THEN a ELSE b

-----------------------------------------------------------------------------
(* Drawing. *)

Nothing == [kind |-> "none"]

\* Only the cues that the server leaves in the shifted file exist.
Served(timing) == {end \in CueEnds : end + timing > 0}

Draw(s) ==
  IF s.subtitle \in {None, "unsupported"} THEN Nothing
  ELSE IF s.subtitle = "ass" THEN [kind |-> "ass", timing |-> s.timing]
  ELSE [kind |-> "webvtt", base |-> s.timing, loaded |-> FALSE, attached |-> {}]

KeptCues(d, timing) == d.attached

\* Cues that end before the film starts are detached, and attached again later.
TimedCues(d, timing) == {end \in Served(d.base) : end + timing > 0}

ApplyTiming(d, timing) ==
  IF d.kind = "ass" THEN [d EXCEPT !.timing = timing]
  ELSE IF d.kind = "webvtt" /\ d.loaded THEN [d EXCEPT !.attached = TimedCues(d, timing)]
  ELSE d

-----------------------------------------------------------------------------
(* Saving. *)

Unmarked(saves, mark) == [i \in DOMAIN saves |-> [saves[i] EXCEPT ![mark] = FALSE]]

\* The failure message belongs to the newest save, the delivery to the newest audio change.
Flush(p, saves, forAudio) ==
  IF p = None \/ p.entry # entry THEN saves
  ELSE Append(saves, [entry |-> p.entry, selection |-> p.selection, latest |-> TRUE, audio |-> forAudio])

SaveOfFirst(s) == IF pending # None /\ pending.entry = entry THEN pending
                  ELSE [entry |-> entry, selection |-> s]

SaveOf(s) == [entry |-> entry, selection |-> s]

QueueSave(s) ==
  /\ pending' = SaveOf(s)
  /\ timer' = TRUE
  /\ chain' = Unmarked(chain, "latest")

SaveNow(s, forAudio) ==
  LET marked == IF forAudio THEN Unmarked(Unmarked(chain, "latest"), "audio") ELSE Unmarked(chain, "latest")
  IN  /\ chain' = Flush(SaveOf(s), marked, forAudio)
      /\ pending' = None
      /\ timer' = FALSE

-----------------------------------------------------------------------------
Init ==
  /\ entry = 0
  /\ saved \in [Entries -> Stored]
  /\ saved[0] \in Selections /\ selected = saved[0]
  /\ drawn = Draw(selected)
  /\ heard = selected.audio
  /\ pending = None /\ timer = FALSE /\ chain = <<>>
  /\ told = [save |-> FALSE, audio |-> FALSE]
  /\ changes = 0

Change == changes < MaxChanges /\ changes' = changes + 1

SelectAudio(a) ==
  /\ Change /\ a # selected.audio
  /\ selected' = [selected EXCEPT !.audio = a]
  /\ SaveNow(selected', TRUE)
  /\ told' = [save |-> FALSE, audio |-> FALSE]
  /\ UNCHANGED <<entry, drawn, heard, saved>>

SelectSubtitle(t) ==
  /\ Change /\ t # selected.subtitle
  /\ selected' = [selected EXCEPT !.subtitle = t]
  /\ SaveNow(selected', FALSE)
  /\ drawn' = Draw(selected')
  /\ told' = [told EXCEPT !.save = FALSE]
  /\ UNCHANGED <<entry, heard, saved>>

TimingAvailable == selected.subtitle \notin {None, "unsupported"}

MoveSubtitles(step) ==
  LET timing == Least(Greatest(selected.timing + step, -MaxOffset), MaxOffset)
  IN  /\ Change /\ TimingAvailable /\ timing # selected.timing
      /\ selected' = [selected EXCEPT !.timing = timing]
      /\ drawn' = ApplyTiming(drawn, timing)
      /\ QueueSave(selected')
      /\ told' = [told EXCEPT !.save = FALSE]
      /\ UNCHANGED <<entry, heard, saved>>

AppearanceAvailable == selected.subtitle = "webvtt"

ChangeLook(look) ==
  /\ Change /\ AppearanceAvailable /\ look # selected.look
  /\ selected' = [selected EXCEPT !.look = look]
  /\ QueueSave(selected')
  /\ told' = [told EXCEPT !.save = FALSE]
  /\ UNCHANGED <<entry, drawn, heard, saved>>

\* After 150 ms without a save; the save of an entry already left is given up.
TimerFires ==
  /\ timer
  /\ timer' = FALSE
  /\ pending' = None
  /\ chain' = Flush(pending, chain, FALSE)
  /\ UNCHANGED <<entry, selected, drawn, heard, told, saved, changes>>

DeliverBeforeSaved(delivered) ==
  /\ heard' = IF delivered THEN saved[entry].audio ELSE heard
  /\ drawn' = IF delivered THEN Draw(selected) ELSE drawn

Deliver(delivered) ==
  /\ heard' = IF delivered THEN saved'[entry].audio ELSE heard
  /\ drawn' = IF delivered THEN Draw(selected) ELSE drawn

\* The head of the chain is answered: stored or not, and the answer lost or not.
SaveAnswered(stored, ok, delivered) ==
  LET save == Head(chain)
  IN  /\ chain # <<>>
      /\ ok => stored
      /\ chain' = Tail(chain)
      /\ saved' = IF stored THEN [saved EXCEPT ![save.entry] = save.selection] ELSE saved
      /\ told' = [save |-> told.save \/ (~ok /\ save.entry = entry /\ save.latest),
                  audio |-> told.audio \/ (save.audio /\ ~(ok /\ delivered))]
      /\ IF ok /\ save.audio THEN Deliver(delivered) ELSE UNCHANGED <<heard, drawn>>
      /\ UNCHANGED <<entry, selected, pending, timer, changes>>

\* A stream restarted by a seek or a reconnection takes the stored audio stream.
StreamRestarts ==
  /\ Change
  /\ heard' = saved[entry].audio
  /\ drawn' = Draw(selected)
  /\ UNCHANGED <<entry, selected, pending, timer, chain, told, saved>>

TrackLoads ==
  /\ drawn.kind = "webvtt" /\ ~drawn.loaded
  /\ drawn' = [drawn EXCEPT !.loaded = TRUE, !.attached = TimedCues(drawn, selected.timing)]
  /\ UNCHANGED <<entry, selected, pending, timer, chain, heard, told, saved, changes>>

ValidSelection(s) == s.subtitle \in Tracks \cup {None}

NextEntry ==
  /\ entry < LastEntry /\ ValidSelection(saved[entry + 1])
  /\ entry' = entry + 1
  /\ selected' = saved[entry + 1]
  /\ heard' = selected'.audio
  /\ drawn' = Draw(selected')
  /\ chain' = Unmarked(Unmarked(chain, "latest"), "audio")
  /\ told' = [save |-> FALSE, audio |-> FALSE]
  /\ UNCHANGED <<pending, timer, saved, changes>>

SaveSettles == \E stored, ok, delivered \in BOOLEAN : SaveAnswered(stored, ok, delivered)

Next ==
  \/ \E a \in AudioStreams : SelectAudio(a)
  \/ \E t \in Tracks \cup {None} : SelectSubtitle(t)
  \/ \E step \in {-1, 1, -selected.timing} : MoveSubtitles(step)
  \/ \E look \in Looks : ChangeLook(look)
  \/ TimerFires \/ SaveSettles \/ StreamRestarts \/ TrackLoads \/ NextEntry

Spec == Init /\ [][Next]_vars /\ WF_vars(TimerFires) /\ WF_vars(SaveSettles)

-----------------------------------------------------------------------------
Saves == [entry : Entries, selection : Selections, latest : BOOLEAN, audio : BOOLEAN]

TypeOK ==
  /\ entry \in Entries
  /\ selected \in Selections
  /\ pending \in [entry : Entries, selection : Selections] \cup {None}
  /\ timer \in BOOLEAN
  /\ chain \in Seq(Saves)
  /\ heard \in AudioStreams
  /\ told \in [save : BOOLEAN, audio : BOOLEAN]
  /\ saved \in [Entries -> Stored]
  /\ changes \in 0 .. MaxChanges

Settled == chain = <<>> /\ ~timer

\* Once nothing is on its way the server holds what the viewer selected, or the
\* viewer has been told that the last change was not saved.
SelectionSavedOrTold == Settled => saved[entry] = selected \/ told.save

\* Once nothing is on its way the viewer hears the stream selected last, or has
\* been told that the change failed, whatever was saved or restarted meanwhile.
AudioFollowsSelection == Settled => heard = selected.audio \/ told.audio

\* What is drawn is the selected track at the selected offset, also when the
\* offset was changed while the track was being loaded.
SubtitlesFollowSelection ==
  CASE selected.subtitle = "webvtt" ->
         /\ drawn.kind = "webvtt"
         /\ drawn.loaded => drawn.attached = {end \in Served(drawn.base) : end + selected.timing > 0}
    [] selected.subtitle = "ass" -> drawn = [kind |-> "ass", timing |-> selected.timing]
    [] OTHER -> drawn = Nothing
=============================================================================
