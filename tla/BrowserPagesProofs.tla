------------------------- MODULE BrowserPagesProofs -------------------------
(***************************************************************************)
(* Proofs about the parts of the browser that MCBrowserPages checks beside *)
(* the administration: the player's controls, its tracks, the editing of a *)
(* collection and the dialog that puts an item into collections.  Every    *)
(* part has an inductive invariant of its own; each theorem is stated both *)
(* for the part and for the specification the runs check.                  *)
(***************************************************************************)
EXTENDS MCBrowserPages, FiniteSetTheorems, SequenceTheorems, TLAPS

-----------------------------------------------------------------------------
(* PlayerControls. *)

ControlsInv ==
  /\ menus = {} \/ \E m \in Controls!Menus : menus = {m}
  /\ active # None => menus = {active}
  /\ hidden => menus = {} /\ ~tooltip

(* Nothing is left open when the player starts. *)
LEMMA ControlsStart == Controls!Init => ControlsInv
BY DEF Controls!Init, ControlsInv

(* Whatever shows the controls leaves no popup without them. *)
LEMMA ShownControlsKeep ==
  ASSUME Controls!ShowControls,
         menus' = {} \/ \E m \in Controls!Menus : menus' = {m},
         active' # None => menus' = {active'}
  PROVE  ControlsInv'
BY DEF Controls!ShowControls, ControlsInv

(* A handler that touches no popup may show the controls. *)
LEMMA UntouchedPopupsKeep ==
  ASSUME ControlsInv, UNCHANGED <<menus, active>>, Controls!ShowControls
  PROVE  ControlsInv'
BY ShownControlsKeep DEF ControlsInv

(* Dismissing every popup keeps it, too. *)
LEMMA DismissedPopupsKeep ==
  ASSUME Controls!Dismissed, Controls!ShowControls
  PROVE  ControlsInv'
BY ShownControlsKeep DEF Controls!Dismissed

LEMMA ControlsStep ==
  ASSUME ControlsInv, [Controls!Next]_controls
  PROVE  ControlsInv'
<1>1. ASSUME NEW m \in Controls!Menus, NEW toggle \in BOOLEAN, Controls!OpenPopup(m, toggle)
      PROVE  ControlsInv'
  <2>1. /\ menus' = {} \/ menus' = {m}
        /\ active' # None => menus' = {active'}
        /\ Controls!ShowControls
    BY <1>1 DEF Controls!OpenPopup
  <2> QED
    BY <2>1, ShownControlsKeep
<1>2. CASE Controls!DismissPopups \/ Controls!LosePopup
  BY <1>2, DismissedPopupsKeep DEF Controls!LosePopup, Controls!DismissPopups
<1>3. CASE Controls!ShowTooltip \/ Controls!HideTooltip \/ Controls!PointerMoves \/ Controls!PauseOrPlay
  BY <1>3, UntouchedPopupsKeep
     DEF Controls!ShowTooltip, Controls!HideTooltip, Controls!PointerMoves, Controls!PauseOrPlay
<1>4. CASE Controls!HideTimerFires
  BY <1>4 DEF Controls!HideTimerFires, Controls!CanHide, ControlsInv
<1>5. CASE Controls!NewSource \/ Controls!VolumeChange
            \/ \E value \in 0 .. Full : Controls!NativeVolume(value)
  <2>1. UNCHANGED Controls!surface
    BY <1>5 DEF Controls!NewSource, Controls!VolumeChange, Controls!NativeVolume
  <2> QED
    BY <2>1 DEF Controls!surface, ControlsInv
<1>6. ASSUME NEW element, NEW axis, Controls!FullscreenChange(element, axis)
      PROVE  ControlsInv'
  <2>1. CASE Controls!ShowControls
    BY <1>6, <2>1, UntouchedPopupsKeep DEF Controls!FullscreenChange
  <2>2. CASE UNCHANGED <<hidden, hideTimer>>
    BY <1>6, <2>2 DEF Controls!FullscreenChange, ControlsInv
  <2> QED
    BY <1>6, <2>1, <2>2 DEF Controls!FullscreenChange
<1>7. ASSUME NEW axis, Controls!Resize(axis)
      PROVE  ControlsInv'
  <2>1. CASE menus # {}
    BY <1>7, <2>1, DismissedPopupsKeep DEF Controls!Resize
  <2>2. CASE menus = {}
    BY <1>7, <2>2 DEF Controls!Resize, Controls!surface, ControlsInv
  <2> QED
    BY <2>1, <2>2
<1>8. ASSUME NEW alignment, Controls!AlignFrame(alignment)
      PROVE  ControlsInv'
  BY <1>8, UntouchedPopupsKeep DEF Controls!AlignFrame
<1>9. ASSUME NEW value, Controls!MoveVolume(value)
      PROVE  ControlsInv'
  BY <1>9, UntouchedPopupsKeep DEF Controls!MoveVolume
<1>10. CASE Controls!Mute \/ \E on, allowed \in BOOLEAN : Controls!ChangeBoost(on, allowed)
  BY <1>10, DismissedPopupsKeep DEF Controls!Mute, Controls!ChangeBoost
<1>11. ASSUME NEW allowed, Controls!Reconnect(allowed)
       PROVE  ControlsInv'
  <2>1. /\ menus' = menus /\ active' = None /\ Controls!ShowControls
    BY <1>11 DEF Controls!Reconnect
  <2> QED
    BY <2>1, ShownControlsKeep DEF ControlsInv
<1>12. CASE UNCHANGED controls
  BY <1>12 DEF controls, ControlsInv
<1> QED
  BY <1>1, <1>2, <1>3, <1>4, <1>5, <1>6, <1>7, <1>8, <1>9, <1>10, <1>11, <1>12 DEF Controls!Next, Controls!Menus

LEMMA SameCardinality == \A S : Controls!Cardinality(S) = Cardinality(S)
BY DEF Controls!Cardinality, Cardinality

LEMMA ControlsInvSuffices == ControlsInv => Controls!MenusStayWithControls
<1> SUFFICES ASSUME ControlsInv PROVE Controls!MenusStayWithControls
  OBVIOUS
<1>1. Cardinality(menus) <= 1
  <2>1. CASE menus = {}
    BY <2>1, FS_EmptySet
  <2>2. ASSUME NEW m, menus = {m} PROVE Cardinality(menus) <= 1
    <3>1. Cardinality({m}) = 1
      BY FS_Singleton
    <3> QED
      BY <2>2, <3>1
  <2> QED
    BY <2>1, <2>2 DEF ControlsInv
<1> QED
  BY <1>1, SameCardinality DEF ControlsInv, Controls!MenusStayWithControls

(* At most one popup is open, the one the player takes for open, and        *)
(* neither it nor the tooltip is left without its controls: showing,        *)
(* dismissing and hiding in kanvas-playback.js, in any order, with the      *)
(* element taken out of the page and put back.                              *)
THEOREM MenusAlwaysStayWithControls ==
  /\ Controls!Spec => []Controls!MenusStayWithControls
  /\ PagesSpec => []MenusStayWithControls
<1>1. Controls!Spec => []Controls!MenusStayWithControls
  <2>1. ControlsInv /\ [Controls!Next]_controls => ControlsInv'
    BY ControlsStep
  <2>2. [Controls!Next]_(Controls!vars) => [Controls!Next]_controls
    BY DEF Controls!vars, controls
  <2> QED
    BY ControlsStart, <2>1, <2>2, ControlsInvSuffices, PTL DEF Controls!Spec
<1>2. PagesSpec => []MenusStayWithControls
  <2> DEFINE Inv == part = "controls" => ControlsInv
  <2>1. PagesInit => Inv
    BY ControlsStart DEF PagesInit
  <2>2. Inv /\ [PagesNext]_pagesVars => Inv'
    <3> SUFFICES ASSUME Inv, [PagesNext]_pagesVars, part' = "controls"
                 PROVE  ControlsInv'
      OBVIOUS
    <3>1. part = "controls" /\ [Controls!Next]_controls
      BY DEF PagesNext, pagesVars
    <3> QED
      BY <3>1, ControlsStep
  <2>3. Inv => MenusStayWithControls
    BY ControlsInvSuffices DEF MenusStayWithControls
  <2> QED
    BY <2>1, <2>2, <2>3, PTL DEF PagesSpec
<1> QED
  BY <1>1, <1>2

-----------------------------------------------------------------------------
(* TrackSelection. *)

TracksTypes ==
  /\ entry \in Tracks!Entries
  /\ selected \in Tracks!Selections
  /\ saved \in [Tracks!Entries -> Tracks!Stored]
  /\ chain \in Seq(Tracks!Saves)
  /\ told \in [save : BOOLEAN, audio : BOOLEAN]

\* What waits for the timer is the selection, unless the entry was left since.
PendingIsSelected ==
  timer => /\ pending \in [entry : Tracks!Entries, selection : Tracks!Selections]
           /\ pending.entry <= entry
           /\ pending.entry = entry => pending.selection = selected

\* Saves are of entries already reached; an audio mark is of the current one.
SavesOfReached ==
  \A i \in 1 .. Len(chain) : /\ chain[i].entry <= entry
                             /\ chain[i].audio => chain[i].entry = entry

\* The viewer was told, or the selection waits, is on its way, or is stored.
SelectionOnItsWay ==
  \/ told.save
  \/ timer /\ pending.entry = entry
  \/ \E i \in 1 .. Len(chain) :
        /\ chain[i].entry = entry /\ chain[i].selection = selected /\ chain[i].latest
        /\ \A j \in 1 .. Len(chain) : j > i => chain[j].entry # entry
  \/ /\ saved[entry] = selected
     /\ \A i \in 1 .. Len(chain) : chain[i].entry # entry

\* The viewer was told, the save that asks for the delivery is on its way, or
\* the stream is the selected one and whatever is stored later keeps it.
AudioOnItsWay ==
  \/ told.audio
  \/ \E i \in 1 .. Len(chain) :
        /\ chain[i].audio /\ chain[i].selection.audio = selected.audio
        /\ \A j \in 1 .. Len(chain) :
              j > i /\ chain[j].entry = entry => chain[j].selection.audio = selected.audio
  \/ /\ heard = selected.audio /\ saved[entry].audio = selected.audio
     /\ \A i \in 1 .. Len(chain) :
           chain[i].entry = entry => chain[i].selection.audio = selected.audio

\* What is drawn, once loaded, is the selected track at the selected offset.
DrawnAs(d, s) ==
  /\ s.subtitle = "webvtt" =>
       \E base \in Tracks!Offsets, l \in BOOLEAN, attached \in SUBSET CueEnds :
         /\ d = [kind |-> "webvtt", base |-> base, loaded |-> l, attached |-> attached]
         /\ l => attached = {end \in Tracks!Served(base) : end + s.timing > 0}
  /\ s.subtitle = "ass" => d = [kind |-> "ass", timing |-> s.timing]
  /\ s.subtitle \notin {"webvtt", "ass"} => d = Tracks!Nothing

TracksInv ==
  /\ TracksTypes
  /\ PendingIsSelected
  /\ SavesOfReached
  /\ SelectionOnItsWay
  /\ AudioOnItsWay
  /\ DrawnAs(drawn, selected)

(* Clearing a mark leaves what is saved, and where, alone. *)
LEMMA UnmarkedSaves ==
  ASSUME NEW s \in Seq(Tracks!Saves), NEW mark \in {"latest", "audio"}
  PROVE  /\ Tracks!Unmarked(s, mark) \in Seq(Tracks!Saves)
         /\ Len(Tracks!Unmarked(s, mark)) = Len(s)
         /\ \A i \in 1 .. Len(s) :
              /\ Tracks!Unmarked(s, mark)[i].entry = s[i].entry
              /\ Tracks!Unmarked(s, mark)[i].selection = s[i].selection
              /\ mark = "latest" => Tracks!Unmarked(s, mark)[i].audio = s[i].audio
              /\ mark = "audio" => /\ Tracks!Unmarked(s, mark)[i].latest = s[i].latest
                                   /\ Tracks!Unmarked(s, mark)[i].audio = FALSE
<1> DEFINE t == Tracks!Unmarked(s, mark)
<1>1. DOMAIN s = 1 .. Len(s) /\ Len(s) \in Nat
  OBVIOUS
<1>2. t = [i \in 1 .. Len(s) |-> [s[i] EXCEPT ![mark] = FALSE]]
  BY <1>1 DEF Tracks!Unmarked
<1>3. ASSUME NEW i \in 1 .. Len(s)
      PROVE  /\ t[i] \in Tracks!Saves
             /\ t[i].entry = s[i].entry /\ t[i].selection = s[i].selection
             /\ mark = "latest" => t[i].audio = s[i].audio
             /\ mark = "audio" => t[i].latest = s[i].latest /\ t[i].audio = FALSE
  <2>1. s[i] \in Tracks!Saves
    BY <1>3
  <2>2. t[i] = [s[i] EXCEPT ![mark] = FALSE]
    BY <1>2, <1>3
  <2>3. CASE mark = "latest"
    BY <2>1, <2>2, <2>3 DEF Tracks!Saves
  <2>4. CASE mark = "audio"
    BY <2>1, <2>2, <2>4 DEF Tracks!Saves
  <2> QED
    BY <2>3, <2>4
<1>4. t \in [1 .. Len(s) -> Tracks!Saves]
  BY <1>2, <1>3
<1>5. t \in Seq(Tracks!Saves) /\ Len(t) = Len(s)
  <2> HIDE DEF t
  <2> QED
    BY <1>1, <1>4
<1> QED
  BY <1>3, <1>5

(* A save that is sent at once joins the end of the chain. *)
LEMMA SavedNow ==
  ASSUME TracksTypes, NEW s \in Tracks!Selections, NEW forAudio \in BOOLEAN,
         Tracks!SaveNow(s, forAudio)
  PROVE  /\ ~timer'
         /\ chain' \in Seq(Tracks!Saves)
         /\ Len(chain') = Len(chain) + 1 /\ Len(chain) \in Nat
         /\ chain'[Len(chain) + 1] =
              [entry |-> entry, selection |-> s, latest |-> TRUE, audio |-> forAudio]
         /\ \A i \in 1 .. Len(chain) :
              /\ chain'[i].entry = chain[i].entry
              /\ chain'[i].selection = chain[i].selection
              /\ chain'[i].audio => chain[i].audio /\ ~forAudio
              /\ ~forAudio => chain'[i].audio = chain[i].audio
<1> DEFINE once == Tracks!Unmarked(chain, "latest")
           marked == IF forAudio THEN Tracks!Unmarked(once, "audio") ELSE once
           new == [entry |-> entry, selection |-> s, latest |-> TRUE, audio |-> forAudio]
<1>1. /\ once \in Seq(Tracks!Saves) /\ Len(once) = Len(chain) /\ Len(chain) \in Nat
      /\ \A i \in 1 .. Len(chain) :
           /\ once[i].entry = chain[i].entry /\ once[i].selection = chain[i].selection
           /\ once[i].audio = chain[i].audio
  <2>1. chain \in Seq(Tracks!Saves) /\ Len(chain) \in Nat
    BY DEF TracksTypes
  <2> QED
    BY <2>1, UnmarkedSaves
<1> HIDE DEF once
<1>2. /\ marked \in Seq(Tracks!Saves) /\ Len(marked) = Len(chain)
      /\ \A i \in 1 .. Len(chain) :
           /\ marked[i].entry = chain[i].entry /\ marked[i].selection = chain[i].selection
           /\ forAudio => marked[i].audio = FALSE
           /\ ~forAudio => marked[i].audio = chain[i].audio
  <2>1. CASE forAudio
    <3>1. marked = Tracks!Unmarked(once, "audio")
      BY <2>1
    <3>2. /\ marked \in Seq(Tracks!Saves) /\ Len(marked) = Len(once)
          /\ \A i \in 1 .. Len(once) :
               /\ marked[i].entry = once[i].entry /\ marked[i].selection = once[i].selection
               /\ marked[i].audio = FALSE
      <4> HIDE DEF marked
      <4> QED
        BY <1>1, <3>1, UnmarkedSaves
    <3> HIDE DEF marked
    <3> QED
      BY <1>1, <2>1, <3>2
  <2>2. CASE ~forAudio
    <3>1. marked = once
      BY <2>2
    <3> HIDE DEF marked
    <3> QED
      BY <1>1, <2>2, <3>1
  <2> QED
    BY <2>1, <2>2
<1>3. chain' = Append(marked, new) /\ ~timer'
  <2>1. chain' = Tracks!Flush(Tracks!SaveOf(s), marked, forAudio) /\ ~timer'
    BY DEF Tracks!SaveNow, once
  <2> HIDE DEF marked
  <2>2. Tracks!SaveOf(s) \in [entry : Tracks!Entries, selection : Tracks!Selections]
    BY DEF TracksTypes, Tracks!SaveOf
  <2>3. Tracks!SaveOf(s) # None
    BY <2>2, PagesAssumption
  <2> QED
    BY <2>1, <2>3 DEF Tracks!Flush, Tracks!SaveOf
<1> HIDE DEF marked
<1>4. new \in Tracks!Saves
  BY DEF TracksTypes, Tracks!Saves
<1>5. /\ chain' \in Seq(Tracks!Saves) /\ Len(chain') = Len(chain) + 1
      /\ chain'[Len(chain) + 1] = new
      /\ \A i \in 1 .. Len(chain) : chain'[i] = marked[i]
  BY <1>1, <1>2, <1>3, <1>4
<1>6. ASSUME NEW i \in 1 .. Len(chain)
      PROVE  /\ chain'[i].entry = chain[i].entry
             /\ chain'[i].selection = chain[i].selection
             /\ chain'[i].audio => chain[i].audio /\ ~forAudio
             /\ ~forAudio => chain'[i].audio = chain[i].audio
  <2>1. chain'[i] = marked[i]
    BY <1>5, <1>6
  <2>2. CASE forAudio
    BY <1>2, <1>6, <2>1, <2>2
  <2>3. CASE ~forAudio
    BY <1>2, <1>6, <2>1, <2>3
  <2> QED
    BY <2>2, <2>3
<1> QED
  BY <1>1, <1>3, <1>5, <1>6

(* A track drawn anew is drawn at the selected offset. *)
LEMMA DrawnAnew ==
  ASSUME NEW s \in Tracks!Selections
  PROVE  DrawnAs(Tracks!Draw(s), s)
<1>1. s.timing \in Tracks!Offsets /\ s.subtitle \in Tracks!Tracks \cup {None}
  BY DEF Tracks!Selections
<1>2. CASE s.subtitle = "webvtt"
  <2>1. Tracks!Draw(s) = [kind |-> "webvtt", base |-> s.timing, loaded |-> FALSE, attached |-> {}]
    BY <1>2, PagesAssumption DEF Tracks!Draw
  <2> DEFINE d == Tracks!Draw(s)
  <2>2. \E base \in Tracks!Offsets, l \in BOOLEAN, attached \in SUBSET CueEnds :
          /\ d = [kind |-> "webvtt", base |-> base, loaded |-> l, attached |-> attached]
          /\ l => attached = {end \in Tracks!Served(base) : end + s.timing > 0}
    <3> s.timing \in Tracks!Offsets
      BY <1>1
    <3> WITNESS s.timing \in Tracks!Offsets, FALSE \in BOOLEAN, {} \in SUBSET CueEnds
    <3> QED
      BY <2>1
  <2> HIDE DEF d
  <2>3. DrawnAs(d, s)
    BY <1>2, <2>2 DEF DrawnAs
  <2> QED
    BY <2>3 DEF d
<1>3. CASE s.subtitle = "ass"
  BY <1>1, <1>3, PagesAssumption DEF DrawnAs, Tracks!Draw
<1>4. CASE s.subtitle \notin {"webvtt", "ass"}
  BY <1>1, <1>4 DEF DrawnAs, Tracks!Draw, Tracks!Tracks
<1> QED
  BY <1>2, <1>3, <1>4

(* A change of the track or of the stream is saved at once. *)
LEMMA ChangeSavedNowKeeps ==
  ASSUME TracksInv, NEW s \in Tracks!Selections, NEW forAudio \in BOOLEAN,
         Tracks!SaveNow(s, forAudio), selected' = s, UNCHANGED <<entry, heard, saved>>,
         told' \in [save : BOOLEAN, audio : BOOLEAN],
         ~forAudio => s.audio = selected.audio /\ told'.audio = told.audio,
         DrawnAs(drawn', s)
  PROVE  TracksInv'
<1>1. TracksTypes /\ SavesOfReached /\ AudioOnItsWay
  BY DEF TracksInv
<1>2. entry \in Nat
  BY <1>1, PagesAssumption DEF TracksTypes, Tracks!Entries
<1> DEFINE new == [entry |-> entry, selection |-> s, latest |-> TRUE, audio |-> forAudio]
<1>3. /\ ~timer'
      /\ chain' \in Seq(Tracks!Saves)
      /\ Len(chain') = Len(chain) + 1 /\ Len(chain) \in Nat
      /\ chain'[Len(chain) + 1] = new
      /\ \A i \in 1 .. Len(chain) :
           /\ chain'[i].entry = chain[i].entry
           /\ chain'[i].selection = chain[i].selection
           /\ chain'[i].audio => chain[i].audio /\ ~forAudio
           /\ ~forAudio => chain'[i].audio = chain[i].audio
  BY <1>1, SavedNow
<1>4. /\ chain'[Len(chain) + 1].entry = entry /\ chain'[Len(chain) + 1].selection = s
      /\ chain'[Len(chain) + 1].latest /\ chain'[Len(chain) + 1].audio = forAudio
  BY <1>3
<1>5. TracksTypes' /\ PendingIsSelected'
  BY <1>1, <1>3 DEF TracksTypes, PendingIsSelected
<1>6. SavesOfReached'
  BY <1>1, <1>2, <1>3, <1>4 DEF SavesOfReached
<1>7. SelectionOnItsWay'
  BY <1>3, <1>4 DEF SelectionOnItsWay
<1>8. AudioOnItsWay'
  <2>1. CASE forAudio
    BY <1>3, <1>4, <2>1 DEF AudioOnItsWay
  <2>2. CASE ~forAudio
    <3>1. CASE told.audio
      BY <2>2, <3>1 DEF AudioOnItsWay
    <3>2. ASSUME NEW i \in 1 .. Len(chain),
                 chain[i].audio, chain[i].selection.audio = selected.audio,
                 \A j \in 1 .. Len(chain) :
                    j > i /\ chain[j].entry = entry => chain[j].selection.audio = selected.audio
          PROVE  AudioOnItsWay'
      <4>1. i \in 1 .. Len(chain') /\ chain'[i].audio /\ chain'[i].selection.audio = selected'.audio
        BY <1>3, <2>2, <3>2
      <4>2. ASSUME NEW j \in 1 .. Len(chain'), j > i, chain'[j].entry = entry'
            PROVE  chain'[j].selection.audio = selected'.audio
        <5>1. CASE j = Len(chain) + 1
          BY <1>4, <2>2, <5>1
        <5>2. CASE j \in 1 .. Len(chain)
          BY <1>3, <2>2, <3>2, <4>2, <5>2
        <5> QED
          BY <1>3, <5>1, <5>2
      <4> QED
        BY <4>1, <4>2 DEF AudioOnItsWay
    <3>3. CASE /\ heard = selected.audio /\ saved[entry].audio = selected.audio
               /\ \A i \in 1 .. Len(chain) :
                    chain[i].entry = entry => chain[i].selection.audio = selected.audio
      BY <1>3, <1>4, <2>2, <3>3 DEF AudioOnItsWay
    <3> QED
      BY <1>1, <3>1, <3>2, <3>3 DEF AudioOnItsWay
  <2> QED
    BY <2>1, <2>2
<1> QED
  BY <1>5, <1>6, <1>7, <1>8 DEF TracksInv

(* A change of the offset or of the look waits for the timer. *)
LEMMA QueuedChangeKeeps ==
  ASSUME TracksInv, NEW s \in Tracks!Selections, s.audio = selected.audio,
         Tracks!QueueSave(s), selected' = s, UNCHANGED <<entry, heard, saved>>,
         told' = [told EXCEPT !.save = FALSE], DrawnAs(drawn', s)
  PROVE  TracksInv'
<1>1. TracksTypes /\ SavesOfReached /\ AudioOnItsWay
  BY DEF TracksInv
<1>2. entry \in Nat
  BY <1>1, PagesAssumption DEF TracksTypes, Tracks!Entries
<1>3. chain \in Seq(Tracks!Saves) /\ chain' = Tracks!Unmarked(chain, "latest")
  BY <1>1 DEF TracksTypes, Tracks!QueueSave
<1>4. /\ chain' \in Seq(Tracks!Saves)
      /\ Len(chain') = Len(chain)
      /\ \A i \in 1 .. Len(chain) :
           /\ chain'[i].entry = chain[i].entry
           /\ chain'[i].selection = chain[i].selection
           /\ chain'[i].audio = chain[i].audio
  BY <1>3, UnmarkedSaves
<1>5. timer' /\ pending' = [entry |-> entry, selection |-> s]
  BY DEF Tracks!QueueSave, Tracks!SaveOf
<1>6. told' \in [save : BOOLEAN, audio : BOOLEAN] /\ told'.audio = told.audio
  BY <1>1 DEF TracksTypes
<1>7. TracksTypes'
  BY <1>1, <1>4, <1>6 DEF TracksTypes
<1>8. PendingIsSelected'
  BY <1>1, <1>2, <1>5 DEF TracksTypes, PendingIsSelected
<1>9. SavesOfReached'
  BY <1>1, <1>4 DEF SavesOfReached
<1>10. SelectionOnItsWay'
  BY <1>5 DEF SelectionOnItsWay
<1>11. AudioOnItsWay'
  BY <1>1, <1>4, <1>6 DEF AudioOnItsWay
<1> QED
  BY <1>7, <1>8, <1>9, <1>10, <1>11 DEF TracksInv

LEMMA SelectAudioKeeps ==
  ASSUME TracksInv, NEW a \in AudioStreams, Tracks!SelectAudio(a)
  PROVE  TracksInv'
<1> DEFINE s == [selected EXCEPT !.audio = a]
<1>1. s \in Tracks!Selections /\ s.subtitle = selected.subtitle /\ s.timing = selected.timing
  BY DEF TracksInv, TracksTypes, Tracks!Selections
<1>2. /\ selected' = s /\ Tracks!SaveNow(s, TRUE)
      /\ told' = [save |-> FALSE, audio |-> FALSE]
      /\ UNCHANGED <<entry, heard, saved>> /\ drawn' = drawn
  BY DEF Tracks!SelectAudio
<1> HIDE DEF s
<1>3. DrawnAs(drawn', s)
  BY <1>1, <1>2 DEF TracksInv, DrawnAs
<1>4. told' \in [save : BOOLEAN, audio : BOOLEAN]
  BY <1>2
<1> QED
  BY <1>1, <1>2, <1>3, <1>4, ChangeSavedNowKeeps

LEMMA SelectSubtitleKeeps ==
  ASSUME TracksInv, NEW t \in Tracks!Tracks \cup {None}, Tracks!SelectSubtitle(t)
  PROVE  TracksInv'
<1> DEFINE s == [selected EXCEPT !.subtitle = t]
<1>1. s \in Tracks!Selections /\ s.audio = selected.audio
  BY DEF TracksInv, TracksTypes, Tracks!Selections
<1>2. /\ selected' = s /\ Tracks!SaveNow(s, FALSE)
      /\ told' = [told EXCEPT !.save = FALSE]
      /\ UNCHANGED <<entry, heard, saved>> /\ drawn' = Tracks!Draw(s)
  BY DEF Tracks!SelectSubtitle
<1>3. told \in [save : BOOLEAN, audio : BOOLEAN]
  BY DEF TracksInv, TracksTypes
<1> HIDE DEF s
<1>4. told' \in [save : BOOLEAN, audio : BOOLEAN] /\ told'.audio = told.audio
  BY <1>2, <1>3
<1>5. DrawnAs(drawn', s)
  BY <1>1, <1>2, DrawnAnew
<1> QED
  BY <1>1, <1>2, <1>4, <1>5, ChangeSavedNowKeeps

(* The offset of what is drawn is changed where the browser can. *)
LEMMA TimingApplied ==
  ASSUME NEW s \in Tracks!Selections, NEW timing \in Tracks!Offsets, DrawnAs(drawn, s)
  PROVE  DrawnAs(Tracks!ApplyTiming(drawn, timing), [s EXCEPT !.timing = timing])
<1> DEFINE d == Tracks!ApplyTiming(drawn, timing)
           r == [s EXCEPT !.timing = timing]
<1> SUFFICES DrawnAs(d, r)
  OBVIOUS
<1>1. r.subtitle = s.subtitle /\ r.timing = timing
  BY DEF Tracks!Selections
<1>2. CASE s.subtitle = "webvtt"
  <2>1. PICK base \in Tracks!Offsets, l \in BOOLEAN, attached \in SUBSET CueEnds :
          drawn = [kind |-> "webvtt", base |-> base, loaded |-> l, attached |-> attached]
    BY <1>2 DEF DrawnAs
  <2>2. CASE l
    <3> DEFINE cues == {end \in Tracks!Served(base) : end + timing > 0}
    <3>1. cues \in SUBSET CueEnds
      BY DEF Tracks!Served
    <3>2. Tracks!TimedCues(drawn, timing) = cues
      BY <2>1 DEF Tracks!TimedCues
    <3>3. drawn.kind = "webvtt" /\ drawn.loaded
      BY <2>1, <2>2
    <3>4. d = [drawn EXCEPT !.attached = Tracks!TimedCues(drawn, timing)]
      BY <3>3 DEF Tracks!ApplyTiming
    <3> HIDE DEF cues
    <3>5. d = [kind |-> "webvtt", base |-> base, loaded |-> l, attached |-> cues]
      BY <2>1, <3>2, <3>4
    <3>6. cues = {end \in Tracks!Served(base) : end + r.timing > 0}
      BY <1>1 DEF cues
    <3> HIDE DEF d, r
    <3> QED
      BY <1>1, <1>2, <3>1, <3>5, <3>6 DEF DrawnAs
  <2>3. CASE ~l
    <3>1. d = drawn
      BY <2>1, <2>3 DEF Tracks!ApplyTiming
    <3> HIDE DEF d, r
    <3> QED
      BY <1>1, <1>2, <2>1, <2>3, <3>1 DEF DrawnAs
  <2> QED
    BY <2>2, <2>3
<1>3. CASE s.subtitle = "ass"
  <2>1. drawn = [kind |-> "ass", timing |-> s.timing]
    BY <1>3 DEF DrawnAs
  <2>2. d = [kind |-> "ass", timing |-> timing]
    BY <2>1 DEF Tracks!ApplyTiming
  <2> HIDE DEF d, r
  <2> QED
    BY <1>1, <1>3, <2>2 DEF DrawnAs
<1>4. CASE s.subtitle \notin {"webvtt", "ass"}
  <2>1. drawn = Tracks!Nothing
    BY <1>4 DEF DrawnAs
  <2>2. d = drawn
    BY <2>1 DEF Tracks!ApplyTiming, Tracks!Nothing
  <2> HIDE DEF d, r
  <2> QED
    BY <1>1, <1>4, <2>1, <2>2 DEF DrawnAs
<1> QED
  BY <1>2, <1>3, <1>4

LEMMA MoveSubtitlesKeeps ==
  ASSUME TracksInv, NEW step \in Int, Tracks!MoveSubtitles(step)
  PROVE  TracksInv'
<1> DEFINE timing == Tracks!Least(Tracks!Greatest(selected.timing + step, -MaxOffset), MaxOffset)
           s == [selected EXCEPT !.timing = timing]
<1>1. selected \in Tracks!Selections /\ selected.timing \in Tracks!Offsets
  BY DEF TracksInv, TracksTypes, Tracks!Selections
<1>2. timing \in Tracks!Offsets
  BY <1>1, PagesAssumption DEF Tracks!Offsets, Tracks!Least, Tracks!Greatest
<1>3. /\ selected' = s /\ drawn' = Tracks!ApplyTiming(drawn, timing)
      /\ Tracks!QueueSave(s) /\ told' = [told EXCEPT !.save = FALSE]
      /\ UNCHANGED <<entry, heard, saved>>
  BY DEF Tracks!MoveSubtitles
<1> HIDE DEF timing
<1>4. DrawnAs(drawn', s)
  BY <1>1, <1>2, <1>3, TimingApplied DEF TracksInv
<1>5. s \in Tracks!Selections /\ s.audio = selected.audio
  BY <1>1, <1>2 DEF Tracks!Selections
<1> HIDE DEF s
<1> QED
  BY <1>3, <1>4, <1>5, QueuedChangeKeeps

LEMMA ChangeLookKeeps ==
  ASSUME TracksInv, NEW look \in Looks, Tracks!ChangeLook(look)
  PROVE  TracksInv'
<1> DEFINE s == [selected EXCEPT !.look = look]
<1>1. /\ s \in Tracks!Selections /\ s.audio = selected.audio
      /\ s.subtitle = selected.subtitle /\ s.timing = selected.timing
  BY DEF TracksInv, TracksTypes, Tracks!Selections
<1>2. /\ selected' = s /\ drawn' = drawn
      /\ Tracks!QueueSave(s) /\ told' = [told EXCEPT !.save = FALSE]
      /\ UNCHANGED <<entry, heard, saved>>
  BY DEF Tracks!ChangeLook
<1> HIDE DEF s
<1>3. DrawnAs(drawn', s)
  BY <1>1, <1>2 DEF TracksInv, DrawnAs
<1> QED
  BY <1>1, <1>2, <1>3, QueuedChangeKeeps

(* The timer sends what waits, or gives up what was left behind. *)
LEMMA TimerFiresKeeps ==
  ASSUME TracksInv, Tracks!TimerFires
  PROVE  TracksInv'
<1>1. TracksTypes /\ PendingIsSelected /\ SavesOfReached /\ AudioOnItsWay /\ SelectionOnItsWay
  BY DEF TracksInv
<1>2. /\ timer /\ ~timer' /\ UNCHANGED <<entry, selected, drawn, heard, told, saved>>
      /\ chain' = Tracks!Flush(pending, chain, FALSE)
  BY DEF Tracks!TimerFires
<1>3. /\ pending \in [entry : Tracks!Entries, selection : Tracks!Selections]
      /\ pending.entry = entry => pending.selection = selected
  BY <1>1, <1>2 DEF PendingIsSelected
<1>4. CASE pending.entry # entry
  <2>1. chain' = chain
    BY <1>2, <1>4 DEF Tracks!Flush
  <2>2. TracksTypes' /\ PendingIsSelected' /\ SavesOfReached'
    BY <1>1, <1>2, <2>1 DEF TracksTypes, PendingIsSelected, SavesOfReached
  <2>3. SelectionOnItsWay' /\ AudioOnItsWay'
    BY <1>1, <1>2, <1>4, <2>1 DEF SelectionOnItsWay, AudioOnItsWay
  <2>4. DrawnAs(drawn', selected')
    BY <1>2 DEF TracksInv
  <2> QED
    BY <2>2, <2>3, <2>4 DEF TracksInv
<1>5. CASE pending.entry = entry
  <2> DEFINE new == [entry |-> entry, selection |-> selected, latest |-> TRUE, audio |-> FALSE]
  <2>1. chain' = Append(chain, new)
    <3>1. pending # None
      BY <1>3, PagesAssumption
    <3> QED
      BY <1>2, <1>3, <1>5, <3>1 DEF Tracks!Flush
  <2>2. new \in Tracks!Saves /\ chain \in Seq(Tracks!Saves) /\ Len(chain) \in Nat /\ entry \in Nat
    BY <1>1, PagesAssumption DEF TracksTypes, Tracks!Saves, Tracks!Entries
  <2>3. /\ new.entry = entry /\ new.selection = selected /\ new.latest /\ ~new.audio
    OBVIOUS
  <2> HIDE DEF new
  <2>4. /\ Len(chain) \in Nat /\ Len(chain') = Len(chain) + 1
        /\ chain'[Len(chain) + 1] = new
        /\ \A i \in 1 .. Len(chain) : chain'[i] = chain[i]
    BY <2>1, <2>2
  <2>10. entry' = entry /\ selected' = selected /\ saved' = saved /\ heard' = heard /\ told' = told
    BY <1>2
  <2>11. chain' \in Seq(Tracks!Saves)
    BY <2>1, <2>2
  <2>5. TracksTypes' /\ PendingIsSelected'
    BY <1>1, <1>2, <2>11 DEF TracksTypes, PendingIsSelected
  <2>12. entry \in Nat
    BY <2>2
  <2>6. SavesOfReached'
    BY <1>1, <2>10, <2>12, <2>3, <2>4 DEF SavesOfReached
  <2>7. SelectionOnItsWay'
    BY <2>10, <2>3, <2>4 DEF SelectionOnItsWay
  <2>8. AudioOnItsWay'
    <3>1. CASE told.audio
      BY <1>2, <3>1 DEF AudioOnItsWay
    <3>2. ASSUME NEW i \in 1 .. Len(chain),
                 chain[i].audio, chain[i].selection.audio = selected.audio,
                 \A j \in 1 .. Len(chain) :
                    j > i /\ chain[j].entry = entry => chain[j].selection.audio = selected.audio
          PROVE  AudioOnItsWay'
      <4>1. i \in 1 .. Len(chain') /\ chain'[i].audio /\ chain'[i].selection.audio = selected'.audio
        BY <2>10, <2>4, <3>2
      <4>2. ASSUME NEW j \in 1 .. Len(chain'), j > i, chain'[j].entry = entry'
            PROVE  chain'[j].selection.audio = selected'.audio
        BY <2>10, <2>3, <2>4, <3>2, <4>2
      <4> QED
        BY <4>1, <4>2 DEF AudioOnItsWay
    <3>3. CASE /\ heard = selected.audio /\ saved[entry].audio = selected.audio
               /\ \A i \in 1 .. Len(chain) :
                    chain[i].entry = entry => chain[i].selection.audio = selected.audio
      BY <2>10, <2>3, <2>4, <3>3 DEF AudioOnItsWay
    <3> QED
      BY <1>1, <3>1, <3>2, <3>3 DEF AudioOnItsWay
  <2>9. DrawnAs(drawn', selected')
    BY <1>2 DEF TracksInv
  <2> QED
    BY <2>5, <2>6, <2>7, <2>8, <2>9 DEF TracksInv
<1> QED
  BY <1>4, <1>5

LEMMA StreamRestartsKeeps ==
  ASSUME TracksInv, Tracks!StreamRestarts
  PROVE  TracksInv'
<1>1. /\ UNCHANGED <<entry, selected, pending, timer, chain, told, saved>>
      /\ heard' = saved[entry].audio /\ drawn' = Tracks!Draw(selected)
  BY DEF Tracks!StreamRestarts
<1>2. /\ TracksTypes' /\ PendingIsSelected' /\ SavesOfReached'
      /\ SelectionOnItsWay' /\ AudioOnItsWay'
  BY <1>1 DEF TracksInv, TracksTypes, PendingIsSelected, SavesOfReached,
              SelectionOnItsWay, AudioOnItsWay
<1>3. DrawnAs(drawn', selected')
  BY <1>1, DrawnAnew DEF TracksInv, TracksTypes
<1> QED
  BY <1>2, <1>3 DEF TracksInv

LEMMA TrackLoadsKeeps ==
  ASSUME TracksInv, Tracks!TrackLoads
  PROVE  TracksInv'
<1>1. /\ UNCHANGED <<entry, selected, pending, timer, chain, heard, told, saved>>
      /\ drawn.kind = "webvtt"
      /\ drawn' = [drawn EXCEPT !.loaded = TRUE,
                                !.attached = Tracks!TimedCues(drawn, selected.timing)]
  BY DEF Tracks!TrackLoads
<1>2. /\ TracksTypes' /\ PendingIsSelected' /\ SavesOfReached'
      /\ SelectionOnItsWay' /\ AudioOnItsWay'
  BY <1>1 DEF TracksInv, TracksTypes, PendingIsSelected, SavesOfReached,
              SelectionOnItsWay, AudioOnItsWay
<1>3. selected.subtitle = "webvtt"
  <2>1. CASE selected.subtitle = "ass"
    BY <1>1, <2>1 DEF TracksInv, DrawnAs
  <2>2. CASE selected.subtitle \notin {"webvtt", "ass"}
    BY <1>1, <2>2 DEF TracksInv, DrawnAs, Tracks!Nothing
  <2> QED
    BY <2>1, <2>2
<1>4. PICK base \in Tracks!Offsets, l \in BOOLEAN, attached \in SUBSET CueEnds :
        drawn = [kind |-> "webvtt", base |-> base, loaded |-> l, attached |-> attached]
  BY <1>3 DEF TracksInv, DrawnAs
<1> DEFINE cues == {end \in Tracks!Served(base) : end + selected.timing > 0}
<1>5. cues \in SUBSET CueEnds
  BY DEF Tracks!Served
<1>6. Tracks!TimedCues(drawn, selected.timing) = cues
  BY <1>4 DEF Tracks!TimedCues
<1> HIDE DEF cues
<1>7. drawn' = [kind |-> "webvtt", base |-> base, loaded |-> TRUE, attached |-> cues]
  BY <1>1, <1>4, <1>6
<1>8. DrawnAs(drawn', selected')
  <2> DEFINE d == drawn'
  <2>1. \E b \in Tracks!Offsets, t \in BOOLEAN, a \in SUBSET CueEnds :
          /\ d = [kind |-> "webvtt", base |-> b, loaded |-> t, attached |-> a]
          /\ t => a = {end \in Tracks!Served(b) : end + selected.timing > 0}
    <3> cues \in SUBSET CueEnds
      BY <1>5
    <3> WITNESS base \in Tracks!Offsets, TRUE \in BOOLEAN, cues \in SUBSET CueEnds
    <3> QED
      BY <1>7 DEF cues
  <2> HIDE DEF d
  <2>2. DrawnAs(d, selected)
    BY <1>3, <2>1 DEF DrawnAs
  <2> QED
    BY <1>1, <2>2 DEF d
<1> QED
  BY <1>2, <1>8 DEF TracksInv

(* What is on its way when the next entry starts is of the entries before. *)
LEMMA NextEntryKeeps ==
  ASSUME TracksInv, Tracks!NextEntry
  PROVE  TracksInv'
<1>1. TracksTypes /\ PendingIsSelected /\ SavesOfReached /\ entry \in Nat /\ LastEntry \in Nat
  BY PagesAssumption DEF TracksInv, TracksTypes, Tracks!Entries
<1>2. /\ entry < LastEntry /\ Tracks!ValidSelection(saved[entry + 1])
      /\ entry' = entry + 1 /\ selected' = saved[entry + 1]
      /\ heard' = selected'.audio /\ drawn' = Tracks!Draw(selected')
      /\ chain' = Tracks!Unmarked(Tracks!Unmarked(chain, "latest"), "audio")
      /\ told' = [save |-> FALSE, audio |-> FALSE]
      /\ UNCHANGED <<pending, timer, saved>>
  BY DEF Tracks!NextEntry
<1>3. selected' \in Tracks!Selections /\ saved' \in [Tracks!Entries -> Tracks!Stored]
      /\ entry' \in Tracks!Entries
  <2>1. entry + 1 \in Tracks!Entries
    BY <1>1, <1>2 DEF Tracks!Entries
  <2>2. saved[entry + 1] \in Tracks!Stored
    BY <1>1, <2>1 DEF TracksTypes
  <2> QED
    BY <1>1, <1>2, <2>1, <2>2
       DEF TracksTypes, Tracks!Stored, Tracks!Selections, Tracks!ValidSelection
<1>4. /\ chain' \in Seq(Tracks!Saves) /\ Len(chain') = Len(chain) /\ Len(chain) \in Nat
      /\ \A i \in 1 .. Len(chain) : chain'[i].entry = chain[i].entry /\ chain'[i].audio = FALSE
  <2> DEFINE once == Tracks!Unmarked(chain, "latest")
  <2>1. chain \in Seq(Tracks!Saves) /\ Len(chain) \in Nat
    BY <1>1 DEF TracksTypes
  <2>2. /\ once \in Seq(Tracks!Saves) /\ Len(once) = Len(chain)
        /\ \A i \in 1 .. Len(chain) : once[i].entry = chain[i].entry
    BY <2>1, UnmarkedSaves
  <2>3. chain' = Tracks!Unmarked(once, "audio")
    BY <1>2
  <2> HIDE DEF once
  <2>4. /\ chain' \in Seq(Tracks!Saves) /\ Len(chain') = Len(once)
        /\ \A i \in 1 .. Len(once) : chain'[i].entry = once[i].entry /\ chain'[i].audio = FALSE
    BY <2>2, <2>3, UnmarkedSaves
  <2> QED
    BY <2>1, <2>2, <2>4
<1>5. told' \in [save : BOOLEAN, audio : BOOLEAN]
  BY <1>2
<1>6. TracksTypes'
  BY <1>3, <1>4, <1>5 DEF TracksTypes
<1>7. \A i \in 1 .. Len(chain') : chain'[i].entry < entry' /\ chain'[i].audio = FALSE
  <2> TAKE i \in 1 .. Len(chain')
  <2>1. chain[i] \in Tracks!Saves /\ chain[i].entry <= entry
    BY <1>1, <1>4 DEF TracksTypes, SavesOfReached
  <2>2. chain[i].entry \in Int
    BY <2>1, <1>1 DEF Tracks!Saves, Tracks!Entries
  <2> QED
    BY <1>1, <1>2, <1>4, <2>1, <2>2
<1>8. \A i \in 1 .. Len(chain') : chain'[i].entry \in Int
  <2> TAKE i \in 1 .. Len(chain')
  <2>1. chain'[i] \in Tracks!Saves
    BY <1>4
  <2> QED
    BY <1>1, <2>1 DEF Tracks!Saves, Tracks!Entries
<1>9. PendingIsSelected'
  <2>1. timer => pending.entry \in Int /\ pending.entry <= entry
    BY <1>1 DEF PendingIsSelected, Tracks!Entries
  <2> QED
    BY <1>1, <1>2, <2>1 DEF PendingIsSelected
<1>10. SavesOfReached' /\ SelectionOnItsWay' /\ AudioOnItsWay'
  <2>1. saved'[entry'] = selected' /\ heard' = selected'.audio /\ saved'[entry'].audio = selected'.audio
    BY <1>2
  <2>2. \A i \in 1 .. Len(chain') : chain'[i].entry # entry' /\ chain'[i].entry <= entry'
    BY <1>1, <1>2, <1>7, <1>8
  <2> QED
    BY <1>7, <2>1, <2>2 DEF SavesOfReached, SelectionOnItsWay, AudioOnItsWay
<1>11. DrawnAs(drawn', selected')
  BY <1>2, <1>3, DrawnAnew
<1> QED
  BY <1>6, <1>9, <1>10, <1>11 DEF TracksInv

(* The oldest save is answered: stored, or its failure told if it matters. *)
LEMMA SaveAnsweredKeeps ==
  ASSUME TracksInv, NEW stored \in BOOLEAN, NEW ok \in BOOLEAN, NEW delivered \in BOOLEAN,
         Tracks!SaveAnswered(stored, ok, delivered)
  PROVE  TracksInv'
<1> DEFINE first == Head(chain)
<1>1. TracksTypes /\ PendingIsSelected /\ SavesOfReached /\ SelectionOnItsWay /\ AudioOnItsWay
  BY DEF TracksInv
<1>2. /\ chain # <<>> /\ (ok => stored) /\ chain' = Tail(chain)
      /\ saved' = IF stored THEN [saved EXCEPT ![first.entry] = first.selection] ELSE saved
      /\ told' = [save |-> told.save \/ (~ok /\ first.entry = entry /\ first.latest),
                  audio |-> told.audio \/ (first.audio /\ ~(ok /\ delivered))]
      /\ IF ok /\ first.audio THEN Tracks!Deliver(delivered) ELSE UNCHANGED <<heard, drawn>>
  BY DEF Tracks!SaveAnswered
<1>3. entry' = entry /\ selected' = selected /\ pending' = pending /\ timer' = timer
  BY DEF Tracks!SaveAnswered
<1>4. /\ first \in Tracks!Saves /\ first = chain[1] /\ 1 \in 1 .. Len(chain)
      /\ Len(chain) \in Nat /\ Len(chain') = Len(chain) - 1
      /\ \A i \in 1 .. Len(chain') : chain'[i] = chain[i + 1]
  <2>1. chain \in Seq(Tracks!Saves)
    BY <1>1 DEF TracksTypes
  <2> QED
    BY <1>2, <2>1
<1>5. chain' \in Seq(Tracks!Saves)
  BY <1>1, <1>2 DEF TracksTypes
<1>6. first.entry \in Tracks!Entries /\ first.selection \in Tracks!Selections
  BY <1>4 DEF Tracks!Saves
<1> HIDE DEF first
<1>7. saved' \in [Tracks!Entries -> Tracks!Stored]
  <2>1. first.selection \in Tracks!Stored
    BY <1>6 DEF Tracks!Selections, Tracks!Stored
  <2>2. CASE stored
    BY <1>1, <1>2, <1>6, <2>1, <2>2 DEF TracksTypes
  <2>3. CASE ~stored
    BY <1>1, <1>2, <2>3 DEF TracksTypes
  <2> QED
    BY <2>2, <2>3
<1>8. saved'[entry] = IF stored /\ first.entry = entry THEN first.selection ELSE saved[entry]
  <2>1. entry \in Tracks!Entries /\ saved \in [Tracks!Entries -> Tracks!Stored]
    BY <1>1 DEF TracksTypes
  <2>2. CASE stored
    BY <1>2, <1>6, <2>1, <2>2
  <2>3. CASE ~stored
    BY <1>2, <2>3
  <2> QED
    BY <2>2, <2>3
<1>9. /\ told'.save = (told.save \/ (~ok /\ first.entry = entry /\ first.latest))
      /\ told'.audio = (told.audio \/ (first.audio /\ ~(ok /\ delivered)))
      /\ told' \in [save : BOOLEAN, audio : BOOLEAN]
  <2>1. told.save \in BOOLEAN /\ told.audio \in BOOLEAN
    BY <1>1 DEF TracksTypes
  <2>2. first.latest \in BOOLEAN /\ first.audio \in BOOLEAN
    BY <1>4 DEF Tracks!Saves
  <2> DEFINE s == told.save \/ (~ok /\ first.entry = entry /\ first.latest)
             a == told.audio \/ (first.audio /\ ~(ok /\ delivered))
  <2>3. s \in BOOLEAN /\ a \in BOOLEAN
    OBVIOUS
  <2>4. told' = [save |-> s, audio |-> a]
    BY <1>2
  <2> HIDE DEF s, a
  <2>5. told'.save = s /\ told'.audio = a /\ told' \in [save : BOOLEAN, audio : BOOLEAN]
    BY <2>3, <2>4
  <2> QED
    BY <2>5 DEF s, a
<1>10. TracksTypes' /\ PendingIsSelected'
  BY <1>1, <1>3, <1>5, <1>7, <1>9 DEF TracksTypes, PendingIsSelected
<1>11. SavesOfReached'
  BY <1>1, <1>3, <1>4 DEF SavesOfReached
<1>12. SelectionOnItsWay'
  <2>1. CASE told.save
    BY <1>9, <2>1 DEF SelectionOnItsWay
  <2>2. CASE timer /\ pending.entry = entry
    BY <1>3, <2>2 DEF SelectionOnItsWay
  <2>3. ASSUME NEW i \in 1 .. Len(chain),
               chain[i].entry = entry, chain[i].selection = selected, chain[i].latest,
               \A j \in 1 .. Len(chain) : j > i => chain[j].entry # entry
        PROVE  SelectionOnItsWay'
    <3>1. CASE i = 1
      <4>1. \A j \in 1 .. Len(chain') : chain'[j].entry # entry'
        BY <1>3, <1>4, <2>3, <3>1
      <4>2. CASE ok
        <5>1. saved'[entry'] = selected'
          BY <1>2, <1>3, <1>4, <1>8, <2>3, <3>1, <4>2
        <5> QED
          BY <4>1, <5>1 DEF SelectionOnItsWay
      <4>3. CASE ~ok
        BY <1>4, <1>9, <2>3, <3>1, <4>3 DEF SelectionOnItsWay
      <4> QED
        BY <4>2, <4>3
    <3>2. CASE i > 1
      <4>1. i - 1 \in 1 .. Len(chain') /\ chain'[i - 1] = chain[i]
        BY <1>4, <3>2
      <4>2. \A j \in 1 .. Len(chain') : j > i - 1 => chain'[j].entry # entry'
        BY <1>3, <1>4, <2>3, <3>2
      <4> QED
        BY <1>3, <2>3, <4>1, <4>2 DEF SelectionOnItsWay
    <3> QED
      BY <1>4, <3>1, <3>2
  <2>4. CASE saved[entry] = selected /\ \A i \in 1 .. Len(chain) : chain[i].entry # entry
    <3>1. saved'[entry'] = selected'
      BY <1>3, <1>4, <1>8, <2>4
    <3>2. \A i \in 1 .. Len(chain') : chain'[i].entry # entry'
      BY <1>3, <1>4, <2>4
    <3> QED
      BY <3>1, <3>2 DEF SelectionOnItsWay
  <2> QED
    BY <1>1, <2>1, <2>2, <2>3, <2>4 DEF SelectionOnItsWay
<1>13. heard' = heard \/ (ok /\ delivered /\ heard' = saved'[entry].audio)
  BY <1>2, <1>3 DEF Tracks!Deliver
<1>14. AudioOnItsWay'
  <2>1. CASE told.audio
    BY <1>9, <2>1 DEF AudioOnItsWay
  <2>2. ASSUME NEW i \in 1 .. Len(chain),
               chain[i].audio, chain[i].selection.audio = selected.audio,
               \A j \in 1 .. Len(chain) :
                  j > i /\ chain[j].entry = entry => chain[j].selection.audio = selected.audio
        PROVE  AudioOnItsWay'
    <3>1. CASE i = 1
      <4>1. \A j \in 1 .. Len(chain') :
              chain'[j].entry = entry' => chain'[j].selection.audio = selected'.audio
        BY <1>3, <1>4, <2>2, <3>1
      <4>2. CASE ok /\ delivered
        <5>1. first.entry = entry /\ first.audio
          BY <1>1, <1>4, <2>2, <3>1 DEF SavesOfReached
        <5>2. saved'[entry'].audio = selected'.audio
          BY <1>2, <1>3, <1>4, <1>8, <2>2, <3>1, <4>2, <5>1
        <5>3. heard' = saved'[entry'].audio
          BY <1>2, <1>3, <4>2, <5>1 DEF Tracks!Deliver
        <5> QED
          BY <4>1, <5>2, <5>3 DEF AudioOnItsWay
      <4>3. CASE ~(ok /\ delivered)
        BY <1>4, <1>9, <2>2, <3>1, <4>3 DEF AudioOnItsWay
      <4> QED
        BY <4>2, <4>3
    <3>2. CASE i > 1
      <4>1. i - 1 \in 1 .. Len(chain') /\ chain'[i - 1] = chain[i]
        BY <1>4, <3>2
      <4>2. \A j \in 1 .. Len(chain') :
              j > i - 1 /\ chain'[j].entry = entry' => chain'[j].selection.audio = selected'.audio
        BY <1>3, <1>4, <2>2, <3>2
      <4> QED
        BY <1>3, <2>2, <4>1, <4>2 DEF AudioOnItsWay
    <3> QED
      BY <1>4, <3>1, <3>2
  <2>3. CASE /\ heard = selected.audio /\ saved[entry].audio = selected.audio
             /\ \A i \in 1 .. Len(chain) :
                  chain[i].entry = entry => chain[i].selection.audio = selected.audio
    <3>1. saved'[entry'].audio = selected'.audio
      BY <1>3, <1>4, <1>8, <2>3
    <3>2. heard' = selected'.audio
      BY <1>3, <1>13, <2>3, <3>1
    <3>3. \A j \in 1 .. Len(chain') :
            chain'[j].entry = entry' => chain'[j].selection.audio = selected'.audio
      BY <1>3, <1>4, <2>3
    <3> QED
      BY <3>1, <3>2, <3>3 DEF AudioOnItsWay
  <2> QED
    BY <1>1, <2>1, <2>2, <2>3 DEF AudioOnItsWay
<1>15. DrawnAs(drawn', selected')
  <2>1. drawn' = drawn \/ drawn' = Tracks!Draw(selected)
    BY <1>2 DEF Tracks!Deliver
  <2>2. DrawnAs(drawn, selected) /\ selected \in Tracks!Selections
    BY DEF TracksInv, TracksTypes
  <2> QED
    BY <1>3, <2>1, <2>2, DrawnAnew
<1> QED
  BY <1>10, <1>11, <1>12, <1>14, <1>15 DEF TracksInv

LEMMA TracksStart == Tracks!Init => TracksInv
<1> SUFFICES ASSUME Tracks!Init PROVE TracksInv
  OBVIOUS
<1>1. /\ entry = 0 /\ saved \in [Tracks!Entries -> Tracks!Stored]
      /\ selected \in Tracks!Selections /\ selected = saved[entry]
      /\ drawn = Tracks!Draw(selected) /\ heard = selected.audio
      /\ ~timer /\ chain = <<>> /\ told = [save |-> FALSE, audio |-> FALSE]
  BY DEF Tracks!Init
<1>2. told \in [save : BOOLEAN, audio : BOOLEAN] /\ chain \in Seq(Tracks!Saves) /\ Len(chain) = 0
  BY <1>1
<1>3. TracksTypes
  BY <1>1, <1>2, PagesAssumption DEF TracksTypes, Tracks!Entries
<1>4. PendingIsSelected /\ SavesOfReached /\ SelectionOnItsWay /\ AudioOnItsWay
  BY <1>1, <1>2 DEF PendingIsSelected, SavesOfReached, SelectionOnItsWay, AudioOnItsWay
<1>5. DrawnAs(drawn, selected)
  BY <1>1, DrawnAnew
<1> QED
  BY <1>3, <1>4, <1>5 DEF TracksInv

LEMMA TracksStep ==
  ASSUME TracksInv, [Tracks!Next]_tracks
  PROVE  TracksInv'
<1>1. CASE UNCHANGED tracks
  BY <1>1 DEF tracks, TracksInv, TracksTypes, PendingIsSelected, SavesOfReached,
              SelectionOnItsWay, AudioOnItsWay, DrawnAs
<1>2. ASSUME NEW step \in {-1, 1, -selected.timing}, Tracks!MoveSubtitles(step)
      PROVE  TracksInv'
  <2>1. step \in Int
    BY PagesAssumption DEF TracksInv, TracksTypes, Tracks!Selections, Tracks!Offsets
  <2> QED
    BY <1>2, <2>1, MoveSubtitlesKeeps
<1> QED
  BY <1>1, <1>2, SelectAudioKeeps, SelectSubtitleKeeps, ChangeLookKeeps, TimerFiresKeeps,
     SaveAnsweredKeeps, StreamRestartsKeeps, TrackLoadsKeeps, NextEntryKeeps
     DEF Tracks!Next, Tracks!SaveSettles

(* What the invariant says once nothing is on its way. *)
LEMMA TracksInvSuffices ==
  TracksInv => /\ Tracks!SelectionSavedOrTold
               /\ Tracks!AudioFollowsSelection
               /\ Tracks!SubtitlesFollowSelection
<1> SUFFICES ASSUME TracksInv
             PROVE  /\ Tracks!SelectionSavedOrTold
                    /\ Tracks!AudioFollowsSelection
                    /\ Tracks!SubtitlesFollowSelection
  OBVIOUS
<1>1. Tracks!SelectionSavedOrTold /\ Tracks!AudioFollowsSelection
  BY DEF TracksInv, SelectionOnItsWay, AudioOnItsWay, Tracks!Settled,
         Tracks!SelectionSavedOrTold, Tracks!AudioFollowsSelection
<1>2. Tracks!SubtitlesFollowSelection
  <2>1. CASE selected.subtitle = "webvtt"
    <3>1. PICK base \in Tracks!Offsets, l \in BOOLEAN, attached \in SUBSET CueEnds :
            /\ drawn = [kind |-> "webvtt", base |-> base, loaded |-> l, attached |-> attached]
            /\ l => attached = {end \in Tracks!Served(base) : end + selected.timing > 0}
      BY <2>1 DEF TracksInv, DrawnAs
    <3>2. drawn.kind = "webvtt" /\ drawn.loaded = l /\ drawn.base = base /\ drawn.attached = attached
      BY <3>1
    <3> QED
      BY <2>1, <3>1, <3>2 DEF Tracks!SubtitlesFollowSelection
  <2>2. CASE selected.subtitle # "webvtt"
    BY <2>2 DEF TracksInv, DrawnAs, Tracks!SubtitlesFollowSelection
  <2> QED
    BY <2>1, <2>2
<1> QED
  BY <1>1, <1>2

LEMMA TracksAlways == Tracks!Spec => []TracksInv
<1>1. TracksInv /\ [Tracks!Next]_(Tracks!vars) => TracksInv'
  BY TracksStep DEF Tracks!vars, tracks
<1> QED
  BY TracksStart, <1>1, PTL DEF Tracks!Spec

LEMMA TracksAlwaysHere == PagesSpec => [](part = "tracks" => TracksInv)
<1> DEFINE Inv == part = "tracks" => TracksInv
<1>1. PagesInit => Inv
  BY TracksStart DEF PagesInit
<1>2. Inv /\ [PagesNext]_pagesVars => Inv'
  <2> SUFFICES ASSUME Inv, [PagesNext]_pagesVars, part' = "tracks"
               PROVE  TracksInv'
    OBVIOUS
  <2>1. part = "tracks" /\ [Tracks!Next]_tracks
    BY DEF PagesNext, pagesVars
  <2> QED
    BY <2>1, TracksStep
<1> QED
  BY <1>1, <1>2, PTL DEF PagesSpec

(* Once no save is on its way the server holds what the viewer selected for *)
(* the entry, or the viewer was told that the last change was not saved:    *)
(* coalesced, sent one after the other and failing in any way, while the    *)
(* viewer moves on through the entries of the session.                      *)
THEOREM SelectionAlwaysSavedOrTold ==
  /\ Tracks!Spec => []Tracks!SelectionSavedOrTold
  /\ PagesSpec => []SelectionSavedOrTold
<1>1. (part = "tracks" => TracksInv) => SelectionSavedOrTold
  BY TracksInvSuffices DEF SelectionSavedOrTold
<1> QED
  BY TracksAlways, TracksAlwaysHere, TracksInvSuffices, <1>1, PTL

(* Once no save is on its way the viewer hears the stream selected last, or *)
(* was told that the change failed, whatever was stored or restarted        *)
(* between: a later save of the same entry never brings an older stream     *)
(* back.                                                                    *)
THEOREM AudioAlwaysFollowsSelection ==
  /\ Tracks!Spec => []Tracks!AudioFollowsSelection
  /\ PagesSpec => []AudioFollowsSelection
<1>1. (part = "tracks" => TracksInv) => AudioFollowsSelection
  BY TracksInvSuffices DEF AudioFollowsSelection
<1> QED
  BY TracksAlways, TracksAlwaysHere, TracksInvSuffices, <1>1, PTL

(* What is drawn is the selected track, and its cues are those that the     *)
(* selected offset leaves, whichever of loading and moving came first.      *)
THEOREM SubtitlesAlwaysFollowSelection ==
  /\ Tracks!Spec => []Tracks!SubtitlesFollowSelection
  /\ PagesSpec => []SubtitlesFollowSelection
<1>1. (part = "tracks" => TracksInv) => SubtitlesFollowSelection
  BY TracksInvSuffices DEF SubtitlesFollowSelection
<1> QED
  BY TracksAlways, TracksAlwaysHere, TracksInvSuffices, <1>1, PTL

-----------------------------------------------------------------------------
(* CollectionEditing. *)

IsSequence(s) == \E S : s \in Seq(S)

\* The artwork is that of the revision, and what is known is not older.
HasArtwork(row, h) ==
  row.revision \in 1 .. Len(h) /\ row.artwork = h[row.revision].artwork

NotOlder(held, revision, h) ==
  \A i \in DOMAIN held : \E r \in revision .. Len(h) : held[i] = (i \in h[r].members)

Holds(state, h) == HasArtwork(state, h) /\ NotOlder(state.known, state.revision, h)

\* After an error nothing is known.
ContextHolds(c, h) ==
  IF c.error THEN DOMAIN c.known = {} ELSE Holds(c, h)

LoadFields == {"batch", "held", "stale", "changed", "row", "reply"}

CollectionInv ==
  /\ IsSequence(history) /\ Len(history) \in Nat \ {0}
  /\ context # None => ContextHolds(context, history)
  /\ controlsLoad # None => /\ DOMAIN controlsLoad = LoadFields
                            /\ controlsLoad.row # None => HasArtwork(controlsLoad.row, history)
                            /\ controlsLoad.reply # None => Holds(controlsLoad.reply, history)

(* A revision, once made, stays as it is. *)
LEMMA AppendKeeps ==
  ASSUME NEW s, NEW x, IsSequence(s)
  PROVE  /\ IsSequence(Append(s, x))
         /\ Len(s) \in Nat /\ Len(Append(s, x)) = Len(s) + 1
         /\ \A i \in 1 .. Len(s) : Append(s, x)[i] = s[i]
         /\ Append(s, x)[Len(s) + 1] = x
<1>1. PICK S : s \in Seq(S)
  BY DEF IsSequence
<1>2. s \in Seq(S \cup {x})
  BY <1>1, SeqDef
<1>3. Append(s, x) \in Seq(S \cup {x})
  BY <1>2
<1> QED
  BY <1>2, <1>3 DEF IsSequence

(* Whoever edits the collection, what was known of a revision stays true. *)
LEMMA KnowledgeKept ==
  ASSUME CollectionInv, NEW x, history' \in {history, Append(history, x)}
  PROVE  /\ IsSequence(history') /\ Len(history') \in Nat \ {0}
         /\ \A row : HasArtwork(row, history) => HasArtwork(row, history')
         /\ \A state : Holds(state, history) => Holds(state, history')
         /\ \A c : ContextHolds(c, history) => ContextHolds(c, history')
<1>1. /\ IsSequence(history') /\ Len(history') \in Nat \ {0} /\ Len(history) \in Nat
      /\ Len(history') >= Len(history)
      /\ \A i \in 1 .. Len(history) : history'[i] = history[i]
  <2>1. /\ IsSequence(Append(history, x)) /\ Len(history) \in Nat
        /\ Len(Append(history, x)) = Len(history) + 1
        /\ \A i \in 1 .. Len(history) : Append(history, x)[i] = history[i]
    BY AppendKeeps DEF CollectionInv
  <2>2. CASE history' = history
    BY <2>1, <2>2 DEF CollectionInv
  <2>3. CASE history' = Append(history, x)
    BY <2>1, <2>3
  <2> QED
    BY <2>2, <2>3
<1>2. \A row : HasArtwork(row, history) => HasArtwork(row, history')
  BY <1>1 DEF HasArtwork
<1>3. ASSUME NEW state, Holds(state, history)
      PROVE  Holds(state, history')
  <2>1. HasArtwork(state, history') /\ state.revision \in 1 .. Len(history)
    BY <1>2, <1>3 DEF Holds, HasArtwork
  <2>2. ASSUME NEW i \in DOMAIN state.known
        PROVE  \E r \in state.revision .. Len(history') : state.known[i] = (i \in history'[r].members)
    <3>1. PICK r \in state.revision .. Len(history) : state.known[i] = (i \in history[r].members)
      BY <1>3 DEF Holds, NotOlder
    <3>2. r \in 1 .. Len(history) /\ r \in state.revision .. Len(history')
      BY <1>1, <2>1
    <3>3. history'[r] = history[r]
      BY <1>1, <3>2
    <3> QED
      BY <3>1, <3>2, <3>3
  <2> QED
    BY <2>1, <2>2 DEF Holds, NotOlder
<1> QED
  BY <1>1, <1>2, <1>3 DEF ContextHolds

(* An answer applied to what is known leaves nothing older than its revision. *)
LEMMA AppliedHolds ==
  ASSUME NEW c, NEW state, NEW h, c # None => ContextHolds(c, h), Holds(state, h)
  PROVE  ContextHolds(Collection!Applied(c, state), h)
<1>1. CASE c # None /\ c.revision > state.revision
  BY <1>1 DEF Collection!Applied
<1>2. CASE ~(c # None /\ c.revision > state.revision) /\ ~(c # None /\ c.revision = state.revision)
  BY <1>2 DEF Collection!Applied, ContextHolds, Holds, HasArtwork
<1>3. CASE c # None /\ c.revision = state.revision /\ ~(c.revision > state.revision)
  <2> DEFINE merged == Collection!Merged(c.known, state.known)
  <2>1. Collection!Applied(c, state) = [revision |-> state.revision, artwork |-> state.artwork, error |-> FALSE,
                             known |-> merged]
    BY <1>3 DEF Collection!Applied
  <2>2. /\ DOMAIN merged = DOMAIN c.known \cup DOMAIN state.known
        /\ \A i \in DOMAIN merged : merged[i] = IF i \in DOMAIN state.known THEN state.known[i] ELSE c.known[i]
    BY DEF Collection!Merged
  <2> HIDE DEF merged
  <2>3. NotOlder(c.known, state.revision, h) /\ NotOlder(state.known, state.revision, h)
    BY <1>3 DEF ContextHolds, Holds, NotOlder
  <2>4. NotOlder(merged, state.revision, h)
    <3> SUFFICES ASSUME NEW i \in DOMAIN merged
                 PROVE  \E r \in state.revision .. Len(h) : merged[i] = (i \in h[r].members)
      BY DEF NotOlder
    <3>1. CASE i \in DOMAIN state.known
      BY <2>2, <2>3, <3>1 DEF NotOlder
    <3>2. CASE i \notin DOMAIN state.known
      BY <2>2, <2>3, <3>2 DEF NotOlder
    <3> QED
      BY <3>1, <3>2
  <2> QED
    BY <2>1, <2>4 DEF ContextHolds, Holds, HasArtwork
<1> QED
  BY <1>1, <1>2, <1>3

(* The mode's lookups: what is applied is an answer, or nothing. *)
LEMMA LookupStep ==
  ASSUME CollectionInv,
         \/ Collection!LoadControls \/ Collection!LookupReadsRow \/ Collection!LookupServed
         \/ Collection!LookupSettles \/ Collection!Refresh \/ Collection!ProfileChanges
  PROVE  CollectionInv'
<1>1. history' = history
  BY DEF Collection!LoadControls, Collection!LookupReadsRow, Collection!LookupServed, Collection!LookupSettles,
         Collection!LookupAnswered, Collection!Refresh, Collection!ProfileChanges
<1>2. ASSUME NEW b
      PROVE  /\ DOMAIN Collection!Lookup(b) = LoadFields
             /\ Collection!Lookup(b).row = None /\ Collection!Lookup(b).reply = None
  BY DEF Collection!Lookup, LoadFields
<1>3. CASE Collection!LoadControls
  <2>1. context' = context /\ (controlsLoad' = controlsLoad \/ \E b : controlsLoad' = Collection!Lookup(b))
    BY <1>3 DEF Collection!LoadControls
  <2> QED
    BY <1>1, <1>2, <2>1 DEF CollectionInv
<1>0. CASE Collection!LookupReadsRow
  <2> DEFINE row == [revision |-> Collection!revision, artwork |-> Collection!current.artwork]
  <2>1. controlsLoad # None /\ controlsLoad' = [controlsLoad EXCEPT !.row = row] /\ context' = context
    BY <1>0 DEF Collection!LookupReadsRow
  <2>2. HasArtwork(row, history)
    BY DEF CollectionInv, HasArtwork, Collection!current, Collection!revision
  <2> HIDE DEF row
  <2>3. DOMAIN controlsLoad' = LoadFields /\ controlsLoad'.row = row /\ controlsLoad'.reply = controlsLoad.reply
    BY <2>1 DEF CollectionInv, LoadFields
  <2> QED
    BY <1>1, <2>1, <2>2, <2>3 DEF CollectionInv
<1>4. CASE Collection!LookupServed
  <2> DEFINE row == controlsLoad.row
             found == [i \in controlsLoad.batch |-> i \in Collection!current.members]
             reply == [revision |-> row.revision, artwork |-> row.artwork, known |-> found]
  <2>1. /\ controlsLoad # None /\ controlsLoad.row # None
        /\ controlsLoad' = [controlsLoad EXCEPT !.reply = reply] /\ context' = context
    BY <1>4 DEF Collection!LookupServed
  <2>2. Holds(reply, history)
    <3>1. reply.revision = row.revision /\ reply.artwork = row.artwork /\ reply.known = found
      OBVIOUS
    <3>2. HasArtwork(row, history)
      BY <2>1 DEF CollectionInv
    <3>3. Len(history) \in row.revision .. Len(history)
      BY <3>2 DEF CollectionInv, HasArtwork
    <3>4. \A i \in DOMAIN found : found[i] = (i \in history[Len(history)].members)
      BY DEF Collection!current, Collection!revision
    <3> HIDE DEF found, row, reply
    <3>5. NotOlder(found, row.revision, history)
      BY <3>3, <3>4 DEF NotOlder
    <3> QED
      BY <3>1, <3>2, <3>5 DEF Holds, HasArtwork
  <2> HIDE DEF reply
  <2>3. DOMAIN controlsLoad' = LoadFields /\ controlsLoad'.reply = reply /\ controlsLoad'.row = controlsLoad.row
    BY <2>1 DEF CollectionInv, LoadFields
  <2> QED
    BY <1>1, <2>1, <2>2, <2>3 DEF CollectionInv
<1>5. ASSUME NEW delivered \in BOOLEAN, Collection!LookupAnswered(delivered)
      PROVE  CollectionInv'
  <2>1. CASE controlsLoad.stale
    BY <1>1, <1>5, <2>1 DEF Collection!LookupAnswered, CollectionInv
  <2>2. CASE ~controlsLoad.stale /\ delivered
    <3>1. /\ controlsLoad # None /\ controlsLoad.reply # None /\ context' = Collection!Applied(context, controlsLoad.reply)
          /\ \/ controlsLoad' = None
             \/ \E b : controlsLoad' =
                  [controlsLoad EXCEPT !.batch = b, !.changed = TRUE, !.row = None, !.reply = None]
      BY <1>5, <2>2 DEF Collection!LookupAnswered
    <3>2. controlsLoad' # None => /\ DOMAIN controlsLoad' = LoadFields
                                  /\ controlsLoad'.row = None /\ controlsLoad'.reply = None
      BY <3>1 DEF CollectionInv, LoadFields
    <3>3. ContextHolds(context', history)
      BY <3>1, AppliedHolds DEF CollectionInv
    <3> QED
      BY <1>1, <3>2, <3>3 DEF CollectionInv
  <2>3. CASE ~controlsLoad.stale /\ ~delivered
    <3>1. controlsLoad' = None /\ context' = Collection!Unknown(controlsLoad.held)
      BY <1>5, <2>3 DEF Collection!LookupAnswered
    <3>2. Collection!Unknown(controlsLoad.held).error = TRUE /\ DOMAIN Collection!Unknown(controlsLoad.held).known = {}
      BY DEF Collection!Unknown
    <3> QED
      BY <1>1, <3>1, <3>2 DEF CollectionInv, ContextHolds
  <2> QED
    BY <2>1, <2>2, <2>3
<1>6. CASE Collection!Refresh \/ Collection!ProfileChanges
  <2>1. context' = None /\ controlsLoad' = Collection!Outdated
    BY <1>6 DEF Collection!Refresh, Collection!ProfileChanges
  <2>2. controlsLoad' # None => /\ DOMAIN controlsLoad' = LoadFields
                                /\ controlsLoad'.row = controlsLoad.row
                                /\ controlsLoad'.reply = controlsLoad.reply
    BY <2>1 DEF Collection!Outdated, CollectionInv, LoadFields
  <2> QED
    BY <1>1, <2>1, <2>2 DEF CollectionInv, Collection!Outdated
<1> QED
  BY <1>0, <1>3, <1>4, <1>5, <1>6 DEF Collection!LookupSettles

(* What happens to the collection, with a context that is kept or dropped *)
(* and a lookup that is kept, dropped or outdated. *)
LEMMA CollectionStep ==
  ASSUME CollectionInv, NEW x, history' \in {history, Append(history, x)},
         context' \in {context, None}, controlsLoad' \in {controlsLoad, Collection!Outdated}
  PROVE  CollectionInv'
<1>1. controlsLoad' # None => /\ controlsLoad # None /\ DOMAIN controlsLoad' = LoadFields
                              /\ controlsLoad'.row = controlsLoad.row
                              /\ controlsLoad'.reply = controlsLoad.reply
  BY DEF Collection!Outdated, CollectionInv, LoadFields
<1> QED
  BY <1>1, KnowledgeKept DEF CollectionInv

(* Every step keeps what is known true. *)
LEMMA CollectionInvStep ==
  ASSUME CollectionInv, [Collection!Next]_collection
  PROVE  CollectionInv'
<1>1. CASE \/ Collection!LoadControls \/ Collection!LookupReadsRow \/ Collection!LookupServed
               \/ Collection!LookupSettles
           \/ Collection!Refresh \/ Collection!ProfileChanges
  BY <1>1, LookupStep
<1>2. ASSUME NEW expected, NEW add, NEW remove, NEW details, NEW reply,
             Collection!Batch(expected, add, remove, details, reply)
      PROVE  \E x : history' \in {history, Append(history, x)}
  BY <1>2 DEF Collection!Batch
<1>3. CASE Collection!OthersEdit
  <2>1. (\E x : history' \in {history, Append(history, x)}) /\ context' = context /\ controlsLoad' = controlsLoad
    BY <1>3 DEF Collection!OthersEdit, Collection!mode
  <2> QED
    BY <2>1, CollectionStep
<1>4. CASE Collection!MutationServed \/ Collection!SaveServed
  <2>1. (\E x : history' \in {history, Append(history, x)}) /\ context' = context /\ controlsLoad' = controlsLoad
    BY <1>2, <1>4 DEF Collection!MutationServed, Collection!SaveServed, Collection!mode
  <2> QED
    BY <2>1, CollectionStep
<1>5. CASE \/ \E i \in Items : Collection!Change(i)
           \/ Collection!UndoChange
           \/ Collection!MutationSettles
           \/ \E n \in Names : Collection!EditDetails("name", n)
           \/ \E i \in Items \cup {None} : Collection!EditDetails("artwork", i)
           \/ Collection!Save \/ Collection!RetryConflict
           \/ \E delivered \in BOOLEAN : Collection!SaveAnswered(delivered)
           \/ UNCHANGED collection
  <2>1. history' = history /\ context' \in {context, None} /\ controlsLoad' \in {controlsLoad, Collection!Outdated}
    BY <1>5 DEF Collection!Change, Collection!UndoChange, Collection!Mutate,
                Collection!MutationSettles, Collection!MutationAnswered,
                Collection!EditDetails, Collection!Save,
                Collection!RetryConflict, Collection!SaveAnswered, Collection!CollectionChanged, collection, Collection!mode
  <2> QED
    BY <2>1, CollectionStep
<1> QED
  BY <1>1, <1>3, <1>4, <1>5 DEF Collection!Next

-----------------------------------------------------------------------------
(* Undoing a change of the collection. *)

RevisionFields == {"members", "artwork", "name"}
MutationFields == {"expected", "item", "add", "artwork", "undo", "reply"}
UndoFields == {"revision", "item", "added", "artwork"}

\* The artwork of a collection is of one of its members.
HistoryFits(h) ==
  \A r \in 1 .. Len(h) : /\ DOMAIN h[r] = RevisionFields
                         /\ h[r].artwork \in h[r].members \cup {None}

\* Revision r + 1 is revision r with, or without, the item.
ChangedAt(h, r, item, added) ==
  /\ r \in 1 .. Len(h) /\ r + 1 \in 1 .. Len(h)
  /\ IF added
     THEN item \notin h[r].members /\ h[r + 1] = Collection!Changed(h[r], {item}, {}, Collection!NoDetails)
     ELSE item \in h[r].members /\ h[r + 1] = Collection!Changed(h[r], {}, {item}, Collection!NoDetails)

\* What the viewer may undo is what made its revision, and the artwork it lost.
UndoFits(u, h) ==
  /\ DOMAIN u = UndoFields /\ u.item \in Items /\ u.added \in BOOLEAN /\ u.revision \in Nat
  /\ ChangedAt(h, u.revision - 1, u.item, u.added)
  /\ u.artwork = (h[u.revision - 1].artwork = u.item)

\* A change of the viewer carries what undoes it, an undo what it restores.
MutationFits(m, h) ==
  /\ DOMAIN m = MutationFields
  /\ m.item \in Items /\ m.add \in BOOLEAN /\ m.expected \in 1 .. Len(h)
  /\ IF m.undo = None
     THEN m.reply = None =>
            /\ ChangedAt(h, m.expected - 1, m.item, ~m.add)
            /\ m.artwork = (m.add /\ h[m.expected - 1].artwork = m.item)
     ELSE /\ DOMAIN m.undo = UndoFields /\ m.undo.item = m.item /\ m.undo.added = m.add
          /\ ~m.artwork
          /\ m.undo.artwork = (h[m.expected].artwork = m.item)
          /\ m.reply # None /\ m.reply.kind = "done" =>
               /\ m.reply.revision = m.expected + 1
               /\ ChangedAt(h, m.expected, m.item, m.add)

UndoInv ==
  /\ CollectionInv
  /\ HistoryFits(history)
  /\ undo # None => UndoFits(undo, history)
  /\ mutation # None => MutationFits(mutation, history)

(* A revision, once made, stays as it is. *)
LEMMA RevisionsStay ==
  ASSUME CollectionInv, NEW x, history' \in {history, Append(history, x)}
  PROVE  /\ Len(history) \in Nat /\ Len(history') \in Nat /\ Len(history') >= Len(history)
         /\ \A i \in 1 .. Len(history) : history'[i] = history[i]
         /\ history' = Append(history, x) => /\ Len(history') = Len(history) + 1
                                            /\ history'[Len(history) + 1] = x
<1>1. /\ Len(history) \in Nat /\ Len(Append(history, x)) = Len(history) + 1
      /\ \A i \in 1 .. Len(history) : Append(history, x)[i] = history[i]
      /\ Append(history, x)[Len(history) + 1] = x
  BY AppendKeeps DEF CollectionInv
<1>2. CASE history' = history
  <2>1. history # Append(history, x)
    BY <1>1
  <2> QED
    BY <1>1, <1>2, <2>1
<1>3. CASE history' = Append(history, x)
  BY <1>1, <1>3
<1> QED
  BY <1>2, <1>3

(* What was true of two revisions stays true of them. *)
LEMMA ChangesStay ==
  ASSUME CollectionInv, NEW x, history' \in {history, Append(history, x)}
  PROVE  /\ \A r, item, added : ChangedAt(history, r, item, added) => ChangedAt(history', r, item, added)
         /\ \A u : UndoFits(u, history) => UndoFits(u, history')
         /\ \A m : MutationFits(m, history) => MutationFits(m, history')
<1>1. /\ Len(history) \in Nat /\ Len(history') \in Nat /\ Len(history') >= Len(history)
      /\ \A i \in 1 .. Len(history) : history'[i] = history[i]
  BY RevisionsStay
<1>2. ASSUME NEW r, NEW item, NEW added, ChangedAt(history, r, item, added)
      PROVE  ChangedAt(history', r, item, added) /\ history'[r] = history[r]
  <2>1. r \in 1 .. Len(history') /\ r + 1 \in 1 .. Len(history')
        /\ history'[r] = history[r] /\ history'[r + 1] = history[r + 1]
    BY <1>1, <1>2 DEF ChangedAt
  <2> QED
    BY <1>2, <2>1 DEF ChangedAt
<1>3. ASSUME NEW u, UndoFits(u, history) PROVE UndoFits(u, history')
  BY <1>2, <1>3 DEF UndoFits
<1>4. ASSUME NEW m, MutationFits(m, history) PROVE MutationFits(m, history')
  <2>1. m.expected \in 1 .. Len(history') /\ history'[m.expected] = history[m.expected]
    BY <1>1, <1>4 DEF MutationFits
  <2>2. CASE m.undo = None
    BY <1>2, <1>4, <2>1, <2>2 DEF MutationFits
  <2>3. CASE m.undo # None
    BY <1>2, <1>4, <2>1, <2>3 DEF MutationFits
  <2> QED
    BY <2>2, <2>3
<1> QED
  BY <1>2, <1>3, <1>4

(* A revision that is added has the artwork of a member, too. *)
LEMMA HistoryStaysFit ==
  ASSUME CollectionInv, HistoryFits(history), NEW x, history' = Append(history, x),
         DOMAIN x = RevisionFields, x.artwork \in x.members \cup {None}
  PROVE  HistoryFits(history')
<1>1. /\ Len(history) \in Nat /\ Len(history') = Len(history) + 1
      /\ \A i \in 1 .. Len(history) : history'[i] = history[i]
      /\ history'[Len(history) + 1] = x
  BY RevisionsStay
<1>2. ASSUME NEW r \in 1 .. Len(history')
      PROVE  DOMAIN history'[r] = RevisionFields /\ history'[r].artwork \in history'[r].members \cup {None}
  <2>1. CASE r = Len(history) + 1
    BY <1>1, <2>1
  <2>2. CASE r \in 1 .. Len(history)
    <3>1. history'[r] = history[r]
      BY <1>1, <2>2
    <3> QED
      BY <2>2, <3>1 DEF HistoryFits
  <2> QED
    BY <1>1, <2>1, <2>2
<1> QED
  BY <1>2 DEF HistoryFits

(* What a batch does, and what it is answered. *)
LEMMA BatchServed ==
  ASSUME CollectionInv, HistoryFits(history),
         NEW expected, NEW add, NEW remove, NEW details, NEW reply,
         Collection!Batch(expected, add, remove, details, reply)
  PROVE  /\ \E x : history' \in {history, Append(history, x)}
         /\ HistoryFits(history')
         /\ history' # history \/ reply.kind = "done" =>
              /\ expected = Len(history)
              /\ Collection!Valid(history[Len(history)], add, remove, details)
              /\ history' = Append(history, Collection!Changed(history[Len(history)], add, remove, details))
              /\ reply.revision = Len(history) + 1
<1> DEFINE now == history[Len(history)]
           x == Collection!Changed(now, add, remove, details)
<1>1. CASE expected = Len(history) /\ Collection!Valid(now, add, remove, details)
  <2>1. history' = Append(history, x) /\ reply = [kind |-> "done", revision |-> Len(history) + 1]
    BY <1>1 DEF Collection!Batch, Collection!revision, Collection!current
  <2>2. DOMAIN x = RevisionFields
    BY DEF Collection!Changed, RevisionFields
  <2>3. x.artwork \in x.members \cup {None}
    BY <1>1 DEF Collection!Valid
  <2>4. HistoryFits(history')
    <3> HIDE DEF x
    <3> QED
      BY <2>1, <2>2, <2>3, HistoryStaysFit
  <2> QED
    BY <1>1, <2>1, <2>4
<1>2. CASE ~(expected = Len(history) /\ Collection!Valid(now, add, remove, details))
  <2>1. history' = history /\ reply.kind # "done"
    BY <1>2 DEF Collection!Batch, Collection!revision, Collection!current, Collection!Conflict
  <2> QED
    BY <2>1
<1> QED
  BY <1>1, <1>2

(* What undoes a change leaves the collection as it was before it. *)
LEMMA UndoUndoes ==
  ASSUME NEW before, NEW item, NEW added \in BOOLEAN, NEW restore \in BOOLEAN,
         before.artwork \in before.members \cup {None},
         added <=> item \notin before.members,
         restore <=> ~added /\ before.artwork = item
  PROVE  LET now == Collection!Changed(before, IF added THEN {item} ELSE {},
                                       IF added THEN {} ELSE {item}, Collection!NoDetails)
             undone == Collection!Changed(now, IF added THEN {} ELSE {item},
                                          IF added THEN {item} ELSE {},
                                          IF restore THEN [artwork |-> item] ELSE Collection!NoDetails)
         IN  /\ undone.members = before.members
             /\ undone.artwork = before.artwork
             /\ undone.name = before.name
<1>1. CASE added
  BY <1>1 DEF Collection!Changed, Collection!NoDetails
<1>2. CASE ~added /\ restore
  BY <1>2 DEF Collection!Changed, Collection!NoDetails
<1>3. CASE ~added /\ ~restore
  BY <1>3 DEF Collection!Changed, Collection!NoDetails
<1> QED
  BY <1>1, <1>2, <1>3

(* The viewer's change carries the record that undoes it. *)
LEMMA ChangeFits ==
  ASSUME UndoInv, NEW i \in Items, Collection!Change(i)
  PROVE  MutationFits(mutation', history)
<1> DEFINE added == ~context.known[i]
           lost == context.artwork = i
           record == [revision |-> context.revision, item |-> i, added |-> added, artwork |-> lost]
<1>1. /\ context # None /\ i \in DOMAIN context.known
      /\ mutation' = [expected |-> context.revision, item |-> i, add |-> added,
                       artwork |-> FALSE, undo |-> record, reply |-> None]
  BY DEF Collection!Change, Collection!Mutate
<1>2. Holds(context, history)
  BY <1>1 DEF UndoInv, CollectionInv, ContextHolds
<1>3. /\ context.revision \in 1 .. Len(history) /\ Len(history) \in Nat
      /\ lost = (history[context.revision].artwork = i) /\ added \in BOOLEAN /\ lost \in BOOLEAN
  BY <1>2 DEF Holds, HasArtwork, UndoInv, CollectionInv
<1> HIDE DEF added, lost
<1>4. record # None
  <2>1. record \in [revision : Nat, item : Items, added : BOOLEAN, artwork : BOOLEAN]
    BY <1>3
  <2> QED
    BY <2>1, PagesAssumption
<1>5. /\ DOMAIN record = UndoFields /\ record.item = i /\ record.added = added
      /\ record.artwork = lost
  BY DEF UndoFields
<1> HIDE DEF record
<1>6. /\ DOMAIN mutation' = MutationFields /\ mutation'.item = i /\ mutation'.add = added
      /\ mutation'.expected = context.revision /\ mutation'.undo = record
      /\ mutation'.artwork = FALSE /\ mutation'.reply = None
  BY <1>1 DEF MutationFields
<1> QED
  BY <1>3, <1>4, <1>5, <1>6 DEF MutationFits

(* What undoes a change carries what the change took. *)
LEMMA UndoingFits ==
  ASSUME UndoInv, Collection!UndoChange
  PROVE  MutationFits(mutation', history)
<1> DEFINE add == ~undo.added
           restore == ~undo.added /\ undo.artwork
<1>1. /\ undo # None
      /\ mutation' = [expected |-> undo.revision, item |-> undo.item, add |-> add,
                       artwork |-> restore, undo |-> None, reply |-> None]
  BY DEF Collection!UndoChange, Collection!Mutate, Collection!RestoresArtwork
<1>2. UndoFits(undo, history) /\ Len(history) \in Nat
  BY <1>1 DEF UndoInv, CollectionInv
<1>3. /\ undo.item \in Items /\ undo.added \in BOOLEAN /\ add \in BOOLEAN
      /\ undo.revision \in 1 .. Len(history)
  BY <1>2 DEF UndoFits, ChangedAt
<1>4. /\ ChangedAt(history, undo.revision - 1, undo.item, ~add)
      /\ restore = (add /\ history[undo.revision - 1].artwork = undo.item)
  <2>1. ~add = undo.added
    BY <1>3
  <2> QED
    BY <1>2, <1>3, <2>1 DEF UndoFits
<1> HIDE DEF add, restore
<1>5. /\ DOMAIN mutation' = MutationFields /\ mutation'.item = undo.item /\ mutation'.add = add
      /\ mutation'.expected = undo.revision /\ mutation'.undo = None
      /\ mutation'.artwork = restore /\ mutation'.reply = None
  BY <1>1 DEF MutationFields
<1> QED
  BY <1>3, <1>4, <1>5 DEF MutationFits

(* An undo that the server accepts is the one of the newest revision. *)
LEMMA ServedUndoRestores ==
  ASSUME UndoInv, Collection!MutationServed, mutation.undo = None, history' # history
  PROVE  /\ history'[Len(history')].members = history[Len(history) - 1].members
         /\ history'[Len(history')].artwork = history[Len(history) - 1].artwork
         /\ history'[Len(history')].name = history[Len(history) - 1].name
<1> DEFINE m == mutation
           now == history[Len(history)]
           before == history[Len(history) - 1]
           details == IF m.artwork THEN [artwork |-> m.item] ELSE Collection!NoDetails
           revised == Collection!Changed(now, IF m.add THEN {m.item} ELSE {},
                                      IF m.add THEN {} ELSE {m.item}, details)
<1>1. PICK reply : Collection!Batch(m.expected, IF m.add THEN {m.item} ELSE {},
                                    IF m.add THEN {} ELSE {m.item}, details, reply)
  BY DEF Collection!MutationServed
<1>2. /\ m.expected = Len(history) /\ history' = Append(history, revised)
  <2> HIDE DEF details
  <2> QED
    BY <1>1, BatchServed DEF UndoInv
<1>3. history'[Len(history')] = revised
  <2> HIDE DEF revised
  <2> QED
    BY <1>2, RevisionsStay DEF UndoInv
<1>4. /\ Len(history) \in Nat /\ m.add \in BOOLEAN
      /\ ChangedAt(history, Len(history) - 1, m.item, ~m.add)
      /\ m.artwork = (m.add /\ before.artwork = m.item)
  BY <1>2 DEF Collection!MutationServed, UndoInv, CollectionInv, MutationFits
<1> DEFINE added == ~m.add
<1>5. /\ added <=> m.item \notin before.members
      /\ now = Collection!Changed(before, IF added THEN {m.item} ELSE {},
                                  IF added THEN {} ELSE {m.item}, Collection!NoDetails)
      /\ before.artwork \in before.members \cup {None}
  <2>1. Len(history) - 1 + 1 = Len(history) /\ Len(history) - 1 \in 1 .. Len(history)
    BY <1>4 DEF ChangedAt
  <2>2. before.artwork \in before.members \cup {None}
    BY <2>1 DEF UndoInv, HistoryFits
  <2> QED
    BY <1>4, <2>1, <2>2 DEF ChangedAt
<1>6. added \in BOOLEAN /\ m.artwork \in BOOLEAN /\ (m.artwork <=> ~added /\ before.artwork = m.item)
  BY <1>4
<1>7. revised = Collection!Changed(now, IF added THEN {} ELSE {m.item}, IF added THEN {m.item} ELSE {},
                               details)
  <2>1. CASE m.add
    BY <2>1
  <2>2. CASE ~m.add
    BY <2>2
  <2> QED
    BY <2>1, <2>2
<1> HIDE DEF added, before, now, m, revised
<1>8. /\ revised.members = before.members /\ revised.artwork = before.artwork /\ revised.name = before.name
  BY <1>5, <1>6, <1>7, UndoUndoes
<1> QED
  BY <1>3, <1>8 DEF before, revised

(* The server's answer to a change of the viewer. *)
LEMMA MutationServedKeeps ==
  ASSUME UndoInv, CollectionInv', Collection!MutationServed
  PROVE  UndoInv'
<1>1. PICK reply : /\ Collection!Batch(mutation.expected,
                         IF mutation.add THEN {mutation.item} ELSE {},
                         IF mutation.add THEN {} ELSE {mutation.item},
                         IF mutation.artwork THEN [artwork |-> mutation.item]
                         ELSE Collection!NoDetails, reply)
                   /\ mutation' = [mutation EXCEPT !.reply = reply]
  BY DEF Collection!MutationServed
<1> DEFINE details == IF mutation.artwork THEN [artwork |-> mutation.item] ELSE Collection!NoDetails
           add == IF mutation.add THEN {mutation.item} ELSE {}
           remove == IF mutation.add THEN {} ELSE {mutation.item}
           revised == Collection!Changed(history[Len(history)], add, remove, details)
<1>2. mutation # None /\ undo' = undo /\ Len(history) \in Nat
  BY DEF Collection!MutationServed, UndoInv, CollectionInv
<1> HIDE DEF details
<1>3. /\ \E x : history' \in {history, Append(history, x)}
      /\ HistoryFits(history')
      /\ reply.kind = "done" =>
           /\ mutation.expected = Len(history)
           /\ Collection!Valid(history[Len(history)], add, remove, details)
           /\ history' = Append(history, revised)
           /\ reply.revision = Len(history) + 1
  <2>1. Collection!Batch(mutation.expected, add, remove, details, reply)
    BY <1>1 DEF details
  <2> HIDE DEF add, remove
  <2> QED
    BY <2>1, BatchServed DEF UndoInv
<1>4. undo' # None => UndoFits(undo', history')
  BY <1>2, <1>3, ChangesStay DEF UndoInv
<1>5. MutationFits(mutation, history) /\ MutationFits(mutation, history')
  BY <1>2, <1>3, ChangesStay DEF UndoInv
<1>6. /\ DOMAIN mutation' = MutationFields /\ mutation'.expected = mutation.expected
      /\ mutation'.item = mutation.item /\ mutation'.add = mutation.add
      /\ mutation'.artwork = mutation.artwork /\ mutation'.undo = mutation.undo
      /\ mutation'.reply = reply
  BY <1>1, <1>5 DEF MutationFits, MutationFields
<1>7. CASE mutation.undo = None
  <2>1. mutation.reply = None
    BY DEF Collection!MutationServed
  <2> QED
    BY <1>3, <1>4, <1>5, <1>6, <1>7, <2>1 DEF UndoInv, MutationFits
<1>8. CASE mutation.undo # None
  <2>1. ASSUME reply.kind = "done"
        PROVE  /\ reply.revision = mutation.expected + 1
               /\ ChangedAt(history', mutation.expected, mutation.item, mutation.add)
    <3>1. details = Collection!NoDetails /\ mutation.add \in BOOLEAN
      BY <1>5, <1>8 DEF MutationFits, details
    <3>2. IF mutation.add THEN mutation.item \notin history[Len(history)].members
                          ELSE mutation.item \in history[Len(history)].members
      BY <1>3, <2>1, <3>1 DEF Collection!Valid
    <3>3. revised = IF mutation.add
                 THEN Collection!Changed(history[Len(history)], {mutation.item}, {}, Collection!NoDetails)
                 ELSE Collection!Changed(history[Len(history)], {}, {mutation.item}, Collection!NoDetails)
      BY <3>1
    <3> HIDE DEF revised
    <3>4. /\ Len(history') = Len(history) + 1 /\ history'[Len(history) + 1] = revised
          /\ \A i \in 1 .. Len(history) : history'[i] = history[i]
      BY <1>3, <2>1, RevisionsStay DEF UndoInv
    <3>5. /\ mutation.expected = Len(history) /\ Len(history) \in 1 .. Len(history)
          /\ reply.revision = mutation.expected + 1
      BY <1>3, <1>5, <2>1 DEF MutationFits
    <3> QED
      BY <1>2, <3>1, <3>2, <3>3, <3>4, <3>5 DEF ChangedAt
  <2> QED
    BY <1>3, <1>4, <1>5, <1>6, <1>8, <2>1 DEF UndoInv, MutationFits
<1> QED
  BY <1>7, <1>8

(* An answered change becomes what the viewer may undo, an undo leaves none. *)
LEMMA MutationAnsweredKeeps ==
  ASSUME UndoInv, CollectionInv', NEW delivered \in BOOLEAN, Collection!MutationAnswered(delivered)
  PROVE  UndoInv'
<1>1. mutation # None /\ mutation' = None /\ history' = history
  BY DEF Collection!MutationAnswered
<1>2. \/ undo' \in {undo, None}
      \/ /\ mutation.reply # None /\ mutation.reply.kind = "done" /\ mutation.undo # None
         /\ undo' = [mutation.undo EXCEPT !.revision = mutation.reply.revision]
  BY DEF Collection!MutationAnswered
<1>3. ASSUME mutation.reply # None, mutation.reply.kind = "done", mutation.undo # None,
             undo' = [mutation.undo EXCEPT !.revision = mutation.reply.revision]
      PROVE  UndoFits(undo', history')
  <2> DEFINE r == mutation.expected
  <2>1. /\ DOMAIN mutation.undo = UndoFields /\ mutation.undo.item = mutation.item
        /\ mutation.undo.added = mutation.add
        /\ mutation.undo.artwork = (history[r].artwork = mutation.item)
        /\ mutation.reply.revision = r + 1 /\ ChangedAt(history, r, mutation.item, mutation.add)
        /\ mutation.item \in Items /\ mutation.add \in BOOLEAN
        /\ r \in 1 .. Len(history) /\ Len(history) \in Nat
    BY <1>1, <1>3 DEF UndoInv, CollectionInv, MutationFits
  <2>2. /\ DOMAIN undo' = UndoFields /\ undo'.revision = r + 1
        /\ undo'.item = mutation.item /\ undo'.added = mutation.add
        /\ undo'.artwork = (history[r].artwork = mutation.item)
    BY <1>3, <2>1 DEF UndoFields
  <2>3. r + 1 \in Nat /\ r + 1 - 1 = r
    BY <2>1
  <2> QED
    BY <1>1, <2>1, <2>2, <2>3 DEF UndoFits
<1> QED
  BY <1>1, <1>2, <1>3 DEF UndoInv

LEMMA UndoInvStep ==
  ASSUME UndoInv, [Collection!Next]_collection
  PROVE  UndoInv'
<1>1. CollectionInv'
  BY CollectionInvStep DEF UndoInv
<1>2. CASE history' = history /\ undo' \in {undo, None} /\ mutation' = mutation
  BY <1>1, <1>2 DEF UndoInv
<1>3. CASE \/ Collection!LoadControls \/ Collection!LookupReadsRow \/ Collection!LookupServed
               \/ Collection!LookupSettles
           \/ Collection!Refresh \/ Collection!ProfileChanges
           \/ \E n \in Names : Collection!EditDetails("name", n)
           \/ \E i \in Items \cup {None} : Collection!EditDetails("artwork", i)
           \/ Collection!Save \/ Collection!RetryConflict
           \/ \E delivered \in BOOLEAN : Collection!SaveAnswered(delivered)
           \/ UNCHANGED collection
  <2>1. history' = history /\ undo' \in {undo, None} /\ mutation' = mutation
    BY <1>3 DEF Collection!LoadControls, Collection!LookupReadsRow, Collection!LookupServed, Collection!LookupSettles,
                Collection!LookupAnswered, Collection!Refresh, Collection!ProfileChanges,
                Collection!EditDetails, Collection!Save, Collection!RetryConflict,
                Collection!SaveAnswered, Collection!CollectionChanged, collection, Collection!mode
  <2> QED
    BY <1>2, <2>1
<1>4. ASSUME NEW x, history' = Append(history, x), HistoryFits(history'), undo' = undo, mutation' = mutation
      PROVE  UndoInv'
  BY <1>1, <1>4, ChangesStay DEF UndoInv
<1>5. CASE Collection!OthersEdit
  <2> DEFINE now == history[Len(history)]
  <2>1. undo' = undo /\ mutation' = mutation
    BY <1>5 DEF Collection!OthersEdit, Collection!mode
  <2>2. DOMAIN now = RevisionFields /\ now.artwork \in now.members \cup {None}
    BY DEF UndoInv, CollectionInv, HistoryFits
  <2>3. ASSUME NEW i \in Items,
               history' = Append(history, Collection!Changed(now, {i} \ now.members,
                                            {i} \cap now.members, Collection!NoDetails))
        PROVE  UndoInv'
    <3> DEFINE x == Collection!Changed(now, {i} \ now.members, {i} \cap now.members, Collection!NoDetails)
    <3>1. DOMAIN x = RevisionFields /\ x.artwork \in x.members \cup {None}
      BY <2>2 DEF Collection!Changed, Collection!NoDetails, RevisionFields
    <3> HIDE DEF x
    <3>2. history' = Append(history, x)
      BY <2>3 DEF x
    <3> QED
      BY <1>4, <2>1, <3>1, <3>2, HistoryStaysFit DEF UndoInv
  <2>4. ASSUME NEW n, history' = Append(history, [now EXCEPT !.name = n])
        PROVE  UndoInv'
    <3> DEFINE x == [now EXCEPT !.name = n]
    <3>1. DOMAIN x = RevisionFields /\ x.artwork = now.artwork /\ x.members = now.members
      BY <2>2 DEF RevisionFields
    <3> HIDE DEF x, now
    <3>2. history' = Append(history, x)
      BY <2>4 DEF x
    <3> QED
      BY <1>4, <2>1, <2>2, <3>1, <3>2, HistoryStaysFit DEF UndoInv
  <2> QED
    BY <1>5, <2>3, <2>4 DEF Collection!OthersEdit, Collection!current, Collection!revision
<1>6. CASE Collection!SaveServed
  <2>1. PICK reply : Collection!Batch(save.expected, {}, {}, save.details, reply)
    BY <1>6 DEF Collection!SaveServed
  <2>2. undo' = undo /\ mutation' = mutation
    BY <1>6 DEF Collection!SaveServed, Collection!mode
  <2>3. (\E x : history' \in {history, Append(history, x)}) /\ HistoryFits(history')
    BY <2>1, BatchServed DEF UndoInv
  <2> QED
    BY <1>2, <1>4, <2>2, <2>3
<1>7. CASE (\E i \in Items : Collection!Change(i)) \/ Collection!UndoChange
  <2>1. history' = history /\ undo' = undo
    BY <1>7 DEF Collection!Change, Collection!UndoChange, Collection!Mutate
  <2>2. MutationFits(mutation', history)
    BY <1>7, ChangeFits, UndoingFits
  <2> QED
    BY <1>1, <2>1, <2>2 DEF UndoInv
<1> QED
  BY <1>1, <1>3, <1>5, <1>6, <1>7, MutationServedKeeps, MutationAnsweredKeeps
     DEF Collection!Next, Collection!MutationSettles

LEMMA CollectionStarts == Collection!Init => UndoInv
<1> SUFFICES ASSUME Collection!Init PROVE UndoInv
  OBVIOUS
<1>1. PICK c : /\ history = <<c>> /\ c.artwork \in c.members \cup {None}
               /\ c \in [members : SUBSET Items, artwork : Items \cup {None}, name : Names]
  BY DEF Collection!Init
<1>2. history \in Seq({c}) /\ Len(history) = 1 /\ history[1] = c
  BY <1>1
<1>3. IsSequence(history)
  BY <1>2 DEF IsSequence
<1>4. context = None /\ controlsLoad = None /\ undo = None /\ mutation = None
  BY DEF Collection!Init
<1>5. HistoryFits(history)
  <2>1. DOMAIN c = RevisionFields
    BY <1>1 DEF RevisionFields
  <2> QED
    BY <1>1, <1>2, <2>1 DEF HistoryFits
<1> QED
  BY <1>2, <1>3, <1>4, <1>5 DEF CollectionInv, UndoInv

(* The step of an accepted undo is the only one that has to restore.        *)
LEMMA UndoStep ==
  ASSUME UndoInv, [Collection!Next]_collection,
         mutation # None, mutation.undo = None, history' # history, mutation' # mutation
  PROVE  /\ history'[Len(history')].members = history[Len(history) - 1].members
         /\ history'[Len(history')].artwork = history[Len(history) - 1].artwork
         /\ history'[Len(history')].name = history[Len(history) - 1].name
<1>1. Collection!MutationServed
  BY DEF Collection!Next, Collection!OthersEdit, Collection!LoadControls, Collection!LookupReadsRow, Collection!LookupServed,
         Collection!LookupSettles, Collection!LookupAnswered, Collection!Refresh,
         Collection!ProfileChanges, Collection!Change, Collection!UndoChange, Collection!Mutate,
         Collection!MutationSettles, Collection!MutationAnswered, Collection!EditDetails,
         Collection!Save, Collection!RetryConflict, Collection!SaveServed, Collection!SaveAnswered,
         Collection!mode, collection
<1> QED
  BY <1>1, ServedUndoRestores

LEMMA CollectionAlwaysHere == PagesSpec => [](part = "collection" => UndoInv)
<1> DEFINE Inv == part = "collection" => UndoInv
<1>1. PagesInit => Inv
  BY CollectionStarts DEF PagesInit
<1>2. Inv /\ [PagesNext]_pagesVars => Inv'
  <2> SUFFICES ASSUME Inv, [PagesNext]_pagesVars, part' = "collection"
               PROVE  UndoInv'
    OBVIOUS
  <2>1. part = "collection" /\ [Collection!Next]_collection
    BY DEF PagesNext, pagesVars
  <2> QED
    BY <2>1, UndoInvStep
<1> QED
  BY <1>1, <1>2, PTL DEF PagesSpec

LEMMA CollectionAlways == Collection!Spec => []UndoInv
<1>1. UndoInv /\ [Collection!Next]_(Collection!vars) => UndoInv'
  BY UndoInvStep DEF Collection!vars, Collection!mode, collection
<1> QED
  BY CollectionStarts, <1>1, PTL DEF Collection!Spec

(* What the mode knows of a collection is never older than the revision its *)
(* next change is sent with, so that a change is accepted only when all of  *)
(* it is right: for any items, names and numbers of requests, although a    *)
(* lookup reads the members later than the revision, however lookups,       *)
(* changes of the viewer and those of others interleave.                    *)
THEOREM ContextIsNeverOlder ==
  /\ Collection!Spec => []Collection!ContextIsNotOlder
  /\ PagesSpec => []ContextIsNotOlder
<1>1. UndoInv => Collection!ContextIsNotOlder
  <2> SUFFICES ASSUME UndoInv, context # None, ~context.error
               PROVE  /\ context.artwork = history[context.revision].artwork
                      /\ \A i \in DOMAIN context.known :
                           \E r \in context.revision .. Collection!revision :
                             context.known[i] = (i \in history[r].members)
    BY DEF Collection!ContextIsNotOlder
  <2>1. Holds(context, history)
    BY DEF UndoInv, CollectionInv, ContextHolds
  <2> QED
    BY <2>1 DEF Holds, HasArtwork, NotOlder, Collection!revision
<1>2. (part = "collection" => UndoInv) => ContextIsNotOlder
  BY <1>1 DEF ContextIsNotOlder
<1> QED
  BY CollectionAlways, CollectionAlwaysHere, <1>1, <1>2, PTL

(* An undo that is accepted leaves the members, the artwork and the name of *)
(* before the change it undoes: what others did since is never lost, and    *)
(* neither a lost answer nor an edit of the details in between lets it undo *)
(* something else.                                                          *)
THEOREM UndoAlwaysRestores ==
  /\ Collection!Spec => Collection!UndoRestores
  /\ PagesSpec => UndoRestores
<1> DEFINE Restores ==
      mutation # None /\ mutation.undo = None /\ history' # history /\ mutation' # mutation =>
        /\ history'[Collection!revision'].members = history[Collection!revision - 1].members
        /\ history'[Collection!revision'].artwork = history[Collection!revision - 1].artwork
        /\ history'[Collection!revision'].name = history[Collection!revision - 1].name
<1>1. UndoInv /\ [Collection!Next]_collection => Restores
  BY UndoStep DEF Collection!revision
<1>2. UndoInv /\ [Collection!Next]_(Collection!vars) => [Restores]_(Collection!vars)
  BY <1>1 DEF Collection!vars, Collection!mode, collection
<1>3. (part = "collection" => UndoInv) /\ [PagesNext]_pagesVars => [Restores]_(Collection!vars)
  <2>1. CASE part = "collection" /\ [Collection!Next]_collection
    BY <1>1, <2>1
  <2>2. CASE UNCHANGED collection
    BY <2>2 DEF collection, Collection!vars, Collection!mode
  <2> HIDE DEF Restores
  <2> QED
    BY <2>1, <2>2 DEF PagesNext, pagesVars
<1>4. Collection!Spec => Collection!UndoRestores
  BY <1>2, CollectionAlways, PTL DEF Collection!Spec, Collection!UndoRestores
<1>5. PagesSpec => UndoRestores
  BY <1>3, CollectionAlwaysHere, PTL DEF PagesSpec, UndoRestores, Collection!UndoRestores
<1> QED
  BY <1>4, <1>5

-----------------------------------------------------------------------------
(* CollectionPicker. *)

TargetFields == {"revision", "initial", "member"}
ChangeFields == {"id", "revision", "member", "attached"}
PageFields == {"after", "members", "revisions"}

\* A change of the save is what the viewer wants; the object it was made from,
\* if it is still the one that is listed, is still to be saved.
StillWanted(change, want, listed) ==
  /\ change.id \in Picker!Collections
  /\ want[change.id] = change.member
  /\ change.attached => change.id \in DOMAIN listed /\ Picker!Dirty(listed[change.id])

PickerShape ==
  /\ DOMAIN wanted = Picker!Collections /\ DOMAIN made = Picker!Collections
  /\ DOMAIN targets \subseteq Picker!Collections
  /\ \A c \in DOMAIN targets : DOMAIN targets[c] = TargetFields
  /\ load # None => /\ DOMAIN load = PageFields
                    /\ load.revisions # None => DOMAIN load.revisions \subseteq Picker!Collections
  /\ ~saving => queue = {} /\ sending = None
  /\ saving => ~reported

\* A staged change is what the viewer wants, and what is wanted is staged or made.
WantedIsStaged ==
  /\ \A c \in DOMAIN targets : Picker!Dirty(targets[c]) => wanted[c] = targets[c].member
  /\ \A c \in Picker!Collections :
       \/ wanted[c] \in {None, made[c]}
       \/ c \in DOMAIN targets /\ Picker!Dirty(targets[c])
  /\ reported => /\ \A c \in Picker!Collections : wanted[c] \in {None, made[c]}
                 /\ \A c \in DOMAIN targets : ~Picker!Dirty(targets[c])

\* The changes of a save are of different collections.
SaveIsWanted ==
  /\ \A change \in queue : DOMAIN change = ChangeFields /\ StillWanted(change, wanted, targets)
  /\ \A change, other \in queue : change.id = other.id => change = other
  /\ sending # None =>
       /\ DOMAIN sending = ChangeFields \cup {"reply"} /\ StillWanted(sending, wanted, targets)
       /\ \A change \in queue : change.id # sending.id
       /\ sending.reply # None /\ sending.reply.kind = "done" => made[sending.id] = sending.member

PickerInv == PickerShape /\ WantedIsStaged /\ SaveIsWanted

(* Only what is clean, not listed and in no conflict is forgotten. *)
LEMMA TrimmedKeeps ==
  ASSUME NEW ts, NEW listed
  PROVE  /\ DOMAIN Picker!Trimmed(ts, listed) \subseteq DOMAIN ts
         /\ \A c \in DOMAIN Picker!Trimmed(ts, listed) : Picker!Trimmed(ts, listed)[c] = ts[c]
         /\ \A c \in DOMAIN ts : Picker!Dirty(ts[c]) => c \in DOMAIN Picker!Trimmed(ts, listed)
BY DEF Picker!Trimmed, Picker!Restrict

(* What is staged and what is wanted stay when the targets only lose what is *)
(* not staged, or gain what is clean.                                        *)
LEMMA StagedKept ==
  ASSUME PickerInv, UNCHANGED <<wanted, made, sending, queue, reported, saving>>,
         DOMAIN targets' \subseteq Picker!Collections,
         \A c \in DOMAIN targets' : DOMAIN targets'[c] = TargetFields,
         \A c \in DOMAIN targets' : Picker!Dirty(targets'[c]) =>
             c \in DOMAIN targets /\ targets'[c].member = targets[c].member /\ Picker!Dirty(targets[c]),
         \A c \in DOMAIN targets : Picker!Dirty(targets[c]) =>
             c \in DOMAIN targets' /\ Picker!Dirty(targets'[c]),
         load' # None => /\ DOMAIN load' = PageFields
                         /\ load'.revisions # None => DOMAIN load'.revisions \subseteq Picker!Collections
  PROVE  PickerInv'
<1>1. PickerShape'
  BY DEF PickerInv, PickerShape
<1>2. WantedIsStaged'
  BY DEF PickerInv, WantedIsStaged
<1>3. \A change : StillWanted(change, wanted, targets) => StillWanted(change, wanted', targets')
  BY DEF StillWanted
<1>4. SaveIsWanted'
  BY <1>3 DEF PickerInv, SaveIsWanted
<1> QED
  BY <1>1, <1>2, <1>4 DEF PickerInv

LEMMA OpenKeeps ==
  ASSUME PickerInv, Picker!Open
  PROVE  PickerInv'
<1> DEFINE staged == {c \in DOMAIN targets : Picker!Dirty(targets[c]) \/ c \in DOMAIN conflicts}
<1>1. /\ ~saving /\ UNCHANGED <<saving, queue, sending>> /\ reported' = FALSE
      /\ targets' = Picker!Trimmed(targets, staged)
      /\ load' = Picker!PageAfter(0)
      /\ wanted' = IF reported THEN Picker!Undecided ELSE wanted
      /\ made' = IF reported THEN Picker!Undecided ELSE made
  BY DEF Picker!Open
<1>2. queue = {} /\ sending = None
  BY <1>1 DEF PickerInv, PickerShape
<1>3. DOMAIN load' = PageFields /\ load'.revisions = None
  BY <1>1 DEF PageFields, Picker!PageAfter
<1>4. DOMAIN wanted' = Picker!Collections /\ DOMAIN made' = Picker!Collections
  BY <1>1 DEF PickerInv, PickerShape, Picker!Undecided
<1> HIDE DEF staged
<1>5. /\ DOMAIN targets' \subseteq DOMAIN targets
      /\ \A c \in DOMAIN targets' : targets'[c] = targets[c]
      /\ \A c \in DOMAIN targets : Picker!Dirty(targets[c]) => c \in DOMAIN targets'
  BY <1>1, TrimmedKeeps
<1>6. PickerShape'
  BY <1>1, <1>2, <1>3, <1>4, <1>5 DEF PickerInv, PickerShape
<1>7. SaveIsWanted'
  BY <1>1, <1>2 DEF SaveIsWanted
<1>8. WantedIsStaged'
  <2>1. CASE reported
    <3>1. \A c \in Picker!Collections : wanted'[c] = None /\ made'[c] = None
      BY <1>1, <2>1 DEF Picker!Undecided
    <3>2. \A c \in DOMAIN targets' : ~Picker!Dirty(targets'[c])
      BY <1>5, <2>1 DEF PickerInv, WantedIsStaged
    <3> QED
      BY <1>1, <3>1, <3>2 DEF WantedIsStaged
  <2>2. CASE ~reported
    BY <1>1, <1>5, <2>2 DEF PickerInv, WantedIsStaged
  <2> QED
    BY <2>1, <2>2
<1> QED
  BY <1>6, <1>7, <1>8 DEF PickerInv

(* A page replaces what is clean and leaves what is staged. *)
LEMMA PageArrivesKeeps ==
  ASSUME PickerInv, Picker!PageArrives
  PROVE  PickerInv'
<1> DEFINE arrived == [c \in DOMAIN load.revisions |-> Picker!Row(load.revisions[c], c \in load.members)]
           merged == [c \in DOMAIN targets \cup DOMAIN arrived |->
                        IF c \in DOMAIN targets /\ (c \notin DOMAIN arrived \/ Picker!Dirty(targets[c]))
                        THEN targets[c] ELSE arrived[c]]
           Detached(change) ==
             IF change.id \in DOMAIN arrived THEN [change EXCEPT !.attached = FALSE] ELSE change
<1>1. /\ load # None /\ load.revisions # None /\ load' = None
      /\ queue' = {Detached(change) : change \in queue}
      /\ sending' = IF sending = None THEN None ELSE Detached(sending)
      /\ UNCHANGED <<saving, reported, wanted, made>>
  BY DEF Picker!PageArrives
<1>2. \E listed : targets' = Picker!Trimmed(merged, listed)
  BY DEF Picker!PageArrives
<1>3. DOMAIN arrived \subseteq Picker!Collections
  BY <1>1 DEF PickerInv, PickerShape
<1>4. ASSUME NEW c \in DOMAIN merged
      PROVE  /\ DOMAIN merged[c] = TargetFields
             /\ Picker!Dirty(merged[c]) => c \in DOMAIN targets /\ merged[c] = targets[c]
  <2>1. merged[c] = IF c \in DOMAIN targets /\ (c \notin DOMAIN arrived \/ Picker!Dirty(targets[c]))
                    THEN targets[c] ELSE arrived[c]
    BY <1>4
  <2>2. c \in DOMAIN arrived => DOMAIN arrived[c] = TargetFields /\ ~Picker!Dirty(arrived[c])
    BY DEF Picker!Row, Picker!Dirty, TargetFields
  <2>3. c \in DOMAIN targets \/ c \in DOMAIN arrived
    BY <1>4
  <2> HIDE DEF merged, arrived
  <2> QED
    BY <2>1, <2>2, <2>3 DEF PickerInv, PickerShape
<1>5. \A c \in DOMAIN targets : c \in DOMAIN merged /\
        (Picker!Dirty(targets[c]) \/ c \notin DOMAIN arrived => merged[c] = targets[c])
  OBVIOUS
<1>6. DOMAIN merged \subseteq Picker!Collections
  BY <1>3 DEF PickerInv, PickerShape
<1> HIDE DEF merged
<1>7. /\ DOMAIN targets' \subseteq Picker!Collections
      /\ \A c \in DOMAIN targets' : DOMAIN targets'[c] = TargetFields
      /\ \A c \in DOMAIN targets' : Picker!Dirty(targets'[c]) =>
            c \in DOMAIN targets /\ targets'[c] = targets[c]
      /\ \A c \in DOMAIN targets : Picker!Dirty(targets[c]) =>
            c \in DOMAIN targets' /\ targets'[c] = targets[c]
  BY <1>2, <1>4, <1>5, <1>6, TrimmedKeeps
<1> HIDE DEF arrived
<1>8. ASSUME NEW change, DOMAIN change \in {ChangeFields, ChangeFields \cup {"reply"}}
      PROVE  /\ DOMAIN Detached(change) = DOMAIN change
             /\ Detached(change).id = change.id /\ Detached(change).member = change.member
             /\ "reply" \in DOMAIN change => Detached(change).reply = change.reply
             /\ StillWanted(change, wanted, targets) => StillWanted(Detached(change), wanted', targets')
  <2> DEFINE d == Detached(change)
  <2>1. CASE change.id \in DOMAIN arrived
    <3>1. d = [change EXCEPT !.attached = FALSE]
      BY <2>1
    <3>2. /\ DOMAIN d = DOMAIN change /\ d.id = change.id /\ d.member = change.member
          /\ d.attached = FALSE
          /\ "reply" \in DOMAIN change => d.reply = change.reply
      BY <1>8, <3>1 DEF ChangeFields
    <3> HIDE DEF d
    <3>3. StillWanted(change, wanted, targets) => StillWanted(d, wanted', targets')
      <4>1. wanted' = wanted
        BY <1>1
      <4> QED
        BY <3>2, <4>1 DEF StillWanted
    <3> QED
      BY <3>2, <3>3 DEF d
  <2>2. CASE change.id \notin DOMAIN arrived
    <3>1. d = change
      BY <2>2
    <3>2. StillWanted(change, wanted, targets) => StillWanted(change, wanted', targets')
      BY <1>1, <1>7 DEF StillWanted
    <3> HIDE DEF d
    <3> QED
      BY <3>1, <3>2 DEF d
  <2> QED
    BY <2>1, <2>2
<1>9. PickerShape'
  BY <1>1, <1>7 DEF PickerInv, PickerShape
<1>10. WantedIsStaged'
  BY <1>1, <1>7 DEF PickerInv, WantedIsStaged
<1>11. SaveIsWanted'
  <2>1. ASSUME NEW change \in queue
        PROVE  /\ DOMAIN Detached(change) = ChangeFields /\ Detached(change).id = change.id
               /\ StillWanted(Detached(change), wanted', targets')
    BY <1>8, <2>1 DEF PickerInv, SaveIsWanted
  <2>2. sending # None =>
          /\ DOMAIN Detached(sending) = ChangeFields \cup {"reply"}
          /\ Detached(sending).id = sending.id /\ Detached(sending).member = sending.member
          /\ Detached(sending).reply = sending.reply
          /\ StillWanted(Detached(sending), wanted', targets')
    BY <1>8 DEF PickerInv, SaveIsWanted
  <2> HIDE DEF Detached
  <2>3. /\ \A change \in queue' : DOMAIN change = ChangeFields /\ StillWanted(change, wanted', targets')
        /\ \A change, other \in queue' : change.id = other.id => change = other
    BY <1>1, <2>1 DEF PickerInv, SaveIsWanted
  <2>4. sending' # None =>
          /\ DOMAIN sending' = ChangeFields \cup {"reply"} /\ StillWanted(sending', wanted', targets')
          /\ \A change \in queue' : change.id # sending'.id
          /\ sending'.reply # None /\ sending'.reply.kind = "done" => made'[sending'.id] = sending'.member
    BY <1>1, <2>1, <2>2 DEF PickerInv, SaveIsWanted
  <2> QED
    BY <2>3, <2>4 DEF SaveIsWanted
<1> QED
  BY <1>9, <1>10, <1>11 DEF PickerInv

LEMMA ToggleKeeps ==
  ASSUME PickerInv, NEW c \in Picker!Collections, Picker!Toggle(c)
  PROVE  PickerInv'
<1>1. /\ ~saving /\ c \in DOMAIN targets /\ reported' = FALSE
      /\ targets' = [targets EXCEPT ![c].member = ~@]
      /\ wanted' = [wanted EXCEPT ![c] = IF Picker!Dirty(targets'[c]) THEN targets'[c].member ELSE None]
      /\ made' = [made EXCEPT ![c] = None]
      /\ UNCHANGED <<load, queue, sending, saving>>
  BY DEF Picker!Toggle, Picker!listing
<1>2. queue = {} /\ sending = None
  BY <1>1 DEF PickerInv, PickerShape
<1>3. /\ DOMAIN targets' = DOMAIN targets /\ DOMAIN targets'[c] = TargetFields
      /\ \A d \in DOMAIN targets : d # c => targets'[d] = targets[d]
  BY <1>1 DEF PickerInv, PickerShape
<1>4. /\ DOMAIN wanted' = Picker!Collections /\ DOMAIN made' = Picker!Collections
      /\ \A d \in Picker!Collections : d # c => wanted'[d] = wanted[d] /\ made'[d] = made[d]
      /\ wanted'[c] = (IF Picker!Dirty(targets'[c]) THEN targets'[c].member ELSE None)
  BY <1>1 DEF PickerInv, PickerShape
<1>5. PickerShape'
  BY <1>1, <1>2, <1>3, <1>4 DEF PickerInv, PickerShape
<1>6. WantedIsStaged'
  BY <1>1, <1>3, <1>4 DEF PickerInv, PickerShape, WantedIsStaged
<1>7. SaveIsWanted'
  BY <1>1, <1>2 DEF SaveIsWanted
<1> QED
  BY <1>5, <1>6, <1>7 DEF PickerInv

(* A save, or a retry, starts with the changes that are staged. *)
LEMMA SaveStarts ==
  ASSUME PickerInv, ~saving, queue' = Picker!ChangesOf(targets'), sending' = sending,
         saving' => queue' # {}, ~saving' => queue' = {}, reported' = FALSE,
         DOMAIN targets' = DOMAIN targets,
         \A c \in DOMAIN targets : /\ DOMAIN targets'[c] = TargetFields
                                   /\ targets'[c].member = targets[c].member
                                   /\ targets'[c].initial = targets[c].initial,
         UNCHANGED <<load, wanted, made>>
  PROVE  PickerInv'
<1>1. sending = None
  BY DEF PickerInv, PickerShape
<1>2. \A c \in DOMAIN targets : Picker!Dirty(targets'[c]) = Picker!Dirty(targets[c])
  BY DEF Picker!Dirty
<1>3. PickerShape'
  BY <1>1 DEF PickerInv, PickerShape
<1>4. WantedIsStaged'
  BY <1>2 DEF PickerInv, WantedIsStaged
<1>5. ASSUME NEW change \in queue'
      PROVE  \E c \in DOMAIN targets' :
               /\ Picker!Dirty(targets'[c])
               /\ change = [id |-> c, revision |-> targets'[c].revision,
                            member |-> targets'[c].member, attached |-> TRUE]
  BY <1>5 DEF Picker!ChangesOf
<1>6. ASSUME NEW change \in queue'
      PROVE  DOMAIN change = ChangeFields /\ StillWanted(change, wanted', targets')
  <2>1. PICK c \in DOMAIN targets' :
               /\ Picker!Dirty(targets'[c])
               /\ change = [id |-> c, revision |-> targets'[c].revision,
                            member |-> targets'[c].member, attached |-> TRUE]
    BY <1>5
  <2>2. /\ DOMAIN change = ChangeFields /\ change.id = c /\ change.member = targets'[c].member
    BY <2>1 DEF ChangeFields
  <2>3. c \in Picker!Collections /\ wanted'[c] = targets'[c].member
    BY <1>3, <1>4, <2>1 DEF PickerShape, WantedIsStaged
  <2> QED
    BY <2>1, <2>2, <2>3 DEF StillWanted
<1>7. ASSUME NEW change \in queue', NEW other \in queue', change.id = other.id
      PROVE  change = other
  <2>1. PICK c \in DOMAIN targets' :
          change = [id |-> c, revision |-> targets'[c].revision,
                    member |-> targets'[c].member, attached |-> TRUE]
    BY <1>5
  <2>2. PICK d \in DOMAIN targets' :
          other = [id |-> d, revision |-> targets'[d].revision,
                   member |-> targets'[d].member, attached |-> TRUE]
    BY <1>5
  <2>3. change.id = c /\ other.id = d
    BY <2>1, <2>2
  <2> QED
    BY <1>7, <2>1, <2>2, <2>3
<1>8. SaveIsWanted'
  BY <1>1, <1>6, <1>7 DEF SaveIsWanted
<1> QED
  BY <1>3, <1>4, <1>8 DEF PickerInv

LEMMA SaveKeeps ==
  ASSUME PickerInv, Picker!Save
  PROVE  PickerInv'
<1>1. /\ ~saving /\ saving' = TRUE /\ queue' = Picker!ChangesOf(targets) /\ queue' # {}
      /\ reported' = FALSE /\ sending' = sending /\ targets' = targets
      /\ UNCHANGED <<load, wanted, made>>
  BY DEF Picker!Save, Picker!listing
<1>2. \A c \in DOMAIN targets : DOMAIN targets[c] = TargetFields
  BY DEF PickerInv, PickerShape
<1> QED
  BY <1>1, <1>2, SaveStarts

LEMMA RetryKeeps ==
  ASSUME PickerInv, NEW c \in Picker!Collections, Picker!Retry(c)
  PROVE  PickerInv'
<1>1. /\ ~saving /\ c \in DOMAIN targets
      /\ targets' = [targets EXCEPT ![c].revision = conflicts[c]]
      /\ saving' = (Picker!ChangesOf(targets') # {}) /\ queue' = Picker!ChangesOf(targets')
      /\ reported' = FALSE /\ sending' = sending
      /\ UNCHANGED <<load, wanted, made>>
  BY DEF Picker!Retry, Picker!listing
<1>2. /\ DOMAIN targets' = DOMAIN targets
      /\ targets'[c] = [targets[c] EXCEPT !.revision = conflicts[c]]
      /\ \A d \in DOMAIN targets : d # c => targets'[d] = targets[d]
  BY <1>1
<1>3. DOMAIN targets[c] = TargetFields
  BY <1>1 DEF PickerInv, PickerShape
<1>4. /\ DOMAIN targets'[c] = TargetFields
      /\ targets'[c].member = targets[c].member /\ targets'[c].initial = targets[c].initial
  BY <1>2, <1>3 DEF TargetFields
<1>5. \A d \in DOMAIN targets : /\ DOMAIN targets'[d] = TargetFields
                                /\ targets'[d].member = targets[d].member
                                /\ targets'[d].initial = targets[d].initial
  BY <1>2, <1>4 DEF PickerInv, PickerShape
<1>6. (saving' => queue' # {}) /\ (~saving' => queue' = {})
  BY <1>1
<1>7. /\ ~saving /\ queue' = Picker!ChangesOf(targets') /\ sending' = sending
      /\ reported' = FALSE /\ UNCHANGED <<load, wanted, made>>
  BY <1>1
<1> QED
  BY <1>2, <1>5, <1>6, <1>7, SaveStarts

LEMMA SendKeeps ==
  ASSUME PickerInv, NEW change \in queue, Picker!Send(change)
  PROVE  PickerInv'
<1>1. /\ saving /\ queue' = queue \ {change}
      /\ sending' = [id |-> change.id, revision |-> change.revision, member |-> change.member,
                     attached |-> change.attached, reply |-> None]
      /\ UNCHANGED <<saving, reported, targets, load, wanted, made>>
  BY DEF Picker!Send, Picker!listing
<1>2. /\ DOMAIN sending' = ChangeFields \cup {"reply"} /\ sending'.reply = None
      /\ sending'.id = change.id /\ sending'.member = change.member
      /\ sending'.attached = change.attached
  BY <1>1 DEF ChangeFields
<1>3. StillWanted(change, wanted, targets)
  BY DEF PickerInv, SaveIsWanted
<1>4. StillWanted(sending', wanted', targets')
  BY <1>1, <1>2, <1>3 DEF StillWanted
<1>5. PickerShape' /\ WantedIsStaged'
  BY <1>1 DEF PickerInv, PickerShape, WantedIsStaged
<1>6. \A other \in queue' : other \in queue /\ other.id # sending'.id
  BY <1>1, <1>2 DEF PickerInv, SaveIsWanted
<1>7. wanted' = wanted /\ targets' = targets
  BY <1>1
<1>8. SaveIsWanted'
  BY <1>2, <1>4, <1>6, <1>7 DEF PickerInv, SaveIsWanted
<1> QED
  BY <1>5, <1>8 DEF PickerInv

(* The server takes a change at the revision it was staged at, or refuses it. *)
LEMMA BatchServedKeeps ==
  ASSUME PickerInv, Picker!BatchServed
  PROVE  PickerInv'
<1>1. /\ sending # None
      /\ UNCHANGED <<saving, reported, targets, load, wanted, queue>>
  BY DEF Picker!BatchServed, Picker!listing
<1>2. \E reply : /\ sending' = [sending EXCEPT !.reply = reply]
                 /\ \/ made' = made /\ reply.kind # "done"
                    \/ made' = [made EXCEPT ![sending.id] = sending.member]
  <2> DEFINE c == server[sending.id]
             refusal(kind) == [kind |-> kind, revision |-> c.revision]
             done == [kind |-> "done", revision |-> c.revision + 1]
  <2>1. \/ made' = made /\ \E kind \in {"conflict", "refused"} :
             sending' = [sending EXCEPT !.reply = refusal(kind)]
        \/ /\ made' = [made EXCEPT ![sending.id] = sending.member]
           /\ sending' = [sending EXCEPT !.reply = done]
    BY DEF Picker!BatchServed
  <2>2. \A kind \in {"conflict", "refused"} : refusal(kind).kind # "done"
    OBVIOUS
  <2> HIDE DEF refusal, done
  <2> QED
    BY <2>1, <2>2
<1>3. /\ DOMAIN sending = ChangeFields \cup {"reply"} /\ StillWanted(sending, wanted, targets)
      /\ saving /\ DOMAIN made = Picker!Collections
  BY <1>1 DEF PickerInv, PickerShape, SaveIsWanted
<1>4. PICK reply : /\ sending' = [sending EXCEPT !.reply = reply]
                   /\ \/ made' = made /\ reply.kind # "done"
                      \/ made' = [made EXCEPT ![sending.id] = sending.member]
  BY <1>2
<1>5. /\ DOMAIN sending' = DOMAIN sending /\ sending'.reply = reply
      /\ sending'.id = sending.id /\ sending'.member = sending.member
      /\ sending'.attached = sending.attached
  BY <1>3, <1>4 DEF ChangeFields
<1>6. sending.id \in Picker!Collections /\ wanted[sending.id] = sending.member
  BY <1>3 DEF StillWanted
<1>7. /\ DOMAIN made' = Picker!Collections
      /\ \A c \in Picker!Collections : c # sending.id => made'[c] = made[c]
      /\ made'[sending.id] = made[sending.id] \/ made'[sending.id] = sending.member
      /\ reply.kind = "done" => made'[sending.id] = sending.member
  <2>1. CASE made' = made /\ reply.kind # "done"
    BY <1>3, <2>1
  <2>2. CASE made' = [made EXCEPT ![sending.id] = sending.member]
    BY <1>3, <1>6, <2>2
  <2> QED
    BY <1>4, <2>1, <2>2
<1>8. PickerShape'
  BY <1>1, <1>3, <1>7 DEF PickerInv, PickerShape
<1>9. ~reported
  BY <1>3 DEF PickerInv, PickerShape
<1>10. WantedIsStaged'
  <2>1. ASSUME NEW c \in Picker!Collections
        PROVE  wanted[c] \in {None, made'[c]} \/ (c \in DOMAIN targets /\ Picker!Dirty(targets[c]))
    <3>1. CASE c = sending.id
      BY <1>6, <1>7, <3>1 DEF PickerInv, WantedIsStaged
    <3>2. CASE c # sending.id
      BY <1>7, <3>2 DEF PickerInv, WantedIsStaged
    <3> QED
      BY <3>1, <3>2
  <2> QED
    BY <1>1, <1>9, <2>1 DEF PickerInv, WantedIsStaged
<1>11. SaveIsWanted'
  <2>1. StillWanted(sending', wanted', targets')
    BY <1>1, <1>3, <1>5 DEF StillWanted
  <2>2. wanted' = wanted /\ targets' = targets /\ queue' = queue
    BY <1>1
  <2>3. \A change \in queue : change.id # sending.id
    BY <1>1 DEF PickerInv, SaveIsWanted
  <2> QED
    BY <1>3, <1>5, <1>7, <2>1, <2>2, <2>3 DEF PickerInv, SaveIsWanted
<1> QED
  BY <1>8, <1>10, <1>11 DEF PickerInv

(* What is answered is no longer staged; what failed, or whose object a page *)
(* replaced, is.                                                             *)
LEMMA BatchAnsweredKeeps ==
  ASSUME PickerInv, NEW delivered \in BOOLEAN, Picker!BatchAnswered(delivered)
  PROVE  PickerInv'
<1> DEFINE id == sending.id
<1>1. /\ sending # None /\ sending' = None
      /\ UNCHANGED <<saving, reported, load, wanted, made, queue>>
  BY DEF Picker!BatchAnswered, Picker!listing
<1>2. \/ targets' = targets
      \/ /\ sending.reply # None /\ sending.reply.kind = "done" /\ sending.attached
         /\ targets' = [targets EXCEPT ![id] = [@ EXCEPT !.initial = sending.member,
                                                        !.revision = sending.reply.revision]]
  BY DEF Picker!BatchAnswered
<1>3. /\ StillWanted(sending, wanted, targets) /\ saving
      /\ \A change \in queue : change.id # id
  BY <1>1 DEF PickerInv, PickerShape, SaveIsWanted
<1>4. CASE targets' = targets
  <2>1. PickerShape' /\ WantedIsStaged'
    BY <1>1, <1>3, <1>4 DEF PickerInv, PickerShape, WantedIsStaged
  <2>2. SaveIsWanted'
    BY <1>1, <1>4 DEF PickerInv, SaveIsWanted
  <2> QED
    BY <2>1, <2>2 DEF PickerInv
<1>5. CASE /\ sending.reply # None /\ sending.reply.kind = "done" /\ sending.attached
           /\ targets' = [targets EXCEPT ![id] = [@ EXCEPT !.initial = sending.member,
                                                          !.revision = sending.reply.revision]]
  <2>1. /\ id \in DOMAIN targets /\ id \in Picker!Collections
        /\ wanted[id] = sending.member /\ made[id] = sending.member
        /\ targets[id].member = sending.member /\ DOMAIN targets[id] = TargetFields
    BY <1>1, <1>3, <1>5 DEF StillWanted, PickerInv, PickerShape, WantedIsStaged, SaveIsWanted
  <2>2. /\ DOMAIN targets' = DOMAIN targets
        /\ targets'[id] = [[targets[id] EXCEPT !.initial = sending.member]
                           EXCEPT !.revision = sending.reply.revision]
        /\ \A c \in DOMAIN targets : c # id => targets'[c] = targets[c]
    BY <1>5, <2>1
  <2>3. /\ DOMAIN targets'[id] = TargetFields
        /\ targets'[id].member = sending.member /\ targets'[id].initial = sending.member
    BY <2>1, <2>2 DEF TargetFields
  <2>4. ~Picker!Dirty(targets'[id])
    BY <2>3 DEF Picker!Dirty
  <2>5. PickerShape'
    BY <1>1, <1>3, <2>2, <2>3 DEF PickerInv, PickerShape
  <2>6. WantedIsStaged'
    <3>1. ~reported'
      BY <1>1, <1>3 DEF PickerInv, PickerShape
    <3>2. \A c \in DOMAIN targets' : Picker!Dirty(targets'[c]) =>
            c # id /\ c \in DOMAIN targets /\ targets'[c] = targets[c]
      BY <2>2, <2>4
    <3>3. wanted' = wanted /\ made' = made
      BY <1>1
    <3> QED
      BY <2>1, <2>2, <3>1, <3>2, <3>3 DEF PickerInv, WantedIsStaged
  <2>7. SaveIsWanted'
    <3>1. ASSUME NEW change \in queue
          PROVE  StillWanted(change, wanted', targets')
      <4>1. StillWanted(change, wanted, targets) /\ change.id # id
        BY <1>3, <3>1 DEF PickerInv, SaveIsWanted
      <4>2. wanted' = wanted
        BY <1>1
      <4> QED
        BY <2>2, <4>1, <4>2 DEF StillWanted
    <3>2. queue' = queue /\ sending' = None
      BY <1>1
    <3> QED
      BY <3>1, <3>2 DEF PickerInv, SaveIsWanted
  <2> QED
    BY <2>5, <2>6, <2>7 DEF PickerInv
<1> QED
  BY <1>2, <1>4, <1>5

LEMMA SaveEndsKeeps ==
  ASSUME PickerInv, Picker!SaveEnds
  PROVE  PickerInv'
<1>1. /\ queue = {} /\ sending = None /\ saving' = FALSE
      /\ reported' = (Picker!Remaining = {})
      /\ UNCHANGED <<queue, sending, wanted, made>>
  BY DEF Picker!SaveEnds
<1>2. SaveIsWanted'
  BY <1>1 DEF SaveIsWanted
<1>3. CASE reported'
  <2>1. targets' = Picker!NoTargets /\ load' = None
    BY <1>3 DEF Picker!SaveEnds
  <2>2. DOMAIN targets' = {}
    BY <2>1 DEF Picker!NoTargets
  <2>3. \A c \in DOMAIN targets : ~Picker!Dirty(targets[c])
    BY <1>1, <1>3 DEF Picker!Remaining
  <2>4. PickerShape' /\ WantedIsStaged'
    BY <1>1, <2>1, <2>2, <2>3 DEF PickerInv, PickerShape, WantedIsStaged
  <2> QED
    BY <1>2, <2>4 DEF PickerInv
<1>4. CASE ~reported'
  <2>1. targets' = targets /\ load' = load
    BY <1>4 DEF Picker!SaveEnds
  <2>2. PickerShape' /\ WantedIsStaged'
    BY <1>1, <1>4, <2>1 DEF PickerInv, PickerShape, WantedIsStaged
  <2> QED
    BY <1>2, <2>2 DEF PickerInv
<1> QED
  BY <1>3, <1>4

LEMMA PickerStarts == Picker!Init => PickerInv
<1> SUFFICES ASSUME Picker!Init PROVE PickerInv
  OBVIOUS
<1>1. /\ targets = Picker!NoTargets /\ load = None /\ queue = {} /\ sending = None
      /\ ~saving /\ ~reported /\ wanted = Picker!Undecided /\ made = Picker!Undecided
  BY DEF Picker!Init
<1>2. DOMAIN targets = {} /\ DOMAIN wanted = Picker!Collections /\ DOMAIN made = Picker!Collections
  BY <1>1 DEF Picker!NoTargets, Picker!Undecided
<1>3. \A c \in Picker!Collections : wanted[c] = None
  BY <1>1 DEF Picker!Undecided
<1> QED
  BY <1>1, <1>2, <1>3 DEF PickerInv, PickerShape, WantedIsStaged, SaveIsWanted

LEMMA PickerStep ==
  ASSUME PickerInv, [Picker!Next]_picker
  PROVE  PickerInv'
<1>1. CASE UNCHANGED <<saving, reported, targets, load, queue, sending, wanted, made>>
  BY <1>1 DEF PickerInv, PickerShape, WantedIsStaged, SaveIsWanted
<1>2. CASE \/ UNCHANGED picker
           \/ \E c \in Picker!Collections : Picker!OthersEdit(c)
  BY <1>1, <1>2 DEF picker, Picker!OthersEdit, Picker!listing
<1>3. CASE Picker!LoadNext \/ Picker!MembershipsServed \/ Picker!CollectionsServed \/ Picker!PageFails
  <2>1. UNCHANGED <<saving, reported, targets, queue, sending, wanted, made>>
    BY <1>3 DEF Picker!LoadNext, Picker!MembershipsServed, Picker!CollectionsServed, Picker!PageFails
  <2>2. load' # None => /\ DOMAIN load' = PageFields
                        /\ load'.revisions # None => DOMAIN load'.revisions \subseteq Picker!Collections
    <3>1. CASE Picker!LoadNext
      BY <3>1 DEF Picker!LoadNext, Picker!PageAfter, PageFields
    <3>2. CASE Picker!MembershipsServed \/ Picker!CollectionsServed
      <4> DEFINE listed == {c \in Picker!Collections : load.after < c /\ c <= load.after + PageSize}
                 members == {c \in Picker!Collections : server[c].member}
                 revisions == [c \in listed |-> server[c].revision]
      <4>1. \/ load' = [load EXCEPT !.members = members]
            \/ load' = [load EXCEPT !.revisions = revisions]
        BY <3>2 DEF Picker!MembershipsServed, Picker!CollectionsServed
      <4>2. /\ DOMAIN load = PageFields
            /\ load.revisions # None => DOMAIN load.revisions \subseteq Picker!Collections
        BY <3>2 DEF Picker!MembershipsServed, Picker!CollectionsServed, PickerInv, PickerShape
      <4>3. DOMAIN revisions \subseteq Picker!Collections
        OBVIOUS
      <4> HIDE DEF members, revisions
      <4>4. DOMAIN load' = PageFields /\ load'.revisions \in {load.revisions, revisions}
        BY <4>1, <4>2 DEF PageFields
      <4> QED
        BY <4>2, <4>3, <4>4
    <3>3. CASE Picker!PageFails
      BY <3>3 DEF Picker!PageFails
    <3> QED
      BY <1>3, <3>1, <3>2, <3>3
  <2>3. DOMAIN targets' \subseteq Picker!Collections /\ \A c \in DOMAIN targets' : DOMAIN targets'[c] = TargetFields
    BY <2>1 DEF PickerInv, PickerShape
  <2> QED
    BY <2>1, <2>2, <2>3, StagedKept
<1> QED
  BY <1>2, <1>3, OpenKeeps, PageArrivesKeeps, ToggleKeeps, SaveKeeps, RetryKeeps, SendKeeps,
     BatchServedKeeps, BatchAnsweredKeeps, SaveEndsKeeps
     DEF Picker!Next

LEMMA PickerInvSuffices == PickerInv => Picker!SuccessIsTrue
BY DEF PickerInv, WantedIsStaged, Picker!SuccessIsTrue

(* When the dialog reports success, every change that the viewer staged and *)
(* did not take back has been made: none was refused, lost or dropped,      *)
(* whatever pages arrived during the save and whatever others changed.      *)
THEOREM SuccessIsAlwaysTrue ==
  /\ Picker!Spec => []Picker!SuccessIsTrue
  /\ PagesSpec => []SuccessIsTrue
<1>1. Picker!Spec => []Picker!SuccessIsTrue
  <2>1. PickerInv /\ [Picker!Next]_(Picker!vars) => PickerInv'
    BY PickerStep DEF Picker!vars, picker
  <2> QED
    BY PickerStarts, <2>1, PickerInvSuffices, PTL DEF Picker!Spec
<1>2. PagesSpec => []SuccessIsTrue
  <2> DEFINE Inv == part = "picker" => PickerInv
  <2>1. PagesInit => Inv
    BY PickerStarts DEF PagesInit
  <2>2. Inv /\ [PagesNext]_pagesVars => Inv'
    <3> SUFFICES ASSUME Inv, [PagesNext]_pagesVars, part' = "picker"
                 PROVE  PickerInv'
      OBVIOUS
    <3>1. part = "picker" /\ [Picker!Next]_picker
      BY DEF PagesNext, pagesVars
    <3> QED
      BY <3>1, PickerStep
  <2>3. Inv => SuccessIsTrue
    BY PickerInvSuffices DEF SuccessIsTrue
  <2> QED
    BY <2>1, <2>2, <2>3, PTL DEF PagesSpec
<1> QED
  BY <1>1, <1>2
=============================================================================
