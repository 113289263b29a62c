--------------------------- MODULE PlayerControls ---------------------------
(***************************************************************************)
(* The player's surface (kanvas-playback.js): its four popup menus, the    *)
(* tooltip, the controls that hide themselves while a film plays, what     *)
(* changes in fullscreen, and the volume, which goes beyond the media      *)
(* element's own through an audio graph that the browser may refuse.       *)
(***************************************************************************)
EXTENDS Integers, FiniteSets

CONSTANTS Full,  \* steps of the standard volume, at least one; the boosted has twice as many
          None

VARIABLES
  menus,    \* the popups that are not hidden
  active,   \* activePlayerPopupAction
  tooltip,  \* the tooltip is shown
  hidden,   \* the controls are hidden
  hideTimer,    \* playerControlsHideTimer is pending
  paused,   \* video.paused
  screen,   \* document.fullscreenElement, the clock, the frame's axis and alignment
  sound     \* the volume as shown, the media element's own and the audio graph's

surface == <<menus, active, tooltip, hidden, hideTimer>>
vars == <<menus, active, tooltip, hidden, hideTimer, paused, screen, sound>>

Menus == {"menu", "audio", "subtitles", "overflow"}
Alignments == {"centred", "start", "end"}
Axes == {"horizontal", "vertical", None}
Boosted == 2 * Full
Least(a, b) == IF a < b THEN a ELSE b
Greatest(a, b) == IF a > b THEN a ELSE b

-----------------------------------------------------------------------------
(* Popups, tooltip and the controls that hide. *)

CanHide(isPaused, open, tip) == ~isPaused /\ open = {} /\ ~tip

RestartTimerOnly ==
  /\ hidden' = hidden
  /\ hideTimer' = CanHide(paused', menus', tooltip')

\* Shows the controls for the menus, tooltip and pause of the next state.
ShowControls ==
  /\ hidden' = FALSE
  /\ hideTimer' = CanHide(paused', menus', tooltip')

Dismissed == menus' = {} /\ active' = None /\ tooltip' = FALSE

\* A second click on the control of an open menu closes it; the context menu
\* under the pointer is moved, not closed.
OpenPopup(m, toggle) ==
  /\ IF toggle /\ m \in menus THEN menus' = {} /\ active' = None
                              ELSE menus' = {m} /\ active' = m
  /\ tooltip' = FALSE
  /\ UNCHANGED <<paused, screen, sound>>
  /\ ShowControls

DismissPopups ==
  /\ Dismissed
  /\ UNCHANGED <<paused, screen, sound>>
  /\ ShowControls

\* Focus leaving the popups, and a window that changes size under one.
LosePopup ==
  /\ menus # {}
  /\ DismissPopups

ShowTooltip ==
  /\ tooltip' = TRUE
  /\ UNCHANGED <<menus, active, paused, screen, sound>>
  /\ ShowControls

HideTooltip ==
  /\ tooltip /\ tooltip' = FALSE
  /\ UNCHANGED <<menus, active, paused, screen, sound>>
  /\ ShowControls

PointerMoves ==
  /\ UNCHANGED <<menus, active, tooltip, paused, screen, sound>>
  /\ ShowControls

HideTimerFires ==
  /\ hideTimer /\ hideTimer' = FALSE
  /\ hidden' = (hidden \/ CanHide(paused, menus, tooltip))
  /\ UNCHANGED <<menus, active, tooltip, paused, screen, sound>>

PauseOrPlay ==
  /\ paused' = ~paused
  /\ UNCHANGED <<menus, active, tooltip, screen, sound>>
  /\ ShowControls

\* A new source pauses the element without the event.
NewSource ==
  /\ paused' = TRUE
  /\ UNCHANGED <<surface, screen, sound>>

-----------------------------------------------------------------------------
(* Fullscreen. *)

Frame(axis, frame) ==
  IF axis = None THEN [axis |-> None, alignment |-> "centred"]
  ELSE [axis |-> axis, alignment |-> IF axis = frame.axis THEN frame.alignment ELSE "centred"]

IsFullscreen(element) == element # None

\* Only the card can leave room beside the picture, and shows the time of day.
FrameAxis(element, axis) == IF element = "card" THEN axis ELSE None
Clock(element) == element = "card"

\* axis is where the window leaves room beside the picture, if anywhere.
FullscreenChange(element, axis) ==
  /\ screen' = [element |-> element, clock |-> Clock(element),
                frame |-> Frame(FrameAxis(element, axis), screen.frame)]
  /\ UNCHANGED <<menus, active, tooltip, paused, sound>>
  /\ IF IsFullscreen(element) \/ IsFullscreen(screen.element) THEN ShowControls
                                                            ELSE UNCHANGED <<hidden, hideTimer>>

Resize(axis) ==
  /\ screen' = [screen EXCEPT !.frame = Frame(FrameAxis(screen.element, axis), @)]
  /\ UNCHANGED <<paused, sound>>
  /\ IF menus # {} THEN Dismissed /\ ShowControls ELSE UNCHANGED surface

AlignFrame(alignment) ==
  /\ screen.frame.axis # None
  /\ screen' = [screen EXCEPT !.frame.alignment = alignment]
  /\ UNCHANGED <<menus, active, tooltip, paused, sound>>
  /\ ShowControls

-----------------------------------------------------------------------------
(* Volume. *)

MaximumVolume(boost) == IF boost THEN Boosted ELSE Full

Gain(graph, volume, gain) == IF graph = "ready" THEN Greatest(volume, Full) ELSE gain

SetVolume(s, value) ==
  LET volume == Least(value, MaximumVolume(s.boost))
  IN  [s EXCEPT !.volume = volume, !.native = Least(volume, Full), !.gain = Gain(s.graph, volume, @),
                !.audible = IF volume > 0 THEN volume ELSE @,
                !.muted = volume = 0]

Silent(s) == s.muted \/ s.volume = 0

ToggleMute(s) ==
  IF Silent(s) THEN [(IF s.volume = 0 THEN SetVolume(s, s.audible) ELSE s) EXCEPT !.muted = FALSE]
  ELSE [s EXCEPT !.audible = s.volume, !.muted = TRUE]

SetBoost(s, on) ==
  LET t == [s EXCEPT !.boost = on]
  IN  IF ~on /\ s.volume > Full THEN SetVolume(t, Full)
      ELSE [t EXCEPT !.gain = Gain(s.graph, s.volume, @)]

\* The graph is built once for the element; the browser may refuse to build it.
BuiltGraph(s, allowed) ==
  IF s.graph = "none" /\ allowed
    THEN [s EXCEPT !.graph = "ready", !.gain = Greatest(s.volume, Full)] ELSE s

\* The element enters the page with the boost wanted or not.
Boosting(s, on, allowed) ==
  LET built == IF on THEN BuiltGraph(s, allowed) ELSE s
  IN  SetBoost(built, on /\ built.graph = "ready")

\* The variables start anew from the graph that the element still has.
Restored(s) ==
  LET value == IF s.graph = "ready" /\ s.gain > Full THEN s.gain ELSE s.native
      volume == Least(value, MaximumVolume(s.boost))
  IN  [s EXCEPT !.volume = volume, !.audible = IF volume > 0 THEN volume ELSE Full]

MoveVolume(value) ==
  /\ sound' = SetVolume(sound, value)
  /\ UNCHANGED <<menus, active, tooltip, paused, screen>>
  /\ ShowControls

Mute ==
  /\ sound' = ToggleMute(sound)
  /\ Dismissed /\ UNCHANGED <<paused, screen>>
  /\ ShowControls

ChangeBoost(on, allowed) ==
  /\ sound' = Boosting(sound, on, allowed)
  /\ Dismissed /\ UNCHANGED <<paused, screen>>
  /\ ShowControls

\* The browser's own controls move the element's volume; the event comes later.
NativeVolume(value) ==
  /\ sound' = [sound EXCEPT !.native = value, !.changed = TRUE]
  /\ UNCHANGED <<surface, paused, screen>>

VolumeChange ==
  /\ sound.changed
  /\ LET expected == Least(sound.volume, Full)
         volume == IF sound.native # expected THEN sound.native ELSE sound.volume
     IN  sound' = [sound EXCEPT !.changed = FALSE, !.volume = volume,
                     !.gain = Gain(sound.graph, volume, @),
                     !.audible = IF ~sound.muted /\ volume > 0 THEN volume ELSE @]
  /\ UNCHANGED <<surface, paused, screen>>

\* The element is taken out of the page and put back: the graph stays, the
\* menus stay as they were, the variables start anew.
Reconnect(allowed) ==
  /\ sound' = Boosting(Restored(sound), sound.boost, allowed)
  /\ active' = None
  /\ screen' = [screen EXCEPT !.clock = FALSE,
                  !.frame = Frame(FrameAxis(screen.element, @.axis), [axis |-> None, alignment |-> "centred"])]
  /\ UNCHANGED <<menus, tooltip, paused>>
  /\ ShowControls

-----------------------------------------------------------------------------
Init ==
  /\ menus = {} /\ active = None /\ tooltip = FALSE
  /\ paused = TRUE /\ hidden = FALSE /\ hideTimer = FALSE
  /\ screen = [element |-> None, clock |-> FALSE, frame |-> [axis |-> None, alignment |-> "centred"]]
  /\ \E on, allowed \in BOOLEAN :
       LET plain == [volume |-> Full, audible |-> Full, native |-> Full, muted |-> FALSE,
                     boost |-> on, graph |-> "none", gain |-> Full, changed |-> FALSE]
       IN  sound = Boosting(plain, on, allowed)

Next ==
  \/ \E m \in Menus : OpenPopup(m, TRUE)
  \/ OpenPopup("menu", FALSE) \/ DismissPopups \/ LosePopup
  \/ ShowTooltip \/ HideTooltip \/ PointerMoves \/ HideTimerFires \/ PauseOrPlay \/ NewSource
  \/ \E element \in {"card", "video", None}, axis \in Axes : FullscreenChange(element, axis)
  \/ \E axis \in Axes : Resize(axis)
  \/ \E alignment \in Alignments : AlignFrame(alignment)
  \/ \E value \in 0 .. MaximumVolume(sound.boost) : MoveVolume(value)
  \/ Mute \/ VolumeChange
  \/ \E on, allowed \in BOOLEAN : ChangeBoost(on, allowed)
  \/ \E value \in 0 .. Full : NativeVolume(value)
  \/ \E allowed \in BOOLEAN : Reconnect(allowed)

Spec == Init /\ [][Next]_vars

-----------------------------------------------------------------------------
TypeOK ==
  /\ menus \in SUBSET Menus /\ active \in Menus \cup {None}
  /\ {tooltip, hidden, hideTimer, paused} \subseteq BOOLEAN
  /\ screen \in [element : {"card", "video", None}, clock : BOOLEAN,
                 frame : [axis : Axes, alignment : Alignments]]
  /\ sound \in [volume : 0 .. Boosted, audible : 1 .. Boosted, native : 0 .. Full, muted : BOOLEAN,
                boost : BOOLEAN, graph : {"none", "ready"}, gain : Full .. Boosted, changed : BOOLEAN]

\* One popup at a time, also when the element was taken out and put back with
\* one open, and neither it nor the tooltip is left without its controls.
MenusStayWithControls ==
  /\ Cardinality(menus) <= 1
  /\ active # None => menus = {active}
  /\ hidden => menus = {} /\ ~tooltip
=============================================================================
