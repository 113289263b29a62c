--------------------------- MODULE MCBrowserPages ---------------------------
(***************************************************************************)
(* Five parts of the browser that share no state here, checked in one run: *)
(* the administration (Administration), the tracks of the player           *)
(* (TrackSelection), its controls (PlayerControls), the editing of a       *)
(* collection (CollectionEditing) and the dialog that puts an item into    *)
(* collections (CollectionPicker).  A behaviour exercises one of them, and *)
(* two sets of interchangeable values serve as items and names in one part *)
(* and as audio streams and looks of subtitles in another.                 *)
(***************************************************************************)
EXTENDS Administration, Sequences, FiniteSets, TLC

CONSTANTS LastEntry, AudioStreams, Looks, MaxOffset, MaxChanges, Full,
          Items, Names, LookupLimit, MaxEdits, MaxRevision,
          LastCollection, PageSize, MaxRows, MaxOpens, MaxToggles

VARIABLES
  part,
  entry, selected, pending, timer, chain, drawn, heard, told, saved, changes,
  menus, active, tooltip, hidden, hideTimer, paused, screen, sound,
  history, context, undo, enabled, controlsTimer, controlsLoad, mutation, builder, save, edits,
  server, targets, rows, conflicts, cursor, loaded, load, queue, sending, saving,
  reported, wanted, made, opens, toggles

CueEnds == {1, 3}
Symmetry == Permutations(AudioStreams) \cup Permutations(Looks)

Tracks == INSTANCE TrackSelection
Controls == INSTANCE PlayerControls
Collection == INSTANCE CollectionEditing
  WITH timer <- controlsTimer, load <- controlsLoad, acts <- edits, MaxActs <- MaxEdits
Picker == INSTANCE CollectionPicker WITH told <- reported

ASSUME PagesAssumption ==
  /\ LastEntry \in Nat /\ MaxOffset \in Nat
  /\ None \notin {"webvtt", "ass"}
  /\ None \notin [entry : Tracks!Entries, selection : Tracks!Selections]
  /\ None \notin [revision : Nat, item : Items, added : BOOLEAN, artwork : BOOLEAN]

tracks == <<entry, selected, pending, timer, chain, drawn, heard, told, saved, changes>>
controls == <<menus, active, tooltip, hidden, hideTimer, paused, screen, sound>>
collection == <<history, context, undo, enabled, controlsTimer, controlsLoad, mutation,
                builder, save, edits>>
picker == <<server, targets, rows, conflicts, cursor, loaded, load, queue, sending, saving,
            reported, wanted, made, opens, toggles>>
administration == vars
pagesVars == <<part, administration, tracks, controls, collection, picker>>

NoAdministration ==
  Init /\ section = "jobs" /\ ~page.visible

NoTracks ==
  /\ entry = None /\ selected = None /\ pending = None /\ timer = None /\ chain = None
  /\ drawn = None /\ heard = None /\ told = None /\ saved = None /\ changes = None

NoControls ==
  /\ menus = None /\ active = None /\ tooltip = None /\ hidden = None
  /\ hideTimer = None /\ paused = None /\ screen = None /\ sound = None

NoCollection ==
  /\ history = None /\ context = None /\ undo = None /\ enabled = None
  /\ controlsTimer = None /\ controlsLoad = None /\ mutation = None /\ builder = None
  /\ save = None /\ edits = None

NoPicker ==
  /\ server = None /\ targets = None /\ rows = None /\ conflicts = None /\ cursor = None
  /\ loaded = None /\ load = None /\ queue = None /\ sending = None /\ saving = None
  /\ reported = None /\ wanted = None /\ made = None /\ opens = None /\ toggles = None

PagesInit ==
  \/ part = "administration" /\ Init /\ NoTracks /\ NoControls /\ NoCollection /\ NoPicker
  \/ part = "tracks" /\ Tracks!Init /\ NoAdministration /\ NoControls /\ NoCollection /\ NoPicker
  \/ part = "controls" /\ Controls!Init /\ NoAdministration /\ NoTracks /\ NoCollection /\ NoPicker
  \/ part = "collection" /\ Collection!Init /\ NoAdministration /\ NoTracks /\ NoControls /\ NoPicker
  \/ part = "picker" /\ Picker!Init /\ NoAdministration /\ NoTracks /\ NoControls /\ NoCollection

PagesNext ==
  /\ UNCHANGED part
  /\ \/ part = "administration" /\ Next /\ UNCHANGED <<tracks, controls, collection, picker>>
     \/ part = "tracks" /\ Tracks!Next /\ UNCHANGED <<administration, controls, collection, picker>>
     \/ part = "controls" /\ Controls!Next /\ UNCHANGED <<administration, tracks, collection, picker>>
     \/ part = "collection" /\ Collection!Next /\ UNCHANGED <<administration, tracks, controls, picker>>
     \/ part = "picker" /\ Picker!Next /\ UNCHANGED <<administration, tracks, controls, collection>>

PagesSpec == PagesInit /\ [][PagesNext]_pagesVars

\* Bounds on how the run begins: one of two titles is a member of the collection,
\* the subtitles of an entry to come are not shifted, and the item of the picker
\* is in no collection (the picker treats adding and removing alike).
BoundedInit ==
  /\ PagesInit
  /\ part = "collection" => Cardinality(history[1].members) = 1
  /\ part = "tracks" => \A e \in Tracks!Entries : e > 0 => saved[e].timing = 0
  /\ part = "picker" => \A c \in Picker!Collections : ~server[c].member

BoundedSpec == BoundedInit /\ [][PagesNext]_pagesVars

-----------------------------------------------------------------------------
\* Once nothing is on its way the server holds what the viewer selected, or the
\* viewer has been told that it was not saved (TrackSelection).
SelectionSavedOrTold == part = "tracks" => Tracks!SelectionSavedOrTold

\* Once nothing is on its way the viewer hears the stream selected last, or has
\* been told that the change failed (TrackSelection).
AudioFollowsSelection == part = "tracks" => Tracks!AudioFollowsSelection

\* The selected subtitles are drawn at the selected offset (TrackSelection).
SubtitlesFollowSelection == part = "tracks" => Tracks!SubtitlesFollowSelection

\* Neither a popup nor the tooltip is left without its controls (PlayerControls).
MenusStayWithControls == part = "controls" => Controls!MenusStayWithControls

\* What the collection's page knows of members and artwork is not older than the
\* revision it sends with its changes (CollectionEditing).
ContextIsNotOlder == part = "collection" => Collection!ContextIsNotOlder

\* An undo that is accepted leaves the collection as it was before the change it
\* undoes (CollectionEditing).
UndoRestores == Collection!UndoRestores

\* When the picker reports success, it has made every change that the viewer
\* staged (CollectionPicker).
SuccessIsTrue == part = "picker" => Picker!SuccessIsTrue
=============================================================================
