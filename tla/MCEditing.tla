------------------------------ MODULE MCEditing ------------------------------
(***************************************************************************)
(* Three components that edit and share no state here, checked in one run: *)
(* the watch orders of the server (WatchOrder), the page that edits a      *)
(* draft of an order (OrderEditor) and the one that edits an item          *)
(* (ItemEditor).  A behaviour exercises one of them.                       *)
(***************************************************************************)
EXTENDS MCWatchOrder

CONSTANTS Sources, EntryLimit, HistoryLimit, EntryPage, MaxDrafts,
          Kinds, Fields, MaxSteps, None

VARIABLES
  part, acts,
  server, ids, baseline, draftRevision, selected, expanded, history, preview,
  conflict, reviewed, seen, request,
  item, dialog, form, locked, loads, latest, enabled, dirty, saving, submits, match,
  asking, removal, sent, wanted

(* Two episodes that follow one another and a film. *)
Titles == {1, 2, 3}
MCSources == {<<1, 2>>, <<3>>, <<3, 1>>}

(* A movie has no parent, a season one, an extra either of two. *)
MCEligible == [k \in Kinds |-> CASE k = "season" -> {1} [] k = "extra" -> {1, 2} [] OTHER -> {}]
MCFieldKinds == [f \in Fields |-> IF f = "title" THEN Kinds ELSE {"season"}]

Draft == INSTANCE OrderEditor
  WITH Entries <- Titles, Consecutive <- {<<1, 2>>}, MaxActs <- MaxDrafts,
       MaxRevision <- 3, revision <- draftRevision
Form == INSTANCE ItemEditor
  WITH FieldKinds <- MCFieldKinds, Eligible <- MCEligible, MaxActs <- MaxSteps

\* What stands for no kind, no title and for parents on their way is none of
\* them; no source names a title twice.
ASSUME EditingAssumption ==
  /\ None \notin Kinds /\ "loading" \notin Kinds /\ None # "loading" /\ None \notin Titles
  /\ EntryLimit \in Nat /\ EntryPage \in Nat \ {0} /\ Sources \subseteq Draft!Orders

orderVars == <<catalogue, position, revision, editor, answered>>
draftVars == <<server, ids, baseline, draftRevision, selected, expanded, history, preview,
               conflict, reviewed, seen, request>>
formVars == <<item, dialog, form, locked, loads, latest, enabled, dirty, saving, submits,
              match, asking, removal, sent, wanted>>
editingVars == <<part, acts, orderVars, draftVars, formVars>>

NoOrder == Init /\ Entries = {}

NoDraft ==
  /\ server = None /\ ids = None /\ baseline = None /\ draftRevision = None
  /\ selected = None /\ expanded = None /\ history = None /\ preview = None
  /\ conflict = None /\ reviewed = None /\ seen = None /\ request = None

NoForm ==
  /\ item = None /\ dialog = None /\ form = None /\ locked = None /\ loads = None
  /\ latest = None /\ enabled = None /\ dirty = None /\ saving = None /\ submits = None
  /\ match = None /\ asking = None /\ removal = None /\ sent = None /\ wanted = None

EditingInit ==
  \/ part = "order" /\ Init /\ acts = None /\ NoDraft /\ NoForm
  \/ part = "draft" /\ Draft!Init /\ NoOrder /\ NoForm
  \/ part = "form" /\ Form!Init /\ NoOrder /\ NoDraft

EditingNext ==
  /\ UNCHANGED part
  /\ \/ part = "order" /\ Next /\ UNCHANGED <<acts, draftVars, formVars>>
     \/ part = "draft" /\ Draft!Next /\ UNCHANGED <<orderVars, formVars>>
     \/ part = "form" /\ Form!Next /\ UNCHANGED <<orderVars, draftVars>>

EditingSpec == EditingInit /\ [][EditingNext]_editingVars

-----------------------------------------------------------------------------
(* A save that is accepted replaces the order that the viewer was shown for *)
(* the revision it names (OrderEditor).                                     *)
SavesReplaceWhatWasSeen ==
  [][part = "draft" /\ Draft!SaveServed /\ server' # server => server.ids = seen]_editingVars

(* A generated order that is merged into the draft keeps every entry that   *)
(* the draft has by then (OrderEditor).                                     *)
MergeKeepsEntries ==
  [][part = "draft" /\ Draft!UsePreview /\ preview.apply = "merge"
       => Draft!Set(ids) \subseteq Draft!Set(ids')]_editingVars

(* A parent that is sent is one that an item of the kind sent with it may   *)
(* have (ItemEditor).                                                       *)
SavedParentFits == part = "form" => Form!SavedParentFits

(* A lock is sent as it was left, whatever kinds were selected since        *)
(* (ItemEditor).                                                            *)
LocksAreKept == part = "form" => Form!LocksAreKept
=============================================================================
