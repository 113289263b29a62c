----------------------------- MODULE ItemEditor -----------------------------
(***************************************************************************)
(* The editor of one catalogue item (KanvasItemEditor in                   *)
(* kanvas-item-editor.js): a form whose numbers, locks and eligible        *)
(* parents depend on the kind that is selected, its save, the metadata     *)
(* match that saves first, the removal of the item, and the confirmation   *)
(* without which unsaved changes are not discarded.                        *)
(*                                                                         *)
(* The search for a match, artwork, collections and playback defaults are  *)
(* left out.  A save that succeeds reloads the page.                       *)
(***************************************************************************)
EXTENDS Naturals

CONSTANTS Kinds, Fields,
          FieldKinds,    \* for each lockable field the kinds that show its lock
          Eligible,      \* for each kind the parents an item of it may have
          MaxActs,       \* bound: what the administrator does
          None

VARIABLES
  item,       \* the item as it was loaded
  dialog,     \* "closed", "loading", "failed", "open", or "gone" with the page
  form,       \* the kind, the locks that are checked, the parents and the parent
  locked,     \* lockedMetadataFields
  loads,      \* requests for the parents of a kind that are on their way
  latest,     \* parentChoiceLoad
  enabled,    \* the save button
  dirty, saving,
  submits,    \* saves of the form on their way
  match,      \* the match on its way: "save" before it, "apply"
  asking,     \* what the confirmation is about
  removal,    \* the removal of the item is on its way
  sent,       \* the last form that was sent
  wanted,     \* the locks as the administrator last set them
  acts        \* counts what MaxActs bounds

edits == <<form, locked, loads, latest, enabled, wanted>>
saves == <<saving, submits, match, removal, sent>>
vars == <<item, dialog, edits, dirty, saves, asking, acts>>

ParentKinds == {k \in Kinds : Eligible[k] # {}}
Locks(kind) == {f \in Fields : kind \in FieldKinds[f]}
Open == dialog = "open" /\ asking = None
Act == acts < MaxActs /\ acts' = acts + 1

-----------------------------------------------------------------------------
(* Opening and closing. *)

OpenDialog ==
  /\ Act /\ dialog = "closed"
  /\ dialog' = "loading"
  /\ UNCHANGED <<item, edits, dirty, saves, asking>>

\* The form shows the item, with the parents its kind may have.
Rendered(delivered) ==
  /\ dialog = "loading"
  /\ IF delivered
     THEN /\ dialog' = "open" /\ dirty' = FALSE /\ enabled' = TRUE
          /\ form' = [kind |-> item.kind, checks |-> item.locks \cap Locks(item.kind),
                      parents |-> IF item.kind \in ParentKinds THEN item.kind ELSE None,
                      parent |-> item.parent]
          /\ locked' = item.locks /\ wanted' = item.locks
          /\ UNCHANGED <<loads, latest>>
     ELSE dialog' = "failed" /\ UNCHANGED <<dirty, edits>>
  /\ UNCHANGED <<item, saves, asking, acts>>

Closed == dialog' = "closed" /\ dirty' = FALSE /\ saving' = FALSE

Close ==
  /\ Act /\ asking = None /\ dialog \in {"open", "loading", "failed"} /\ ~saving
  /\ IF dirty THEN asking' = "close" /\ UNCHANGED <<dialog, dirty, saving>>
     ELSE Closed /\ UNCHANGED asking
  /\ UNCHANGED <<item, edits, submits, match, removal, sent>>

Remove ==
  /\ Act /\ Open /\ ~saving
  /\ asking' = IF dirty THEN "discard" ELSE "remove"
  /\ UNCHANGED <<item, dialog, edits, dirty, saves>>

Answer(yes) ==
  /\ asking # None
  /\ CASE asking = "close" /\ yes ->
            Closed /\ asking' = None /\ UNCHANGED removal
       [] asking = "discard" /\ yes ->
            asking' = "remove" /\ UNCHANGED <<dialog, dirty, saving, removal>>
       [] asking = "remove" /\ yes ->
            asking' = None /\ removal' = TRUE /\ saving' = TRUE /\ UNCHANGED <<dialog, dirty>>
       [] OTHER -> asking' = None /\ UNCHANGED <<dialog, dirty, saving, removal>>
  /\ UNCHANGED <<item, edits, submits, match, sent, acts>>

-----------------------------------------------------------------------------
(* The form. *)

SetLock(f, on) ==
  /\ Act /\ Open /\ f \in Locks(form.kind) /\ (f \in form.checks) # on
  /\ form' = [form EXCEPT !.checks = IF on THEN @ \cup {f} ELSE @ \ {f}]
  /\ wanted' = IF on THEN wanted \cup {f} ELSE wanted \ {f}
  /\ dirty' = TRUE
  /\ UNCHANGED <<item, dialog, locked, loads, latest, enabled, saves, asking>>

ChooseParent(p) ==
  /\ Act /\ Open /\ form.parents \in Kinds /\ p \in Eligible[form.parents]
  /\ form' = [form EXCEPT !.parent = p]
  /\ dirty' = TRUE
  /\ UNCHANGED <<item, dialog, locked, loads, latest, enabled, wanted, saves, asking>>

ChecksOnly == form.checks

\* The locks of fields that the kind does not show stay as they were.
LocksOfForm == (locked \ Locks(form.kind)) \cup form.checks

\* A parent that the new kind may not have is not selected.
Selected(parent, kind) == IF parent \in Eligible[kind] THEN parent ELSE None

ChangeKind(kind) ==
  /\ Act /\ Open /\ kind # form.kind
  /\ locked' = LocksOfForm
  /\ latest' = latest + 1
  /\ dirty' = TRUE
  /\ LET parent == IF form.parents \in Kinds THEN form.parent ELSE item.parent
         shown == [kind |-> kind, checks |-> LocksOfForm \cap Locks(kind), parents |-> None, parent |-> None]
     IN  IF kind \in ParentKinds
         THEN /\ form' = [shown EXCEPT !.parents = "loading"]
              /\ enabled' = FALSE
              /\ loads' = loads \cup {[token |-> latest + 1, kind |-> kind, parent |-> parent]}
         ELSE /\ form' = shown /\ enabled' = TRUE
              /\ UNCHANGED loads
  /\ UNCHANGED <<item, dialog, wanted, saves, asking>>

AnyLoad(l) == TRUE
LatestLoad(l) == l.token = latest

\* A request that fails leaves no parent to choose.  A form that was rendered
\* anew in the meantime is not the one the answer is for.
ParentsAnswered(l, delivered) ==
  /\ l \in loads
  /\ loads' = loads \ {l}
  /\ IF LatestLoad(l) /\ dialog = "open" /\ form.parents = "loading"
     THEN /\ form' = [form EXCEPT !.parents = l.kind,
                                  !.parent = IF delivered THEN Selected(l.parent, l.kind) ELSE None]
          /\ enabled' = TRUE
     ELSE UNCHANGED <<form, enabled>>
  /\ UNCHANGED <<item, dialog, locked, latest, wanted, dirty, saves, asking, acts>>

-----------------------------------------------------------------------------
(* Saving. *)

\* The parent is left out of what is sent while parents are being loaded.
Payload ==
  [kind |-> form.kind, locks |-> LocksOfForm,
   parent |-> IF form.parents \in Kinds THEN form.parent ELSE None]

Valid == form.parents \in Kinds => form.parent # None

\* The save button is all that keeps a second save from being sent.
Submit ==
  /\ Act /\ Open /\ enabled /\ Valid /\ submits < 2
  /\ enabled' = FALSE /\ saving' = TRUE
  /\ submits' = submits + 1 /\ sent' = Payload
  /\ UNCHANGED <<item, dialog, form, locked, loads, latest, wanted, dirty, match, removal, asking>>

ApplyMatch ==
  /\ Act /\ Open /\ ~saving /\ Valid /\ match = None
  /\ saving' = TRUE
  /\ IF dirty THEN match' = "save" /\ sent' = Payload
     ELSE match' = "apply" /\ UNCHANGED sent
  /\ UNCHANGED <<item, dialog, edits, dirty, submits, removal, asking>>

Gone == dialog' = "gone" /\ asking' = None

Submitted(done) ==
  /\ submits > 0 /\ dialog # "gone"
  /\ submits' = submits - 1
  /\ IF done THEN Gone /\ UNCHANGED <<saving, enabled>>
     ELSE saving' = FALSE /\ enabled' = TRUE /\ UNCHANGED <<dialog, asking>>
  /\ UNCHANGED <<item, form, locked, loads, latest, wanted, dirty, match, removal, sent, acts>>

Matched(done) ==
  /\ match # None /\ dialog # "gone"
  /\ CASE done /\ match = "save" ->
            match' = "apply" /\ dirty' = FALSE /\ UNCHANGED <<dialog, asking, saving>>
       [] done /\ match = "apply" ->
            match' = None /\ Gone /\ UNCHANGED <<dirty, saving>>
       [] OTHER ->
            match' = None /\ saving' = FALSE /\ UNCHANGED <<dialog, asking, dirty>>
  /\ UNCHANGED <<item, edits, submits, removal, sent, acts>>

Removed(done) ==
  /\ removal /\ dialog # "gone"
  /\ removal' = FALSE
  /\ IF done THEN Gone /\ UNCHANGED saving
     ELSE saving' = FALSE /\ UNCHANGED <<dialog, asking>>
  /\ UNCHANGED <<item, edits, dirty, submits, match, sent, acts>>

-----------------------------------------------------------------------------
Init ==
  /\ item \in {[kind |-> k, parent |-> p, locks |-> ls] :
                 k \in Kinds, p \in (UNION {Eligible[k] : k \in Kinds}) \cup {None}, ls \in SUBSET Fields}
  /\ item.parent \in Eligible[item.kind] \/ (item.kind \notin ParentKinds /\ item.parent = None)
  /\ dialog = "closed" /\ form = None /\ locked = {} /\ loads = {} /\ latest = 0
  /\ enabled = FALSE /\ dirty = FALSE /\ saving = FALSE
  /\ submits = 0 /\ match = None /\ asking = None /\ removal = FALSE
  /\ sent = None /\ wanted = {} /\ acts = 0

Next ==
  \/ OpenDialog \/ Close \/ Remove \/ Submit \/ ApplyMatch
  \/ \E yes \in BOOLEAN : Rendered(yes) \/ Answer(yes) \/ Submitted(yes) \/ Matched(yes) \/ Removed(yes)
  \/ \E f \in Fields, on \in BOOLEAN : SetLock(f, on)
  \/ \E kind \in Kinds : ChangeKind(kind) \/ \E p \in Eligible[kind] : ChooseParent(p)
  \/ \E l \in loads, delivered \in BOOLEAN : ParentsAnswered(l, delivered)

Spec == Init /\ [][Next]_vars

-----------------------------------------------------------------------------
TypeOK ==
  /\ dialog \in {"closed", "loading", "failed", "open", "gone"}
  /\ locked \subseteq Fields /\ wanted \subseteq Fields
  /\ submits \in 0 .. 2 /\ match \in {"save", "apply", None}
  /\ asking \in {"close", "discard", "remove", None}
  /\ {enabled, dirty, saving, removal} \subseteq BOOLEAN

\* However the kind was changed while parents were being loaded: a parent that is
\* sent is one that an item of the kind sent with it may have.
SavedParentFits == sent # None => sent.parent \in Eligible[sent.kind] \cup {None}

\* A lock that was set or cleared while one kind was selected is sent as it was
\* left, whatever kinds were selected since.
LocksAreKept == (dialog = "open" => wanted = LocksOfForm)
=============================================================================
