-------------------------- MODULE CollectionEditing --------------------------
(***************************************************************************)
(* Editing one collection in the browser: collection mode                  *)
(* (kanvas-collection-mode.js) adds and removes titles one at a time and   *)
(* undoes the last change, the builder (kanvas.js) edits the details, both *)
(* on the same page and against the collection's revision, while others    *)
(* edit the collection too.                                                *)
(*                                                                         *)
(* Requests and answers are steps of their own, and an answer may be lost  *)
(* after the change was made.  A lookup reads the collection's row and its *)
(* members one after the other, without the writer lock.  Inherited        *)
(* memberships, which the mode only displays, and the paging of the member *)
(* list are left out.                                                      *)
(***************************************************************************)
EXTENDS Integers, Sequences, FiniteSets

CONSTANTS Items, Names,
          LookupLimit,   \* items per lookup
          MaxRevision,   \* bound: changes of the collection
          MaxActs,       \* bound: what the viewer does, saving apart
          None

VARIABLES
  history,    \* the collection at each revision
  context,    \* contexts.get(collection) of the mode
  undo,
  enabled,
  timer,      \* a load of the controls is scheduled
  load,       \* loadControls is running
  mutation,   \* busy: the change on its way
  builder,    \* the builder's revision, initial details, fields and conflict
  save,       \* saving: the builder's change on its way
  acts        \* counts what MaxActs bounds

vars == <<history, context, undo, enabled, timer, load, mutation, builder, save, acts>>
mode == <<context, undo, enabled, timer, load, mutation>>

revision == Len(history)
current == history[revision]

-----------------------------------------------------------------------------
(* The collection: one batch is one revision, or is refused as a whole. *)

Changed(c, add, remove, details) ==
  [members |-> (c.members \cup add) \ remove,
   artwork |-> IF "artwork" \in DOMAIN details THEN details.artwork
               ELSE IF c.artwork \in remove THEN None ELSE c.artwork,
   name |-> IF "name" \in DOMAIN details THEN details.name ELSE c.name]

Valid(c, add, remove, details) ==
  /\ add \cap c.members = {} /\ remove \subseteq c.members
  /\ LET made == Changed(c, add, remove, details)
     IN  made.artwork \in made.members \cup {None}

\* What the server answers to a batch, and the collection after it.
Conflict == [kind |-> "conflict", revision |-> revision]

Batch(expected, add, remove, details, reply) ==
  IF expected # revision THEN reply = Conflict /\ UNCHANGED history
  ELSE IF Valid(current, add, remove, details)
       THEN /\ revision < MaxRevision
            /\ history' = Append(history, Changed(current, add, remove, details))
            /\ reply = [kind |-> "done", revision |-> revision + 1]
       ELSE reply = [kind |-> "refused", revision |-> revision] /\ UNCHANGED history

NoDetails == [n \in {} |-> None]

\* Another profile, or another tab.
OthersEdit ==
  /\ revision < MaxRevision
  /\ \/ \E i \in Items : history' = Append(history,
          Changed(current, {i} \ current.members, {i} \cap current.members, NoDetails))
     \/ \E n \in Names \ {current.name} : history' = Append(history, [current EXCEPT !.name = n])
  /\ UNCHANGED <<mode, builder, save, acts>>

-----------------------------------------------------------------------------
(* The mode: loading the state of the controls. *)

Missing(c) == Items \ (IF c = None THEN {} ELSE DOMAIN c.known)
Batches(missing) == {b \in SUBSET missing : Cardinality(b) = IF Cardinality(missing) < LookupLimit
                                                            THEN Cardinality(missing) ELSE LookupLimit}
Lookup(batch) ==
  [batch |-> batch, held |-> context, stale |-> FALSE, changed |-> FALSE, row |-> None, reply |-> None]

\* What a newer request has made out of date.
Outdated == IF load = None THEN None ELSE [load EXCEPT !.stale = TRUE]

LoadControls ==
  /\ timer
  /\ timer' = FALSE
  /\ IF enabled /\ mutation = None /\ load = None
        /\ ~(context # None /\ (context.error \/ Missing(context) = {}))
     THEN \E b \in Batches(Missing(context)) : load' = Lookup(b)
     ELSE UNCHANGED load
  /\ UNCHANGED <<history, context, undo, enabled, mutation, builder, save, acts>>

\* The lookup requires the collection, and later selects the members: a change
\* committed in between answers with members of a later revision than the row's.
LookupReadsRow ==
  /\ load # None /\ load.row = None
  /\ load' = [load EXCEPT !.row = [revision |-> revision, artwork |-> current.artwork]]
  /\ UNCHANGED <<history, context, undo, enabled, timer, mutation, builder, save, acts>>

LookupServed ==
  /\ load # None /\ load.row # None /\ load.reply = None
  /\ load' = [load EXCEPT !.reply =
       [revision |-> load.row.revision, artwork |-> load.row.artwork,
        known |-> [i \in load.batch |-> i \in current.members]]]
  /\ UNCHANGED <<history, context, undo, enabled, timer, mutation, builder, save, acts>>

Merged(known, more) ==
  [i \in DOMAIN known \cup DOMAIN more |-> IF i \in DOMAIN more THEN more[i] ELSE known[i]]

AppliedToAny(c, state) ==
  IF c # None /\ c.revision > state.revision THEN c
  ELSE [revision |-> state.revision, artwork |-> state.artwork, error |-> FALSE,
        known |-> IF c # None THEN Merged(c.known, state.known) ELSE state.known]

\* Answers of an earlier revision are dropped, those of a later one start afresh.
Applied(c, state) ==
  IF c # None /\ c.revision > state.revision THEN c
  ELSE [revision |-> state.revision, artwork |-> state.artwork, error |-> FALSE,
        known |-> IF c # None /\ c.revision = state.revision THEN Merged(c.known, state.known)
                  ELSE state.known]

\* After an error: what was held when the load began, without its memberships.
Unknown(held) ==
  [revision |-> IF held = None THEN 0 ELSE held.revision,
   artwork |-> IF held = None THEN None ELSE held.artwork,
   error |-> TRUE, known |-> [i \in {} |-> FALSE]]

LoadEnds(l, changed) == changed \/ l.stale

LookupAnswered(delivered) ==
  /\ load # None
  /\ delivered => load.reply # None
  /\ IF load.stale
     THEN /\ load' = None
          /\ UNCHANGED context
          /\ timer' = (timer \/ LoadEnds(load, load.changed))
     ELSE IF delivered
     THEN /\ context' = Applied(context, load.reply)
          /\ LET rest == Missing(context) \ load.batch
             IN  IF rest = {}
                 THEN load' = None /\ timer' = TRUE
                 ELSE /\ \E b \in Batches(rest) : load' =
                           [load EXCEPT !.batch = b, !.changed = TRUE, !.row = None, !.reply = None]
                      /\ UNCHANGED timer
     ELSE /\ context' = Unknown(load.held)
          /\ load' = None
          /\ timer' = (timer \/ LoadEnds(load, load.changed))
  /\ UNCHANGED <<history, undo, enabled, mutation, builder, save, acts>>

\* The window gets the focus, or the retry button is used.
Refresh ==
  /\ acts < MaxActs /\ acts' = acts + 1
  /\ mutation = None
  /\ load' = Outdated /\ context' = None /\ timer' = TRUE
  /\ UNCHANGED <<history, undo, enabled, mutation, builder, save>>

\* Another profile signs in, or a request is refused as unauthorised.
ProfileChanges ==
  /\ enabled
  /\ enabled' = FALSE /\ undo' = None /\ context' = None /\ load' = Outdated
  /\ UNCHANGED <<history, timer, mutation, builder, save, acts>>

-----------------------------------------------------------------------------
(* The mode: changes. *)

Mutate(expected, item, add, artwork, record) ==
  /\ enabled /\ mutation = None
  /\ acts < MaxActs /\ acts' = acts + 1
  /\ mutation' = [expected |-> expected, item |-> item, add |-> add, artwork |-> artwork,
                  undo |-> record, reply |-> None]
  /\ load' = Outdated
  /\ UNCHANGED <<history, context, undo, enabled, timer, builder, save>>

Change(i) ==
  /\ context # None /\ i \in DOMAIN context.known
  /\ LET added == ~context.known[i]
     IN  Mutate(context.revision, i, added, FALSE,
                [revision |-> context.revision, item |-> i, added |-> added,
                 artwork |-> context.artwork = i])

RestoresMemberOnly(u) == FALSE
RestoresArtwork(u) == ~u.added /\ u.artwork

UndoChange ==
  /\ undo # None
  /\ Mutate(undo.revision, undo.item, ~undo.added, RestoresArtwork(undo), None)

MutationServed ==
  /\ mutation # None /\ mutation.reply = None
  /\ \E reply \in [kind : {"done", "conflict", "refused"}, revision : 1 .. MaxRevision] :
       /\ Batch(mutation.expected,
                IF mutation.add THEN {mutation.item} ELSE {},
                IF mutation.add THEN {} ELSE {mutation.item},
                IF mutation.artwork THEN [artwork |-> mutation.item] ELSE NoDetails, reply)
       /\ mutation' = [mutation EXCEPT !.reply = reply]
  /\ UNCHANGED <<context, undo, enabled, timer, load, builder, save, acts>>

Adopts(previous) == previous = builder.revision

\* The builder hears of a change (membershipChanged).
MembershipChanged(m, artwork) ==
  LET edited == builder.fields.artwork # builder.initial.artwork
      follows == ~edited \/ (~m.add /\ builder.fields.artwork = m.item)
  IN  builder' = [builder EXCEPT
        !.revision = IF Adopts(m.expected) THEN m.reply.revision ELSE @,
        !.fields.artwork = IF follows THEN artwork ELSE @,
        !.initial.artwork = artwork]

\* The artwork as the mode knows it: not at all when its state is not loaded.
KnownArtwork(m) ==
  IF m.artwork THEN m.item
  ELSE IF m.undo # None /\ m.undo.artwork THEN None
  ELSE IF context = None THEN None ELSE context.artwork

MutationAnswered(delivered) ==
  /\ mutation # None
  /\ delivered => mutation.reply # None
  /\ mutation' = None /\ context' = None /\ timer' = TRUE
  /\ CASE enabled /\ delivered /\ mutation.reply.kind = "done" ->
            /\ undo' = IF mutation.undo = None THEN None
                       ELSE [mutation.undo EXCEPT !.revision = mutation.reply.revision]
            /\ MembershipChanged(mutation, KnownArtwork(mutation))
       [] enabled /\ delivered /\ mutation.reply.kind = "conflict" /\ mutation.undo = None ->
            undo' = None /\ UNCHANGED builder
       [] OTHER -> UNCHANGED <<undo, builder>>
  /\ UNCHANGED <<history, enabled, load, save, acts>>

-----------------------------------------------------------------------------
(* The builder. *)

DetailChanges(b) ==
  [f \in {g \in {"name", "artwork"} : b.fields[g] # b.initial[g]} |-> b.fields[f]]

EditDetails(field, value) ==
  /\ save = None /\ value # builder.fields[field]
  /\ acts < MaxActs /\ acts' = acts + 1
  /\ builder' = [builder EXCEPT !.fields[field] = value]
  /\ UNCHANGED <<history, mode, save>>

Saving(b) == [expected |-> b.revision, details |-> DetailChanges(b), reply |-> None]

Save ==
  /\ save = None /\ DOMAIN DetailChanges(builder) # {}
  /\ save' = Saving(builder)
  /\ UNCHANGED <<history, mode, builder, acts>>

\* "Apply my changes" after a conflict.
RetryConflict ==
  /\ save = None /\ builder.conflict # None
  /\ builder' = [builder EXCEPT !.revision = builder.conflict, !.conflict = None, !.reapplied = TRUE]
  /\ save' = IF DOMAIN DetailChanges(builder) = {} THEN None ELSE Saving(builder')
  /\ UNCHANGED <<history, mode, acts>>

SaveServed ==
  /\ save # None /\ save.reply = None
  /\ \E reply \in [kind : {"done", "conflict", "refused"}, revision : 1 .. MaxRevision] :
       /\ Batch(save.expected, {}, {}, save.details, reply)
       /\ save' = [save EXCEPT !.reply = reply]
  /\ UNCHANGED <<mode, builder, acts>>

\* The mode hears of a save (onCollectionChange): refresh() waits for a change on its way.
CollectionChanged ==
  /\ undo' = None
  /\ context' = None
  /\ IF mutation = None THEN load' = Outdated /\ timer' = TRUE ELSE UNCHANGED <<load, timer>>

SaveAnswered(delivered) ==
  /\ save # None
  /\ delivered => save.reply # None
  /\ save' = None
  /\ CASE delivered /\ save.reply.kind = "done" ->
            /\ builder' = [builder EXCEPT !.revision = save.reply.revision,
                                          !.initial = builder.fields, !.conflict = None]
            /\ CollectionChanged
       [] delivered /\ save.reply.kind = "conflict" ->
            /\ builder' = [builder EXCEPT !.conflict = save.reply.revision]
            /\ UNCHANGED <<undo, context, load, timer>>
       [] OTHER -> UNCHANGED <<builder, undo, context, load, timer>>
  /\ UNCHANGED <<history, enabled, mutation, acts>>

-----------------------------------------------------------------------------
Init ==
  /\ \E c \in [members : SUBSET Items, artwork : Items \cup {None}, name : Names] :
       /\ c.artwork \in c.members \cup {None}
       /\ history = <<c>>
       /\ builder = [revision |-> 1, initial |-> [name |-> c.name, artwork |-> c.artwork],
                     fields |-> [name |-> c.name, artwork |-> c.artwork],
                     conflict |-> None, reapplied |-> FALSE]
  /\ context = None /\ undo = None /\ enabled = TRUE /\ timer = TRUE
  /\ load = None /\ mutation = None /\ save = None /\ acts = 0

LookupSettles == \E delivered \in BOOLEAN : LookupAnswered(delivered)
MutationSettles == \E delivered \in BOOLEAN : MutationAnswered(delivered)

Next ==
  \/ OthersEdit \/ LoadControls \/ LookupReadsRow \/ LookupServed \/ LookupSettles \/ Refresh \/ ProfileChanges
  \/ \E i \in Items : Change(i)
  \/ UndoChange \/ MutationServed \/ MutationSettles
  \/ \E n \in Names : EditDetails("name", n)
  \/ \E i \in Items \cup {None} : EditDetails("artwork", i)
  \/ Save \/ RetryConflict \/ SaveServed
  \/ \E delivered \in BOOLEAN : SaveAnswered(delivered)

Spec == Init /\ [][Next]_vars

-----------------------------------------------------------------------------
TypeOK ==
  /\ revision \in 1 .. MaxRevision
  /\ context = None \/ DOMAIN context.known \subseteq Items
  /\ enabled \in BOOLEAN /\ timer \in BOOLEAN
  /\ builder.revision \in 1 .. MaxRevision
  /\ acts \in 0 .. MaxActs

\* The artwork the mode shows is that of the revision its next change will be
\* sent with, and no membership is older than that revision: when the revision is
\* still the collection's, and the change therefore accepted, all of them are right.
ContextIsNotOlder ==
  context # None /\ ~context.error =>
    /\ context.artwork = history[context.revision].artwork
    /\ \A i \in DOMAIN context.known :
         \E r \in context.revision .. revision : context.known[i] = (i \in history[r].members)

\* An undo that is accepted leaves the members and the artwork of before the
\* change it undoes, and nothing that others did since is lost.
UndoRestores ==
  [][mutation # None /\ mutation.undo = None /\ history' # history /\ mutation' # mutation =>
       /\ history'[revision'].members = history[revision - 1].members
       /\ history'[revision'].artwork = history[revision - 1].artwork
       /\ history'[revision'].name = history[revision - 1].name]_vars
=============================================================================
