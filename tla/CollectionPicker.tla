-------------------------- MODULE CollectionPicker --------------------------
(***************************************************************************)
(* The dialog that puts one item into collections (KanvasItemCollection-   *)
(* Picker in kanvas.js): the collections are listed page by page, changes  *)
(* are staged, and one save sends them collection by collection, each      *)
(* against the revision its row was listed with.                           *)
(*                                                                         *)
(* A page that is still on its way when the save starts replaces the       *)
(* objects the save is working with; a change whose object was replaced is *)
(* "detached".  A page is put together from two requests that run at the   *)
(* same time: the item's collections, and the collections with their       *)
(* revisions.  The search text is left out.                                *)
(***************************************************************************)
EXTENDS Integers, Sequences, FiniteSets

CONSTANTS LastCollection,   \* collections 1 .. LastCollection, in the order they are listed
          PageSize,
          MaxRows,          \* rows in the list
          MaxRevision,      \* bound: changes of a collection
          MaxOpens,         \* bound: searches
          MaxToggles,       \* bound: changes staged or retried
          None

VARIABLES
  server,    \* every collection's revision and whether the item is a member
  targets,   \* what the picker knows of a collection
  rows,      \* resultIds
  conflicts, \* ids with the revision to retry with, 0 when it is not known
  cursor, loaded,
  load,      \* a page on its way
  queue,     \* the changes of a save that are still to be sent
  sending,   \* the change on its way
  saving,
  told,      \* the last save reported success
  wanted,    \* what the viewer has staged and not taken back
  made,      \* what the picker has changed on the server
  opens, toggles

vars == <<server, targets, rows, conflicts, cursor, loaded, load, queue, sending, saving, told,
          wanted, made, opens, toggles>>
listing == <<rows, cursor, loaded, load, opens>>

Collections == 1 .. LastCollection
NoTargets == [c \in {} |-> None]
Undecided == [c \in Collections |-> None]
Dirty(t) == t.member # t.initial
Restrict(f, S) == [x \in DOMAIN f \cap S |-> f[x]]
Without(f, x) == Restrict(f, DOMAIN f \ {x})
With(f, x, v) == [y \in DOMAIN f \cup {x} |-> IF y = x THEN v ELSE f[y]]

\* Clean targets that are no longer listed are forgotten.
Trimmed(ts, listed) ==
  Restrict(ts, {c \in DOMAIN ts : c \in listed \/ Dirty(ts[c]) \/ c \in DOMAIN conflicts})

Listed(seq) == {seq[i] : i \in DOMAIN seq}

PageAfter(c) == [after |-> c, members |-> None, revisions |-> None]

-----------------------------------------------------------------------------
Open ==
  /\ ~saving /\ opens < MaxOpens /\ opens' = opens + 1
  /\ LET staged == {c \in DOMAIN targets : Dirty(targets[c]) \/ c \in DOMAIN conflicts}
     IN  /\ rows' = [i \in 1 .. Cardinality(staged) |->
                       CHOOSE c \in staged : Cardinality({d \in staged : d < c}) = i - 1]
         /\ targets' = Trimmed(targets, staged)
  /\ cursor' = 0 /\ loaded' = FALSE
  /\ load' = PageAfter(0)
  /\ told' = FALSE
  /\ wanted' = IF told THEN Undecided ELSE wanted
  /\ made' = IF told THEN Undecided ELSE made
  /\ UNCHANGED <<server, conflicts, queue, sending, saving, toggles>>

LoadNext ==
  /\ ~saving /\ load = None /\ loaded /\ cursor # None
  /\ load' = PageAfter(cursor)
  /\ UNCHANGED <<server, targets, rows, conflicts, cursor, loaded, queue, sending, saving, told,
                 wanted, made, opens, toggles>>

\* The two halves of a page, in either order: nothing says that they are of the
\* same moment.
MembershipsServed ==
  /\ load # None /\ load.members = None
  /\ load' = [load EXCEPT !.members = {c \in Collections : server[c].member}]
  /\ UNCHANGED <<server, targets, rows, conflicts, cursor, loaded, queue, sending, saving, told,
                 wanted, made, opens, toggles>>

CollectionsServed ==
  /\ load # None /\ load.revisions = None
  /\ LET listed == {c \in Collections : load.after < c /\ c <= load.after + PageSize}
     IN  load' = [load EXCEPT !.revisions = [c \in listed |-> server[c].revision]]
  /\ UNCHANGED <<server, targets, rows, conflicts, cursor, loaded, queue, sending, saving, told,
                 wanted, made, opens, toggles>>

Row(revision, member) == [revision |-> revision, initial |-> member, member |-> member]

\* A staged change survives the page, in a new object.
PageArrives ==
  LET page == [c \in DOMAIN load.revisions |-> Row(load.revisions[c], c \in load.members)]
      last == load.after + PageSize
      merged == [c \in DOMAIN targets \cup DOMAIN page |->
                   IF c \in DOMAIN targets /\ (c \notin DOMAIN page \/ Dirty(targets[c]))
                   THEN targets[c] ELSE page[c]]
      news == SelectSeq([i \in 1 .. LastCollection |-> i],
                        LAMBDA c : c \in DOMAIN page /\ c \notin Listed(rows))
      grown == rows \o news
      kept == SubSeq(grown, (IF Len(grown) > MaxRows THEN Len(grown) - MaxRows ELSE 0) + 1, Len(grown))
      Detached(change) == IF change.id \in DOMAIN page THEN [change EXCEPT !.attached = FALSE] ELSE change
  IN  /\ load # None /\ load.members # None /\ load.revisions # None
      /\ load' = None
      /\ rows' = kept
      /\ targets' = Trimmed(merged, Listed(kept))
      /\ cursor' = (IF last < LastCollection THEN last ELSE None) /\ loaded' = TRUE
      /\ queue' = {Detached(change) : change \in queue}
      /\ sending' = IF sending = None THEN None ELSE Detached(sending)
      /\ UNCHANGED <<server, conflicts, saving, told, wanted, made, opens, toggles>>

PageFails ==
  /\ load # None
  /\ load' = None
  /\ UNCHANGED <<server, targets, rows, conflicts, cursor, loaded, queue, sending, saving, told,
                 wanted, made, opens, toggles>>

Toggle(c) ==
  /\ ~saving /\ c \in Listed(rows) /\ c \in DOMAIN targets
  /\ toggles < MaxToggles /\ toggles' = toggles + 1
  /\ targets' = [targets EXCEPT ![c].member = ~@]
  /\ conflicts' = Without(conflicts, c)
  /\ wanted' = [wanted EXCEPT ![c] = IF Dirty(targets'[c]) THEN targets'[c].member ELSE None]
  /\ made' = [made EXCEPT ![c] = None]
  /\ told' = FALSE
  /\ UNCHANGED <<server, listing, queue, sending, saving>>

ChangesOf(ts) == {[id |-> c, revision |-> ts[c].revision, member |-> ts[c].member, attached |-> TRUE] :
                    c \in {d \in DOMAIN ts : Dirty(ts[d])}}

Save ==
  /\ ~saving /\ ChangesOf(targets) # {}
  /\ saving' = TRUE /\ told' = FALSE
  /\ queue' = ChangesOf(targets)
  /\ UNCHANGED <<server, targets, listing, conflicts, sending, wanted, made, toggles>>

\* A conflict is retried at the revision the server named, and everything else with it.
Retry(c) ==
  /\ ~saving /\ c \in DOMAIN targets /\ c \in DOMAIN conflicts /\ conflicts[c] > 0
  /\ toggles < MaxToggles /\ toggles' = toggles + 1
  /\ targets' = [targets EXCEPT ![c].revision = conflicts[c]]
  /\ conflicts' = Without(conflicts, c)
  /\ saving' = (ChangesOf(targets') # {})
  /\ queue' = ChangesOf(targets')
  /\ told' = FALSE
  /\ UNCHANGED <<server, listing, sending, wanted, made>>

Send(change) ==
  /\ saving /\ sending = None /\ change \in queue
  /\ queue' = queue \ {change}
  /\ sending' = [id |-> change.id, revision |-> change.revision, member |-> change.member,
                 attached |-> change.attached, reply |-> None]
  /\ UNCHANGED <<server, targets, listing, conflicts, saving, told, wanted, made, toggles>>

BatchServed ==
  /\ sending # None /\ sending.reply = None
  /\ LET c == server[sending.id]
     IN  IF sending.revision # c.revision
         THEN sending' = [sending EXCEPT !.reply = [kind |-> "conflict", revision |-> c.revision]]
              /\ UNCHANGED <<server, made>>
         ELSE IF sending.member = c.member
         THEN sending' = [sending EXCEPT !.reply = [kind |-> "refused", revision |-> c.revision]]
              /\ UNCHANGED <<server, made>>
         ELSE /\ c.revision < MaxRevision
              /\ server' = [server EXCEPT ![sending.id] =
                              [revision |-> c.revision + 1, member |-> sending.member]]
              /\ made' = [made EXCEPT ![sending.id] = sending.member]
              /\ sending' = [sending EXCEPT !.reply = [kind |-> "done", revision |-> c.revision + 1]]
  /\ UNCHANGED <<targets, listing, conflicts, queue, saving, told, wanted, toggles>>

BatchAnswered(delivered) ==
  LET id == sending.id
      kind == IF delivered THEN sending.reply.kind ELSE "lost"
  IN  /\ sending # None
      /\ delivered => sending.reply # None
      /\ sending' = None
      /\ conflicts' = CASE kind = "done" -> Without(conflicts, id)
                        [] kind = "conflict" -> With(conflicts, id, sending.reply.revision)
                        [] OTHER -> With(conflicts, id, 0)
      /\ targets' = IF kind = "done" /\ sending.attached
                    THEN [targets EXCEPT ![id] = [@ EXCEPT !.initial = sending.member,
                                                           !.revision = sending.reply.revision]]
                    ELSE targets
      /\ UNCHANGED <<server, listing, queue, saving, told, wanted, made, toggles>>

\* What is left of the staged changes decides what is reported.
RetriesLeft == {c \in DOMAIN conflicts : conflicts[c] > 0}

Remaining == {c \in DOMAIN targets : Dirty(targets[c])}

\* After a success the page is loaded anew.
SaveEnds ==
  /\ saving /\ queue = {} /\ sending = None
  /\ saving' = FALSE
  /\ told' = (Remaining = {})
  /\ IF told'
     THEN /\ targets' = NoTargets /\ conflicts' = NoTargets
          /\ rows' = <<>> /\ cursor' = 0 /\ loaded' = FALSE /\ load' = None
     ELSE UNCHANGED <<targets, conflicts, rows, cursor, loaded, load>>
  /\ UNCHANGED <<server, queue, sending, wanted, made, opens, toggles>>

OthersEdit(c) ==
  /\ server[c].revision < MaxRevision
  /\ \E member \in BOOLEAN :
       server' = [server EXCEPT ![c] = [revision |-> @.revision + 1, member |-> member]]
  /\ UNCHANGED <<targets, listing, conflicts, queue, sending, saving, told, wanted, made, toggles>>

-----------------------------------------------------------------------------
Init ==
  /\ server \in [Collections -> {[revision |-> 1, member |-> m] : m \in BOOLEAN}]
  /\ targets = NoTargets /\ rows = <<>> /\ conflicts = NoTargets
  /\ cursor = 0 /\ loaded = FALSE /\ load = None
  /\ queue = {} /\ sending = None /\ saving = FALSE /\ told = FALSE
  /\ wanted = Undecided /\ made = Undecided
  /\ opens = 0 /\ toggles = 0

Next ==
  \/ Open \/ LoadNext \/ MembershipsServed \/ CollectionsServed \/ PageArrives \/ PageFails \/ Save \/ BatchServed \/ SaveEnds
  \/ \E c \in Collections : Toggle(c) \/ Retry(c) \/ OthersEdit(c)
  \/ \E change \in queue : Send(change)
  \/ \E delivered \in BOOLEAN : BatchAnswered(delivered)

Spec == Init /\ [][Next]_vars

-----------------------------------------------------------------------------
TypeOK ==
  /\ \A c \in DOMAIN targets : targets[c].revision \in 1 .. MaxRevision
  /\ Listed(rows) \subseteq DOMAIN targets /\ Len(rows) <= MaxRows + LastCollection
  /\ DOMAIN conflicts \subseteq Collections
  /\ queue # {} \/ sending # None => saving

\* A save that reports success has made every change that the viewer staged and
\* did not take back: none was refused, lost or dropped, whatever pages arrived
\* meanwhile.  (What others change afterwards is theirs.)
SuccessIsTrue == told => \A c \in Collections : wanted[c] \in {None, made[c]}
=============================================================================
