----------------------------- MODULE OrderEditor -----------------------------
(***************************************************************************)
(* The watch-order editor (KanvasWatchOrderWorkspace in                    *)
(* kanvas-watch-orders.js): a draft of one order that the viewer           *)
(* rearranges by rows, where consecutive episodes form one row unless it   *)
(* is expanded, fills from the collection or from a generated preview, and *)
(* saves against the revision that was loaded or reviewed.                 *)
(*                                                                         *)
(* A load or a review reads the revision and then the entries, one page    *)
(* after the other, while others save the order: what it answers may be of *)
(* several revisions, and have an entry twice.                             *)
(*                                                                         *)
(* The name of the order, the paging of the rows that are shown, and items *)
(* that are removed meanwhile (see WatchOrder) are left out.               *)
(***************************************************************************)
EXTENDS Integers, Sequences, FiniteSets

CONSTANTS Entries,      \* the titles of the collection
          Consecutive,  \* pairs of episodes that follow one another
          Sources,      \* the titles a source adds, in order
          EntryLimit, HistoryLimit,
          EntryPage,    \* entries per page of a load
          MaxRevision, MaxActs,   \* bounds: saves of the order, acts of the viewer
          None

VARIABLES
  server,    \* the saved order and its revision
  ids, baseline, revision,
  selected, expanded,
  history,   \* drafts to undo to
  preview,   \* a generated order and how it is applied
  conflict,
  reviewed,  \* the saved order that was looked at, and its revision
  seen,      \* the saved order the viewer was shown for revision
  request,   \* busy: the request on its way
  acts       \* counts what MaxActs bounds

vars == <<server, ids, baseline, revision, selected, expanded, history, preview, conflict,
          reviewed, seen, request, acts>>
saved == <<server, baseline, revision, conflict, reviewed, seen, request>>
draft == <<ids, baseline, revision, selected, expanded, history, preview, conflict, reviewed, seen>>

Set(s) == {s[i] : i \in DOMAIN s}
Lists == UNION {[1 .. n -> Entries] : n \in 0 .. EntryLimit}
Distinct(s) == \A i, j \in DOMAIN s : s[i] = s[j] => i = j
Orders == {s \in Lists : Distinct(s)}

\* The entries of S in their order: what filter leaves.
PlacesOf(s, S) == {i \in DOMAIN s : s[i] \in S}
Rank(P, i) == Cardinality({j \in P : j <= i})
Place(P, k) == CHOOSE i \in P : Rank(P, i) = k
Keep(s, S) ==
  LET P == PlacesOf(s, S)
  IN  [k \in 1 .. Cardinality(P) |-> s[Place(P, k)]]

Largest(S) == CHOOSE i \in S : \A j \in S : j <= i
Smallest(S) == CHOOSE i \in S : \A j \in S : i <= j
Index(s, x) == Smallest({i \in DOMAIN s : s[i] = x})

-----------------------------------------------------------------------------
(* Rows: groupOrder and the rows that are visible. *)

GroupStarts(s) == {i \in DOMAIN s : i = 1 \/ <<s[i - 1], s[i]>> \notin Consecutive}
GroupStart(s, i) == Largest({j \in GroupStarts(s) : j <= i})
RowStarts == {i \in DOMAIN ids : i \in GroupStarts(ids) \/ ids[GroupStart(ids, i)] \in expanded}
RowStart(i) == Largest({j \in RowStarts : j <= i})
Row(r) == {i \in DOMAIN ids : RowStart(i) = r}
SelectedRows == {r \in RowStarts : \E i \in Row(r) : ids[i] \in selected}

-----------------------------------------------------------------------------
(* The draft. *)

Act == request = None /\ baseline # None /\ acts < MaxActs /\ acts' = acts + 1

\* The preview was made for another draft.
PreviewKept(p) == p
PreviewAfterEdit(p) == None

SetSequence(new) ==
  /\ Len(new) <= EntryLimit /\ new # ids
  /\ ids' = new
  /\ history' = LET all == Append(history, ids)
                IN  IF Len(all) > HistoryLimit THEN Tail(all) ELSE all
  /\ preview' = PreviewAfterEdit(preview)
  /\ selected' = selected \cap Set(new)
  /\ UNCHANGED <<saved, expanded>>

\* moveItems: the place is looked up among the entries that stay.
MovedItems(s, moving, before) ==
  LET rest == Keep(s, Entries \ moving)
      at == IF before = None THEN Len(rest) ELSE Index(rest, before) - 1
  IN  IF before \in moving THEN s
      ELSE SubSeq(rest, 1, at) \o Keep(s, moving) \o SubSeq(rest, at + 1, Len(rest))

MoveBefore(before) ==
  /\ Act /\ selected # {}
  /\ SetSequence(MovedItems(ids, selected, before))

MoveUp ==
  LET edge == Smallest(SelectedRows)
  IN  /\ SelectedRows # {} /\ edge # 1
      /\ MoveBefore(ids[RowStart(edge - 1)])

MoveDown ==
  LET edge == Largest(SelectedRows)
      below == {r \in RowStarts : r > edge}
      beyond == below \ {Smallest(below)}
  IN  /\ SelectedRows # {} /\ below # {}
      /\ MoveBefore(IF beyond = {} THEN None ELSE ids[Smallest(beyond)])

MoveTo ==
  \E before \in (Set(ids) \ selected) \cup {None} : MoveBefore(before)

\* Additions go before the first selected entry.
AddItems(source) ==
  LET news == Keep(source, Entries \ Set(ids))
      at == IF selected \cap Set(ids) = {} THEN Len(ids)
            ELSE Smallest({i \in DOMAIN ids : ids[i] \in selected}) - 1
  IN  /\ Act /\ news # <<>>
      /\ SetSequence(SubSeq(ids, 1, at) \o news \o SubSeq(ids, at + 1, Len(ids)))

AddRange(source, first, last) == AddItems(SubSeq(source, first, last))

Remove == Act /\ SetSequence(Keep(ids, Entries \ selected))

Undo ==
  /\ Act /\ history # <<>>
  /\ ids' = history[Len(history)]
  /\ history' = SubSeq(history, 1, Len(history) - 1)
  /\ selected' = {} /\ preview' = None
  /\ UNCHANGED <<saved, expanded>>

\* A row, or everything between two clicks.
Select(from, to, checked) ==
  /\ Act /\ from <= to
  /\ LET chosen == {ids[i] : i \in from .. to}
     IN  selected' = IF checked THEN selected \cup chosen ELSE selected \ chosen
  /\ selected' # selected
  /\ UNCHANGED <<saved, ids, expanded, history, preview>>

Expand(i) ==
  /\ Act /\ i \in GroupStarts(ids) /\ i + 1 \in DOMAIN ids /\ i + 1 \notin GroupStarts(ids)
  /\ expanded' = (expanded \cup {ids[i]}) \ (expanded \cap {ids[i]})
  /\ UNCHANGED <<saved, ids, selected, history, preview>>

-----------------------------------------------------------------------------
(* Requests. *)

Request(operation, expected) ==
  [operation |-> operation, revision |-> expected, ids |-> ids, read |-> None, reply |-> None]

Send(operation) ==
  /\ request' = Request(operation, revision)
  /\ UNCHANGED <<server, draft>>

Save == Act /\ ~conflict /\ ids # baseline /\ Send("save")
ReviewSaved == Act /\ conflict /\ Send("review")
PreviewDates(apply) == Act /\ Send(apply)

\* "Save my draft" after the saved order was looked at.
RetrySave ==
  /\ Act /\ reviewed # None
  /\ revision' = reviewed.revision /\ seen' = reviewed.ids
  /\ reviewed' = None /\ conflict' = FALSE
  /\ request' = IF ids = baseline THEN None ELSE Request("save", revision')
  /\ UNCHANGED <<server, ids, baseline, selected, expanded, history, preview>>

\* The workspace is read in several requests: first the revision ...
ReadRevision ==
  /\ request # None /\ request.operation \in {"load", "review"} /\ request.read = None
  /\ request' = [request EXCEPT !.read = [revision |-> server.revision, ids |-> <<>>, at |-> 0]]
  /\ UNCHANGED <<server, draft, acts>>

Told_LastPage(read) == server.revision
Told(read) == read.revision

\* ... then page after page.  An entry that has come to stand where the last page
\* ended is on the next one if its id is larger.
ReadPage ==
  /\ request # None /\ request.read # None /\ request.reply = None
  /\ LET read == request.read
     IN  \E from \in {read.at, read.at + 1} :
           /\ from = read.at => /\ from \in DOMAIN server.ids
                                /\ server.ids[from] # read.ids[Len(read.ids)]
           /\ LET upTo == Smallest({from + EntryPage - 1, Len(server.ids)})
                  list == read.ids \o SubSeq(server.ids, from, upTo)
              IN  request' = IF upTo < Len(server.ids)
                             THEN [request EXCEPT !.read = [@ EXCEPT !.ids = list, !.at = upTo]]
                             ELSE [request EXCEPT !.reply =
                                     [done |-> TRUE, revision |-> Told(read), ids |-> list]]
  /\ UNCHANGED <<server, draft, acts>>

\* A draft that has an entry twice is refused before its revision is looked at.
SaveServed ==
  /\ request # None /\ request.operation = "save" /\ request.reply = None
  /\ LET valid == Distinct(request.ids)
     IN  IF valid /\ request.revision = server.revision
         THEN /\ server.revision < MaxRevision
              /\ server' = [revision |-> server.revision + 1, ids |-> request.ids]
              /\ request' = [request EXCEPT !.reply =
                               [done |-> TRUE, revision |-> server.revision + 1, ids |-> request.ids]]
         ELSE /\ request' = [request EXCEPT !.reply = [done |-> FALSE, conflict |-> valid]]
              /\ UNCHANGED server
  /\ UNCHANGED <<draft, acts>>

\* A preview is generated from the collection; it may leave undated titles out.
PreviewServed ==
  /\ request # None /\ request.operation \in {"replace", "merge"} /\ request.reply = None
  /\ IF request.revision = server.revision
     THEN \E source \in Sources : request' =
            [request EXCEPT !.reply = [done |-> TRUE, revision |-> server.revision, ids |-> source]]
     ELSE request' = [request EXCEPT !.reply = [done |-> FALSE, conflict |-> TRUE]]
  /\ UNCHANGED <<server, draft, acts>>

Loaded ==
  /\ request.operation = "load"
  /\ ids' = request.reply.ids /\ baseline' = request.reply.ids /\ seen' = request.reply.ids
  /\ revision' = request.reply.revision
  /\ UNCHANGED <<history, conflict, reviewed, preview>>

Saved ==
  /\ request.operation = "save"
  /\ baseline' = request.ids /\ seen' = request.ids /\ revision' = request.reply.revision
  /\ history' = <<>> /\ conflict' = FALSE
  /\ UNCHANGED <<ids, reviewed, preview>>

Reviewed ==
  /\ request.operation = "review"
  /\ reviewed' = [revision |-> request.reply.revision, ids |-> request.reply.ids]
  /\ UNCHANGED <<ids, baseline, revision, history, conflict, preview, seen>>

Previewed ==
  /\ request.operation \in {"replace", "merge"}
  /\ preview' = [apply |-> request.operation,
                 ids |-> IF request.operation = "merge"
                         THEN ids \o Keep(request.reply.ids, Entries \ Set(ids)) ELSE request.reply.ids]
  /\ UNCHANGED <<ids, baseline, revision, history, conflict, reviewed, seen>>

\* A save that fails drops what was reviewed; a lost answer is not a conflict.
Failed(delivered) ==
  /\ IF request.operation = "save"
     THEN conflict' = (delivered /\ request.reply.conflict) /\ reviewed' = None
     ELSE UNCHANGED <<conflict, reviewed>>
  /\ UNCHANGED <<ids, baseline, revision, history, preview, seen>>

Answered(delivered) ==
  /\ request # None
  /\ delivered => request.reply # None
  /\ request' = None
  /\ IF delivered /\ request.reply.done THEN Loaded \/ Saved \/ Reviewed \/ Previewed
     ELSE Failed(delivered)
  /\ UNCHANGED <<server, selected, expanded, acts>>

UsePreview ==
  /\ Act /\ preview # None
  /\ SetSequence(preview.ids)

\* Choosing another way to apply the preview drops it.
DropPreview ==
  /\ Act /\ preview # None
  /\ preview' = None
  /\ UNCHANGED <<saved, ids, selected, expanded, history>>

OthersSave(order) ==
  /\ server.revision < MaxRevision /\ order # server.ids
  /\ server' = [revision |-> server.revision + 1, ids |-> order]
  /\ UNCHANGED <<draft, request, acts>>

-----------------------------------------------------------------------------
Init ==
  /\ server \in [revision : {1}, ids : Sources \cup {<<>>}]
  /\ ids = <<>> /\ baseline = None /\ revision = 1
  /\ selected = {} /\ expanded = {} /\ history = <<>> /\ preview = None
  /\ conflict = FALSE /\ reviewed = None /\ seen = <<>>
  /\ request = Request("load", 1)
  /\ acts = 0

Next ==
  \/ MoveUp \/ MoveDown \/ MoveTo \/ Remove \/ Undo \/ UsePreview \/ DropPreview
  \/ \E source \in Sources : \E i, j \in DOMAIN source : i <= j /\ AddRange(source, i, j)
  \/ \E i, j \in DOMAIN ids, checked \in BOOLEAN : Select(i, j, checked)
  \/ \E i \in DOMAIN ids : Expand(i)
  \/ Save \/ ReviewSaved \/ RetrySave \/ ReadRevision \/ ReadPage \/ SaveServed \/ PreviewServed
  \/ \E apply \in {"replace", "merge"} : PreviewDates(apply)
  \/ \E delivered \in BOOLEAN : Answered(delivered)
  \/ \E order \in Sources : OthersSave(order)

Spec == Init /\ [][Next]_vars

-----------------------------------------------------------------------------
TypeOK ==
  /\ ids \in Seq(Entries) /\ baseline \in Seq(Entries) \cup {None} /\ server.ids \in Orders
  /\ revision \in 1 .. MaxRevision /\ server.revision \in 1 .. MaxRevision
  /\ selected \subseteq Entries /\ expanded \subseteq Entries
  /\ history \in Seq(Seq(Entries)) /\ Len(history) <= HistoryLimit
  /\ conflict \in BOOLEAN

\* A save that is accepted replaces the order that the viewer was shown for the
\* revision it names: the one that was loaded, saved last or looked at after a
\* conflict, although it was read page by page while others saved theirs.
SavesReplaceWhatWasSeen ==
  [][SaveServed /\ server' # server => server.ids = seen]_vars

\* A generated order that is merged into the draft keeps every entry that the
\* draft has by then, whatever was edited, undone or saved since it was made.
MergeKeepsEntries ==
  [][UsePreview /\ preview.apply = "merge" => Set(ids) \subseteq Set(ids')]_vars
=============================================================================
