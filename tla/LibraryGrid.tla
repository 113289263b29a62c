----------------------------- MODULE LibraryGrid -----------------------------
(***************************************************************************)
(* The poster grid of the library pages (KanvasPosterGrid in kanvas.js): a *)
(* window of pages around the viewport that grows at both edges, gives up  *)
(* the far edge when more than Cap posters are mounted, skips posters that *)
(* it cannot show, and is kept for the visitor who comes back.             *)
(*                                                                         *)
(* A poster is its place in the order of the catalogue.  A page holds the  *)
(* set of its posters and the cursors the server gave with it: a cursor    *)
(* names a poster.  Heights, scrolling and layout are left out; which      *)
(* posters are out of sight follows from the poster in view.               *)
(***************************************************************************)
EXTENDS Integers, Sequences, FiniteSets

CONSTANTS Last,         \* places 1 .. Last
          Sources,      \* the filters a grid may be opened with
          Matches,      \* the places that match a source
          Unshown,      \* posters the browser rejects
          PageSize, Cap,
          MaxVisits, MaxEdits,   \* bounds: initialisations and catalogue changes
          None

VARIABLES
  catalogue,   \* the places that exist
  touched,     \* the places added or removed so far
  source,      \* the source attribute
  attribute,   \* the catalogue-revision attribute
  pages,       \* the mounted pages
  loading,     \* loadingDirection
  retry,       \* retryDirection
  dropped,     \* invalidPosterCount > 0
  frame,       \* a load of the next page waits for an animation frame
  generation,
  requests,    \* what was fetched and is not answered yet
  stored       \* sessionStorage

vars == <<catalogue, touched, source, attribute, pages, loading, retry, dropped, frame,
          generation, requests, stored>>
client == <<pages, loading, retry, dropped, frame>>

Places == 1 .. Last
Directions == {"initial", "previous", "next"}
revision == Cardinality(touched)

Posters(ps) == UNION {ps[i].items : i \in DOMAIN ps}
Mounted == Posters(pages)

-----------------------------------------------------------------------------
(* The server's pages. *)

Highest(S) == CHOOSE p \in S : \A q \in S : q <= p
Lowest(S) == CHOOSE p \in S : \A q \in S : p <= q

PageAfter(s, cursor) ==
  LET rest == {p \in catalogue \cap Matches[s] : cursor = None \/ p > cursor}
      taken == {p \in rest : Cardinality({q \in rest : q < p}) < PageSize}
  IN  [items |-> taken \ Unshown,
       previous |-> IF taken = {} \/ cursor = None THEN None ELSE Lowest(taken),
       next |-> IF taken = rest THEN None ELSE Highest(taken),
       rejected |-> taken \cap Unshown # {}]

PageBefore(s, cursor) ==
  LET rest == {p \in catalogue \cap Matches[s] : p < cursor}
      taken == {p \in rest : Cardinality({q \in rest : q > p}) < PageSize}
  IN  [items |-> taken \ Unshown,
       previous |-> IF taken = rest THEN None ELSE Lowest(taken),
       next |-> IF taken = {} THEN None ELSE Highest(taken),
       rejected |-> taken \cap Unshown # {}]

ServedPage(r) == IF r.direction = "previous" THEN PageBefore(r.source, r.cursor)
                 ELSE PageAfter(r.source, r.cursor)

-----------------------------------------------------------------------------
(* Requests. *)

EdgeCursor(direction) ==
  IF pages = <<>> \/ direction = "initial" THEN None
  ELSE IF direction = "previous" THEN pages[1].previous ELSE pages[Len(pages)].next

CanLoad(direction, again) ==
  /\ loading = None
  /\ IF direction = "initial" THEN pages = <<>>
     ELSE (retry # direction \/ again) /\ EdgeCursor(direction) # None

Request(direction) ==
  [generation |-> generation, source |-> source, direction |-> direction,
   cursor |-> EdgeCursor(direction)]

Load(direction, again) ==
  /\ CanLoad(direction, again)
  /\ again => retry # None
  /\ loading' = direction
  /\ retry' = IF again THEN None ELSE retry
  /\ UNCHANGED <<catalogue, touched, source, attribute, pages, dropped, frame, generation, stored>>
  /\ requests' = requests \cup {Request(direction)}

\* An edge comes near the viewport, or an arrow key reaches it.
Approach(direction) == direction # "initial" /\ Load(direction, FALSE)

\* The button of an edge stays when loading the other edge fails too.
Retry(direction) == Load(direction, TRUE)

Key(s, rev) == <<s, rev>>

\* A page without a poster may be mounted, but not kept.
SavedPages(ps) == \A i \in DOMAIN ps : ps[i].items # {}

Overfull(ps) == Cardinality(Posters(ps)) > Cap

Restorable(kept, key) == {k \in kept : k.key = key /\ SavedPages(k.pages) /\ ~Overfull(k.pages)}

\* waiting: a frame asked for before is still to come.
Initialise(s, rev, kept, waiting) ==
  /\ generation < MaxVisits
  /\ generation' = generation + 1
  /\ source' = s /\ attribute' = rev
  /\ retry' = None /\ frame' = waiting /\ dropped' = FALSE
  /\ IF Restorable(kept, Key(s, rev)) # {}
     THEN /\ pages' = (CHOOSE k \in Restorable(kept, Key(s, rev)) : TRUE).pages
          /\ loading' = None
          /\ stored' = kept
          /\ UNCHANGED requests
     ELSE /\ pages' = <<>>
          /\ loading' = "initial"
          /\ stored' = {k \in kept : k.key # Key(s, rev)}
          /\ requests' = requests \cup {[generation |-> generation', source |-> s,
                                         direction |-> "initial", cursor |-> None]}
  /\ UNCHANGED <<catalogue, touched>>

\* The filters of a mounted grid change.
ChangeSource(s) == s # source /\ Initialise(s, attribute, stored, frame)

\* Saving fails when the browser has no room.
SavedState(room) ==
  LET others == {k \in stored : k.key # Key(source, attribute)}
  IN  IF room /\ Mounted # {} /\ retry = None
      THEN others \cup {[key |-> Key(source, attribute), pages |-> pages]}
      ELSE others

\* The visitor leaves the page and opens the library again.
Revisit(s, room) == Initialise(s, revision, SavedState(room), FALSE)

-----------------------------------------------------------------------------
(* Answers. *)

UpdateBothCursors(ps, page, direction) ==
  IF ps = <<>> THEN <<page>>
  ELSE LET edge == IF direction = "previous" THEN 1 ELSE Len(ps)
       IN  [ps EXCEPT ![edge].previous = page.previous, ![edge].next = page.next]

UpdateEmptyEdge(ps, page, direction) ==
  IF ps = <<>> THEN <<page>>
  ELSE IF direction = "previous" THEN [ps EXCEPT ![1].previous = page.previous]
  ELSE [ps EXCEPT ![Len(ps)].next = page.next]

Integrated(ps, page, direction, anyDropped) ==
  CASE direction = "initial" ->
         IF page.items = {} /\ page.next = None /\ ~anyDropped THEN <<>> ELSE <<page>>
    [] direction # "initial" /\ page.items = {} -> UpdateEmptyEdge(ps, page, direction)
    [] direction = "previous" /\ page.items # {} -> <<page>> \o ps
    [] direction = "next" /\ page.items # {} -> Append(ps, page)

\* Only the poster next to the edge is asked for the focus.
CanEvictPrevious(ps, view, focus) ==
  /\ Len(ps) >= 2 /\ ps[1].items # {}
  /\ Highest(ps[1].items) # focus /\ Highest(ps[1].items) < view

CanEvictNext(ps, view, focus) ==
  /\ Len(ps) >= 2 /\ ps[Len(ps)].items # {}
  /\ Lowest(ps[Len(ps)].items) # focus /\ Lowest(ps[Len(ps)].items) > view

From(ps, k) == SubSeq(ps, k + 1, Len(ps))
UpTo(ps, k) == SubSeq(ps, 1, Len(ps) - k)

\* As many pages as it takes, from the front while that is possible.
FrontTrimmed(ps, view, focus) ==
  From(ps, Lowest({k \in 0 .. Len(ps) :
    ~(Overfull(From(ps, k)) /\ CanEvictPrevious(From(ps, k), view, focus))}))

BackTrimmed(ps, view, focus) ==
  UpTo(ps, Lowest({k \in 0 .. Len(ps) :
    ~(Overfull(UpTo(ps, k)) /\ CanEvictNext(UpTo(ps, k), view, focus))}))

\* What may be mounted after a change, by what is in view and has the focus.
Trims(ps) ==
  IF ~Overfull(ps) THEN {ps}
  ELSE UNION {{BackTrimmed(front, view, focus) : front \in {FrontTrimmed(ps, view, focus)}} :
              view \in Places, focus \in Places \cup {None}}

Current(r) == r.generation = generation

NoFrame(ps) == FALSE

\* A page without posters must not be the end of it.
FrameNeeded(ps) == Posters(ps) = {} /\ ps # <<>> /\ ps[Len(ps)].next # None

Answered(r) ==
  /\ r \in requests /\ Current(r)
  /\ requests' = requests \ {r}
  /\ retry' = None /\ loading' = None
  /\ \E page \in {ServedPage(r)} :
       /\ dropped' = (dropped \/ page.rejected)
       /\ \E grown \in {Integrated(pages, [items |-> page.items, previous |-> page.previous,
                                          next |-> page.next], r.direction, dropped')} :
            pages' \in Trims(grown)
  /\ frame' = (frame \/ FrameNeeded(pages'))
  /\ UNCHANGED <<catalogue, touched, source, attribute, generation, stored>>

Failed(r) ==
  /\ r \in requests /\ Current(r)
  /\ requests' = requests \ {r}
  /\ retry' = r.direction
  /\ loading' = None
  /\ UNCHANGED <<catalogue, touched, source, attribute, pages, dropped, frame, generation, stored>>

\* The answer to a request of an earlier initialisation.
Superseded(r) ==
  /\ r \in requests /\ ~Current(r)
  /\ requests' = requests \ {r}
  /\ UNCHANGED <<catalogue, touched, source, attribute, client, generation, stored>>

FrameFires ==
  /\ frame
  /\ frame' = FALSE
  /\ IF CanLoad("next", FALSE)
     THEN loading' = "next" /\ requests' = requests \cup {Request("next")}
     ELSE UNCHANGED <<loading, requests>>
  /\ UNCHANGED <<catalogue, touched, source, attribute, pages, retry, dropped, generation, stored>>

Scroll ==
  /\ pages' \in Trims(pages)
  /\ pages' # pages
  /\ UNCHANGED <<catalogue, touched, source, attribute, loading, retry, dropped, frame,
                 generation, requests, stored>>

-----------------------------------------------------------------------------
CatalogueChanges(p) ==
  /\ p \notin touched /\ Cardinality(touched) < MaxEdits
  /\ catalogue' = (catalogue \ {p}) \cup ({p} \ catalogue)
  /\ touched' = touched \cup {p}
  /\ UNCHANGED <<source, attribute, client, generation, requests, stored>>

Init ==
  /\ catalogue \in SUBSET Places
  /\ touched = {}
  /\ source \in Sources /\ attribute = 0
  /\ pages = <<>> /\ retry = None /\ dropped = FALSE /\ frame = FALSE
  /\ loading = "initial"
  /\ generation = 1
  /\ requests = {[generation |-> 1, source |-> source, direction |-> "initial", cursor |-> None]}
  /\ stored = {}

Answer == \E r \in requests :
  \/ Failed(r)
  \/ Answered(r)

Next ==
  \/ \E direction \in Directions : Approach(direction) \/ Retry(direction)
  \/ \E s \in Sources : ChangeSource(s)
  \/ \E s \in Sources, room \in BOOLEAN : Revisit(s, room)
  \/ Answer
  \/ \E r \in requests : Superseded(r)
  \/ FrameFires
  \/ Scroll
  \/ \E p \in Places : CatalogueChanges(p)

Fairness == WF_vars(Answer) /\ WF_vars(FrameFires)
Spec == Init /\ [][Next]_vars /\ Fairness

-----------------------------------------------------------------------------
Pages == [items : SUBSET (Places \ Unshown), previous : Places \cup {None}, next : Places \cup {None}]

TypeOK ==
  /\ catalogue \subseteq Places /\ touched \subseteq Places
  /\ source \in Sources /\ attribute \in 0 .. MaxEdits
  /\ pages \in Seq(Pages)
  /\ loading \in Directions \cup {None} /\ retry \in Directions \cup {None}
  /\ dropped \in BOOLEAN /\ frame \in BOOLEAN
  /\ generation \in 1 .. MaxVisits

\* The mounted posters match the source and stand in order, none of them twice.
InOrder ==
  /\ Mounted \subseteq Matches[source]
  /\ \A i, j \in DOMAIN pages : i < j => \A p \in pages[i].items, q \in pages[j].items : p < q

\* What was there all along and can be shown.
Kept(s) == ((catalogue \cap Matches[s]) \ touched) \ Unshown

\* Where loading at either edge does not come any more.
Reach(ps) ==
  {p \in Places : /\ ps[1].previous = None \/ ps[1].previous <= p
                  /\ ps[Len(ps)].next = None \/ p <= ps[Len(ps)].next}

Whole(ps, s) == ps # <<>> => Kept(s) \cap Reach(ps) \subseteq Posters(ps)

\* No poster is left out between the edges, of what is mounted or stored.
NoneLeftOut == Whole(pages, source) /\ \A k \in stored : Whole(k.pages, k.key[1])

\* The page a request goes on from was evicted while it was on its way.
Overtaken(r) == r.direction # "initial" /\ r.cursor # EdgeCursor(r.direction)

SegmentStep ==
  /\ InOrder => InOrder'
  /\ NoneLeftOut => NoneLeftOut' \/ \E r \in requests : Overtaken(r) /\ Answered(r)

\* The mounted pages are a piece of the catalogue of the source that is shown:
\* in order, no poster twice, and no poster left out between the edges that was
\* there all along, whatever was evicted, restored, answered late or empty.  Only
\* the answer to a request whose page was evicted meanwhile may leave posters out.
MountedIsSegment == [][SegmentStep]_vars

Exhausted == loading = None /\ (pages = <<>> \/ pages[Len(pages)].next = None)

\* An empty grid is filled, offers a retry, or has seen the whole catalogue: a
\* page without a poster that can be shown is never where loading stops.
GridFills == Mounted = {} ~> Mounted # {} \/ retry # None \/ Exhausted
=============================================================================
