----------------------------- MODULE WatchState -----------------------------
(***************************************************************************)
(* Katalog's persisted watched state, one viewer at a time.                *)
(*                                                                         *)
(* The catalogue is a tree of library items (table library_item).  A       *)
(* viewer's row for a playable item says that it was started or completed; *)
(* a row for a season or a series is derived: it exists, completed, when   *)
(* the container has children and every one of them is completed           *)
(* (kasana/katalog/services.py, "synchronise_parent_completions").  Each   *)
(* viewer has a revision with which saved poster grids are invalidated.    *)
(*                                                                         *)
(* Here every operation is one step, as SQLite executes it when no other   *)
(* request runs at the same time.  WatchRequests splits the viewers'       *)
(* operations at the statement that takes SQLite's writer lock, TreeEdits  *)
(* the edits of the tree and the scans, and SavedGrids adds the poster     *)
(* grids a browser keeps.                                                  *)
(***************************************************************************)
EXTENDS Naturals, Sequences, FiniteSets

CONSTANTS
    Items,        \* identifiers a library_item row can have
    Users,        \* configured viewers
    NoItem,       \* NULL in parent_id
    Catalogues,   \* catalogues the behaviours start from
    MaxRevision   \* bound on a viewer's revision (the code has none)

VARIABLES
    kind,      \* item_kind of every row, "absent" where there is no row
    parent,    \* parent_id of every row
    media,     \* the items that own media files
    watch,     \* playback_state rows: watch[u][i]
    revision   \* user.playback_state_revision

catalogueVars == <<kind, parent, media>>
vars == <<kind, parent, media, watch, revision>>

Kinds == {"movie", "series", "season", "episode", "special", "extra"}
PlayableKinds == {"movie", "episode", "special", "extra"}
EpisodicKinds == {"episode", "special"}
SeriesChildKinds == {"season", "special"}

(* "started" stands for every row whose completed flag is off. *)
WatchValues == {"none", "started", "completed"}

(* The kinds a row of kind k may hang under; none of them: a top-level row. *)
AllowedParentKinds(k) ==
    CASE k = "season"  -> {"series"}
      [] k = "episode" -> {"season"}
      [] k = "special" -> {"series", "season"}
      [] k = "extra"   -> {"movie", "series", "season", "episode", "special"}
      [] OTHER         -> {}

(* validate_library_item_parent: what the catalogue accepts as parent p of  *)
(* a row of kind k, in a catalogue whose rows have the kinds kd.            *)
ValidParent(kd, k, p) ==
    IF AllowedParentKinds(k) = {}
    THEN p = NoItem
    ELSE p \in Items /\ kd[p] \in AllowedParentKinds(k)

ValidCatalogue(kd, pa) ==
    \A i \in Items : IF kd[i] = "absent" THEN pa[i] = NoItem
                                         ELSE ValidParent(kd, kd[i], pa[i])

ASSUME WatchStateAssumption ==
    /\ NoItem \notin Items
    /\ MaxRevision \in Nat
    /\ \A c \in Catalogues :
          /\ c.kind \in [Items -> Kinds \cup {"absent"}]
          /\ c.parent \in [Items -> Items \cup {NoItem}]
          /\ c.media \subseteq {i \in Items : c.kind[i] \in PlayableKinds}
          /\ ValidCatalogue(c.kind, c.parent)

(***************************************************************************)
(* The completion roll-up.  Its operators take the catalogue (kd, pa) and  *)
(* one viewer's rows (w) as arguments: a request may hold values it read   *)
(* before the writer lock.                                                 *)
(***************************************************************************)
Children(kd, pa, c, childKinds) ==
    {i \in Items : pa[i] = c /\ kd[i] \in childKinds}

ChildrenAreCompleted(kd, pa, w, c, childKinds) ==
    /\ Children(kd, pa, c, childKinds) # {}
    /\ \A i \in Children(kd, pa, c, childKinds) : w[i] = "completed"

(* _completion_containers: the seasons and series whose roll-up the rows of *)
(* the items X can change.                                                  *)
SeasonsOf(kd, pa, X) ==
    {s \in Items : /\ kd[s] = "season"
                   /\ \/ s \in X
                      \/ \E i \in X : kd[i] \in EpisodicKinds /\ pa[i] = s}

SeriesOf(kd, pa, X) ==
    {r \in Items : /\ kd[r] = "series"
                   /\ \/ r \in X
                      \/ \E i \in X : kd[i] = "special" /\ pa[i] = r
                      \/ \E s \in SeasonsOf(kd, pa, X) : pa[s] = r}

(* _synchronise_completion_state, for every container in C. *)
SynchroniseCompletion(kd, pa, w, C, childKinds) ==
    [i \in Items |-> IF i \notin C THEN w[i]
                     ELSE IF ChildrenAreCompleted(kd, pa, w, i, childKinds)
                          THEN "completed" ELSE "none"]

(* Seasons first: a series' roll-up reads the rows just written for them. *)
SynchroniseContainers(kd, pa, w, seasons, series) ==
    SynchroniseCompletion(kd, pa,
        SynchroniseCompletion(kd, pa, w, seasons, EpisodicKinds),
        series, SeriesChildKinds)

SynchroniseParents(kd, pa, w, X) ==
    SynchroniseContainers(kd, pa, w, SeasonsOf(kd, pa, X), SeriesOf(kd, pa, X))

Store(w, X, value) == [i \in Items |-> IF i \in X THEN value ELSE w[i]]

(* The playable rows one watched-state action on item i stands for. *)
WatchedStateItems(kd, pa, i) ==
    CASE kd[i] = "season" -> Children(kd, pa, i, EpisodicKinds)
      [] kd[i] = "series" ->
            Children(kd, pa, i, {"special"}) \cup
            UNION {Children(kd, pa, s, EpisodicKinds) :
                      s \in Children(kd, pa, i, {"season"})}
      [] OTHER -> {i}

(* _require_watched_state_items: the containers that can be marked. *)
MayMarkWatched(kd, pa, i) ==
    LET seasons == Children(kd, pa, i, {"season"})
    IN  CASE kd[i] = "season" -> WatchedStateItems(kd, pa, i) # {}
          [] kd[i] = "series" ->
                IF seasons # {}
                THEN \A s \in seasons : Children(kd, pa, s, EpisodicKinds) # {}
                ELSE Children(kd, pa, i, {"special"}) # {}
          [] OTHER -> TRUE

-----------------------------------------------------------------------------
Init ==
    /\ \E c \in Catalogues : kind = c.kind /\ parent = c.parent /\ media = c.media
    /\ watch = [u \in Users |-> [i \in Items |-> "none"]]
    /\ revision = [u \in Users |-> 1]

(* bump_playback_state_revision *)
BumpRevision(u) ==
    /\ revision[u] < MaxRevision
    /\ revision' = [revision EXCEPT ![u] = @ + 1]

(* PUT playback progress of one item (KatalogService.update_progress). *)
UpdateProgress(u, i, completed) ==
    /\ kind[i] \in PlayableKinds
    /\ LET stored == Store(watch[u], {i}, IF completed THEN "completed" ELSE "started")
       IN  watch' = [watch EXCEPT ![u] = SynchroniseParents(kind, parent, stored, {i})]
    /\ BumpRevision(u)
    /\ UNCHANGED catalogueVars

(* Mark an item, a season or a series watched (KatalogService.mark_watched). *)
MarkWatched(u, i) ==
    LET X == WatchedStateItems(kind, parent, i)
    IN  /\ kind[i] # "absent"
        /\ MayMarkWatched(kind, parent, i)
        /\ watch' = [watch EXCEPT ![u] =
                        SynchroniseParents(kind, parent, Store(@, X, "completed"), X)]
        /\ BumpRevision(u)
        /\ UNCHANGED catalogueVars

(* Clear the rows below an item and its own (KatalogService.clear_watched). *)
ClearWatched(u, i) ==
    LET X == WatchedStateItems(kind, parent, i) \cup {i}
    IN  /\ kind[i] # "absent"
        /\ watch' = [watch EXCEPT ![u] =
                        SynchroniseParents(kind, parent, Store(@, X, "none"), X)]
        /\ BumpRevision(u)
        /\ UNCHANGED catalogueVars

-----------------------------------------------------------------------------
(* The kinds of the rows a media file's path stands for, outermost first     *)
(* (materialise_item).                                                       *)
FilePaths ==
    {<<"movie">>, <<"movie", "extra">>, <<"series", "extra">>,
     <<"series", "special">>, <<"series", "season", "episode">>}

(* The items such a path can name: a different one for each kind. *)
Chains(path) ==
    {chain \in [1..Len(path) -> Items] :
        \A m, n \in 1..Len(path) : chain[m] = chain[n] => m = n}

Absent(i) == kind[i] = "absent"

(* The catalogue has the first n rows of the chain and none of the others    *)
(* (item_cache: a season, a special or an extra is looked up below its       *)
(* parent, a movie at the top).                                              *)
Found(path, chain, n) ==
    /\ \A m \in 1..n :
          /\ kind[chain[m]] = path[m]
          /\ IF m > 1 THEN parent[chain[m]] = chain[m - 1]
                      ELSE path[1] = "movie" => parent[chain[1]] = NoItem
    /\ \A m \in (n + 1)..Len(path) : Absent(chain[m])

(* The rows that were not found are inserted, each below the one before it,  *)
(* and the file is attached to the innermost.                                *)
InsertRows(path, chain, n) ==
    LET new == {chain[m] : m \in (n + 1)..Len(path)}
        Place(i) == CHOOSE m \in 1..Len(path) : chain[m] = i
    IN  /\ kind' = [i \in Items |-> IF i \in new THEN path[Place(i)] ELSE kind[i]]
        /\ parent' = [i \in Items |-> IF i \notin new THEN parent[i]
                                      ELSE IF Place(i) = 1 THEN NoItem
                                      ELSE chain[Place(i) - 1]]
        /\ media' = media \cup {chain[Len(path)]}

(* A scan that adds one media file.                                          *)
ScanFile(path, chain) ==
    /\ \E n \in 0..Len(path) : Found(path, chain, n) /\ InsertRows(path, chain, n)
    /\ UNCHANGED <<watch, revision>>

(* _item_descendant_ids: i and whatever hangs below it, the smallest set     *)
(* that holds i and the children of its members.                             *)
Subtree(i) ==
    {j \in Items :
        \A S \in SUBSET Items :
            i \in S /\ (\A c \in Items : parent[c] \in S => c \in S) => j \in S}

(* Mutant: a removal that bumps the viewers of the item's own row only. *)
DeleteItem_BumpsOwnRow(i) ==
    LET gone == Subtree(i)
        affected == {u \in Users : watch[u][i] # "none"}
    IN  /\ kind[i] # "absent"
        /\ \A u \in affected : revision[u] < MaxRevision
        /\ kind' = [j \in Items |-> IF j \in gone THEN "absent" ELSE kind[j]]
        /\ parent' = [j \in Items |-> IF j \in gone THEN NoItem ELSE parent[j]]
        /\ media' = media \ gone
        /\ watch' = [u \in Users |-> Store(watch[u], gone, "none")]
        /\ revision' = [u \in Users |-> IF u \in affected THEN revision[u] + 1
                                                          ELSE revision[u]]

(* An item is removed with everything below it; the viewers whose rows the  *)
(* cascade removes get a new revision (delete_item).                        *)
DeleteItem(i) ==
    LET gone == Subtree(i)
        affected == {u \in Users : \E j \in gone : watch[u][j] # "none"}
    IN  /\ kind[i] # "absent"
        /\ \A u \in affected : revision[u] < MaxRevision
        /\ kind' = [j \in Items |-> IF j \in gone THEN "absent" ELSE kind[j]]
        /\ parent' = [j \in Items |-> IF j \in gone THEN NoItem ELSE parent[j]]
        /\ media' = media \ gone
        /\ watch' = [u \in Users |-> Store(watch[u], gone, "none")]
        /\ revision' = [u \in Users |-> IF u \in affected THEN revision[u] + 1
                                                          ELSE revision[u]]

-----------------------------------------------------------------------------
PlaybackNext ==
    \E u \in Users, i \in Items :
        \/ \E completed \in BOOLEAN : UpdateProgress(u, i, completed)
        \/ MarkWatched(u, i)
        \/ ClearWatched(u, i)

CatalogueNext ==
    \/ \E path \in FilePaths : \E chain \in Chains(path) : ScanFile(path, chain)
    \/ \E i \in Items : DeleteItem(i)

(* The catalogue stays as it is: viewers only watch, mark and clear. *)
PlaybackSpec == Init /\ [][PlaybackNext]_vars

(* Viewers, scans and removals. *)
Next == PlaybackNext \/ CatalogueNext
Spec == Init /\ [][Next]_vars

-----------------------------------------------------------------------------
TypeOK ==
    /\ kind \in [Items -> Kinds \cup {"absent"}]
    /\ parent \in [Items -> Items \cup {NoItem}]
    /\ media \subseteq Items
    /\ watch \in [Users -> [Items -> WatchValues]]
    /\ revision \in [Users -> Nat \ {0}]

(* The catalogue is a forest of the shape the parent rules allow: no        *)
(* orphan, no episode under a movie, and no container that owns media       *)
(* files.                                                                   *)
HierarchyIsValid ==
    /\ ValidCatalogue(kind, parent)
    /\ \A i \in media : kind[i] \in PlayableKinds

(* A viewer's rows never outlive the item they are about. *)
NoOrphanRows ==
    \A u \in Users, i \in Items : watch[u][i] # "none" => kind[i] # "absent"

SeasonAligned(u, s) ==
    watch[u][s] = IF ChildrenAreCompleted(kind, parent, watch[u], s, EpisodicKinds)
                  THEN "completed" ELSE "none"

SeriesAligned(u, r) ==
    watch[u][r] = IF ChildrenAreCompleted(kind, parent, watch[u], r, SeriesChildKinds)
                  THEN "completed" ELSE "none"

(* "Keep season and series completion aligned with their watched children": *)
(* a season has a completed row exactly when it has episodes or specials    *)
(* and all of them are completed, and a series when all its seasons and its *)
(* direct specials are.                                                     *)
RollupAligned ==
    \A u \in Users, c \in Items :
        /\ kind[c] = "season" => SeasonAligned(u, c)
        /\ kind[c] = "series" => SeriesAligned(u, c)
=============================================================================
