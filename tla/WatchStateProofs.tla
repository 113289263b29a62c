-------------------------- MODULE WatchStateProofs --------------------------
(***************************************************************************)
(* Proofs about WatchState, for every set of items, every set of viewers   *)
(* and every catalogue, about the overlapping requests of WatchRequests    *)
(* that implement its operations, about the saved grids of SavedGrids and  *)
(* about the overlapping edits and scans of TreeEdits.                     *)
(***************************************************************************)
EXTENDS SavedGrids, TreeEdits, TLAPS

(* One container's row agrees with its children in the rows w. *)
RowAligned(kd, pa, w, c) ==
    /\ kd[c] = "season" =>
          w[c] = IF ChildrenAreCompleted(kd, pa, w, c, EpisodicKinds)
                 THEN "completed" ELSE "none"
    /\ kd[c] = "series" =>
          w[c] = IF ChildrenAreCompleted(kd, pa, w, c, SeriesChildKinds)
                 THEN "completed" ELSE "none"

-----------------------------------------------------------------------------
(* Synchronising the containers of some items restores the agreement that  *)
(* writing those items' rows may have broken, and touches no other          *)
(* agreement (synchronise_parent_completions).                              *)
LEMMA SynchroniseParentsAligns ==
    ASSUME NEW kd, NEW pa, NEW w, NEW X \in SUBSET Items, NEW v,
           \A c \in Items : RowAligned(kd, pa, w, c)
    PROVE  \A c \in Items :
              RowAligned(kd, pa, SynchroniseParents(kd, pa, Store(w, X, v), X), c)
<1> DEFINE s == Store(w, X, v)
           S == SeasonsOf(kd, pa, X)
           R == SeriesOf(kd, pa, X)
           a == SynchroniseCompletion(kd, pa, s, S, EpisodicKinds)
           b == SynchroniseCompletion(kd, pa, a, R, SeriesChildKinds)
<1>1. SynchroniseParents(kd, pa, Store(w, X, v), X) = b
  BY DEF SynchroniseParents, SynchroniseContainers
<1>2. \A i \in Items : i \notin X => s[i] = w[i]
  BY DEF Store
<1>3. \A i \in Items : kd[i] # "season" => a[i] = s[i]
  BY DEF SynchroniseCompletion, SeasonsOf
<1>4. \A i \in Items : i \notin S => a[i] = s[i]
  BY DEF SynchroniseCompletion
<1>5. \A i \in Items : kd[i] # "series" => b[i] = a[i]
  BY DEF SynchroniseCompletion, SeriesOf
<1>6. \A i \in Items : i \notin R => b[i] = a[i]
  BY DEF SynchroniseCompletion
<1>7. ASSUME NEW c \in Items, kd[c] = "season"
      PROVE  RowAligned(kd, pa, b, c)
  <2>1. \A i \in Children(kd, pa, c, EpisodicKinds) : i \in Items /\ b[i] = s[i]
    BY <1>3, <1>5 DEF Children, EpisodicKinds
  <2>2. b[c] = a[c]
    BY <1>5, <1>7
  <2>3. CASE c \in S
    <3>1. a[c] = IF ChildrenAreCompleted(kd, pa, s, c, EpisodicKinds)
                 THEN "completed" ELSE "none"
      BY <2>3 DEF SynchroniseCompletion
    <3> QED BY <1>7, <2>1, <2>2, <3>1 DEF RowAligned, ChildrenAreCompleted
  <2>4. CASE c \notin S
    <3>1. \A i \in Children(kd, pa, c, EpisodicKinds) : i \notin X
      BY <1>7, <2>4 DEF SeasonsOf, Children
    <3>2. c \notin X
      BY <1>7, <2>4 DEF SeasonsOf
    <3>3. b[c] = w[c]
      BY <1>2, <1>4, <2>2, <2>4, <3>2
    <3>4. \A i \in Children(kd, pa, c, EpisodicKinds) : b[i] = w[i]
      BY <1>2, <2>1, <3>1
    <3> QED BY <1>7, <3>3, <3>4 DEF RowAligned, ChildrenAreCompleted
  <2> QED BY <2>3, <2>4
<1>8. ASSUME NEW c \in Items, kd[c] = "series"
      PROVE  RowAligned(kd, pa, b, c)
  <2>1. \A i \in Children(kd, pa, c, SeriesChildKinds) : i \in Items /\ b[i] = a[i]
    BY <1>5 DEF Children, SeriesChildKinds
  <2>2. CASE c \in R
    <3>1. b[c] = IF ChildrenAreCompleted(kd, pa, a, c, SeriesChildKinds)
                 THEN "completed" ELSE "none"
      BY <2>2 DEF SynchroniseCompletion
    <3> QED BY <1>8, <2>1, <3>1 DEF RowAligned, ChildrenAreCompleted
  <2>3. CASE c \notin R
    <3>1. \A i \in Children(kd, pa, c, SeriesChildKinds) : i \notin S
      BY <1>8, <2>3 DEF SeriesOf, SeasonsOf, Children
    <3>2. \A i \in Children(kd, pa, c, SeriesChildKinds) : i \notin X
      BY <1>8, <2>3, <3>1 DEF SeriesOf, SeasonsOf, Children, SeriesChildKinds
    <3>3. c \notin X /\ c \notin S
      BY <1>8, <2>3 DEF SeriesOf, SeasonsOf
    <3>4. b[c] = w[c]
      BY <1>2, <1>4, <1>6, <2>3, <3>3
    <3>5. \A i \in Children(kd, pa, c, SeriesChildKinds) : b[i] = w[i]
      BY <1>2, <1>4, <2>1, <3>1, <3>2
    <3> QED BY <1>8, <3>4, <3>5 DEF RowAligned, ChildrenAreCompleted
  <2> QED BY <2>2, <2>3
<1> QED BY <1>1, <1>7, <1>8 DEF RowAligned

(* What the roll-up writes are rows of the table. *)
LEMMA SynchroniseParentsType ==
    ASSUME NEW kd, NEW pa, NEW w \in [Items -> WatchValues], NEW X \in SUBSET Items,
           NEW v \in WatchValues
    PROVE  SynchroniseParents(kd, pa, Store(w, X, v), X) \in [Items -> WatchValues]
<1>1. Store(w, X, v) \in [Items -> WatchValues]
  BY DEF Store
<1>2. ASSUME NEW f \in [Items -> WatchValues], NEW C, NEW ck
      PROVE  SynchroniseCompletion(kd, pa, f, C, ck) \in [Items -> WatchValues]
  BY DEF SynchroniseCompletion, WatchValues
<1> QED BY <1>1, <1>2 DEF SynchroniseParents, SynchroniseContainers

(* The roll-up writes rows of seasons and series only. *)
LEMMA SynchroniseParentsTouches ==
    ASSUME NEW kd, NEW pa, NEW w, NEW X \in SUBSET Items, NEW v, NEW i \in Items,
           i \notin X, kd[i] \notin {"season", "series"}
    PROVE  SynchroniseParents(kd, pa, Store(w, X, v), X)[i] = w[i]
BY DEF SynchroniseParents, SynchroniseContainers, SynchroniseCompletion,
       SeasonsOf, SeriesOf, Store

LEMMA WatchedStateItemsAreItems ==
    ASSUME NEW kd, NEW pa, NEW i \in Items
    PROVE  WatchedStateItems(kd, pa, i) \subseteq Items
<1>1. \A c, ck : Children(kd, pa, c, ck) \subseteq Items
  BY DEF Children
<1>2. CASE kd[i] = "season"
  BY <1>1, <1>2 DEF WatchedStateItems
<1>3. CASE kd[i] = "series"
  BY <1>1, <1>3 DEF WatchedStateItems
<1>4. CASE kd[i] \notin {"season", "series"}
  BY <1>4 DEF WatchedStateItems
<1> QED BY <1>2, <1>3, <1>4

(* The three operations have one shape: the rows of some items X of one     *)
(* viewer get a value, then the containers of X are synchronised.           *)
PlaybackWrite(u, X, v) ==
    /\ watch' = [watch EXCEPT ![u] =
                    SynchroniseParents(kind, parent, Store(watch[u], X, v), X)]
    /\ BumpRevision(u)
    /\ UNCHANGED catalogueVars

LEMMA PlaybackNextIsWrite ==
    ASSUME TypeOK, PlaybackNext
    PROVE  \E u \in Users, X \in SUBSET Items, v \in WatchValues : PlaybackWrite(u, X, v)
<1>1. PICK u \in Users, i \in Items :
        (\E completed \in BOOLEAN : UpdateProgress(u, i, completed))
            \/ MarkWatched(u, i) \/ ClearWatched(u, i)
  BY DEF PlaybackNext
<1>2. ASSUME NEW completed \in BOOLEAN, UpdateProgress(u, i, completed)
      PROVE  \E v \in WatchValues : PlaybackWrite(u, {i}, v)
  BY <1>2 DEF UpdateProgress, PlaybackWrite, WatchValues
<1>3. CASE MarkWatched(u, i)
  <2>1. PlaybackWrite(u, WatchedStateItems(kind, parent, i), "completed")
    BY <1>3 DEF MarkWatched, PlaybackWrite, TypeOK
  <2> QED BY <2>1, WatchedStateItemsAreItems DEF WatchValues
<1>4. CASE ClearWatched(u, i)
  <2>1. PlaybackWrite(u, WatchedStateItems(kind, parent, i) \cup {i}, "none")
    BY <1>4 DEF ClearWatched, PlaybackWrite, TypeOK
  <2> QED BY <2>1, WatchedStateItemsAreItems DEF WatchValues
<1> QED BY <1>1, <1>2, <1>3, <1>4

-----------------------------------------------------------------------------
(* Type correctness, for viewers, scans and removals. *)
LEMMA InitType == Init => TypeOK
BY WatchStateAssumption DEF Init, TypeOK, WatchValues

LEMMA PlaybackNextType ==
    ASSUME TypeOK, PlaybackNext
    PROVE  TypeOK'
<1>1. PICK u \in Users, X \in SUBSET Items, v \in WatchValues : PlaybackWrite(u, X, v)
  BY PlaybackNextIsWrite
<1>2. watch[u] \in [Items -> WatchValues]
  BY DEF TypeOK
<1>3. watch' \in [Users -> [Items -> WatchValues]]
  BY <1>1, <1>2, SynchroniseParentsType DEF PlaybackWrite, TypeOK
<1>4. revision' \in [Users -> Nat \ {0}]
  BY <1>1 DEF PlaybackWrite, BumpRevision, TypeOK
<1> QED BY <1>1, <1>3, <1>4 DEF PlaybackWrite, catalogueVars, TypeOK

LEMMA DeleteItemType ==
    ASSUME TypeOK, NEW i \in Items, DeleteItem(i)
    PROVE  TypeOK'
<1>1. kind' \in [Items -> Kinds \cup {"absent"}] /\ parent' \in [Items -> Items \cup {NoItem}]
  BY DEF DeleteItem, TypeOK
<1>2. watch' \in [Users -> [Items -> WatchValues]]
  BY DEF DeleteItem, TypeOK, Store, WatchValues
<1>3. revision' \in [Users -> Nat \ {0}]
  BY DEF DeleteItem, TypeOK
<1>4. media' \subseteq Items
  BY DEF DeleteItem, TypeOK
<1> QED BY <1>1, <1>2, <1>3, <1>4 DEF TypeOK

(* The paths of media files, as the parent rules see them. *)
LEMMA PathShape ==
    ASSUME NEW path \in FilePaths
    PROVE  /\ Len(path) \in Nat \ {0}
           /\ \A m \in 1..Len(path) : path[m] \in Kinds
           /\ \A m \in 1..Len(path) :
                 IF m = 1 THEN AllowedParentKinds(path[m]) = {}
                          ELSE path[m - 1] \in AllowedParentKinds(path[m])
           /\ path[Len(path)] \in PlayableKinds
<1>1. CASE path = <<"movie">>
  BY <1>1 DEF AllowedParentKinds, Kinds, PlayableKinds
<1>2. CASE path = <<"movie", "extra">>
  BY <1>2 DEF AllowedParentKinds, Kinds, PlayableKinds
<1>3. CASE path = <<"series", "extra">>
  BY <1>3 DEF AllowedParentKinds, Kinds, PlayableKinds
<1>4. CASE path = <<"series", "special">>
  BY <1>4 DEF AllowedParentKinds, Kinds, PlayableKinds
<1>5. CASE path = <<"series", "season", "episode">>
  BY <1>5 DEF AllowedParentKinds, Kinds, PlayableKinds
<1> QED BY <1>1, <1>2, <1>3, <1>4, <1>5 DEF FilePaths

(* What the insertion of a chain's missing rows does. *)
LEMMA InsertedRows ==
    ASSUME TypeOK, NEW path \in FilePaths, NEW chain \in Chains(path),
           NEW n \in 0..Len(path), \A m \in (n + 1)..Len(path) : Absent(chain[m]),
           InsertRows(path, chain, n)
    PROVE  /\ kind' \in [Items -> Kinds \cup {"absent"}]
           /\ parent' \in [Items -> Items \cup {NoItem}]
           /\ media' \subseteq Items
           /\ \A i \in Items : \/ kind'[i] = kind[i] /\ parent'[i] = parent[i]
                               \/ /\ kind[i] = "absent"
                                  /\ \E m \in (n + 1)..Len(path) :
                                        /\ i = chain[m] /\ kind'[i] = path[m]
                                        /\ parent'[i] = IF m = 1 THEN NoItem ELSE chain[m - 1]
           /\ \A m \in (n + 1)..Len(path) : kind'[chain[m]] = path[m]
<1> DEFINE last == Len(path)
           new == {chain[m] : m \in (n + 1)..last}
           Place(i) == CHOOSE m \in 1..last : chain[m] = i
<1>1. last \in Nat \ {0} /\ \A m \in 1..last : path[m] \in Kinds
  BY PathShape
<1>2. chain \in [1..last -> Items] /\ \A m, k \in 1..last : chain[m] = chain[k] => m = k
  BY DEF Chains
<1>3. \A m \in (n + 1)..last : m \in 1..last
  BY <1>1
<1>4. ASSUME NEW m \in 1..last PROVE Place(chain[m]) = m
  <2>1. Place(chain[m]) \in 1..last /\ chain[Place(chain[m])] = chain[m]
    BY <1>4
  <2> QED BY <1>2, <2>1
<1> HIDE DEF last, Place
<1>5. /\ kind' = [i \in Items |-> IF i \in new THEN path[Place(i)] ELSE kind[i]]
      /\ parent' = [i \in Items |-> IF i \notin new THEN parent[i]
                                    ELSE IF Place(i) = 1 THEN NoItem
                                    ELSE chain[Place(i) - 1]]
      /\ media' = media \cup {chain[last]}
  BY DEF InsertRows, last, Place
<1>6. ASSUME NEW m \in (n + 1)..last
      PROVE  /\ chain[m] \in Items /\ kind[chain[m]] = "absent"
             /\ kind'[chain[m]] = path[m]
             /\ parent'[chain[m]] = IF m = 1 THEN NoItem ELSE chain[m - 1]
  <2>1. m \in 1..last /\ chain[m] \in new /\ chain[m] \in Items /\ Place(chain[m]) = m
    BY <1>2, <1>3, <1>4
  <2>2. kind[chain[m]] = "absent"
    BY DEF Absent, last
  <2> QED BY <1>5, <2>1, <2>2
<1>7. ASSUME NEW i \in Items, i \notin new
      PROVE  kind'[i] = kind[i] /\ parent'[i] = parent[i]
  BY <1>5, <1>7
<1>8. ASSUME NEW i \in Items
      PROVE  kind'[i] \in Kinds \cup {"absent"} /\ parent'[i] \in Items \cup {NoItem}
  <2>1. CASE i \notin new
    BY <1>7, <2>1 DEF TypeOK
  <2>2. CASE i \in new
    <3>1. PICK m \in (n + 1)..last : i = chain[m]
      BY <2>2
    <3>2. m \in 1..last /\ path[m] \in Kinds /\ (m # 1 => m - 1 \in 1..last)
      BY <1>1, <1>3, <3>1
    <3>3. m # 1 => chain[m - 1] \in Items
      BY <1>2, <3>2
    <3> QED BY <1>6, <3>1, <3>2, <3>3
  <2> QED BY <2>1, <2>2
<1>9. kind' \in [Items -> Kinds \cup {"absent"}] /\ parent' \in [Items -> Items \cup {NoItem}]
  BY <1>5, <1>8
<1>10. media' \subseteq Items
  <2>1. last \in 1..last
    BY <1>1
  <2>2. chain[last] \in Items
    BY <1>2, <2>1
  <2> QED BY <1>5, <2>2 DEF TypeOK
<1>11. ASSUME NEW i \in Items
       PROVE  \/ kind'[i] = kind[i] /\ parent'[i] = parent[i]
              \/ /\ kind[i] = "absent"
                 /\ \E m \in (n + 1)..last :
                       /\ i = chain[m] /\ kind'[i] = path[m]
                       /\ parent'[i] = IF m = 1 THEN NoItem ELSE chain[m - 1]
  <2>1. CASE i \notin new
    BY <1>7, <2>1
  <2>2. CASE i \in new
    <3>1. PICK m \in (n + 1)..last : i = chain[m]
      BY <2>2
    <3> QED BY <1>6, <3>1
  <2> QED BY <2>1, <2>2
<1> QED BY <1>6, <1>9, <1>10, <1>11 DEF last

(* A scan's step is such an insertion. *)
LEMMA ScanInserts ==
    ASSUME NEW path \in FilePaths, NEW chain \in Chains(path), ScanFile(path, chain)
    PROVE  /\ \E n \in 0..Len(path) :
                 /\ \A m \in (n + 1)..Len(path) : Absent(chain[m])
                 /\ n > 0 => kind[chain[n]] = path[n]
                 /\ InsertRows(path, chain, n)
           /\ UNCHANGED <<watch, revision>>
<1>1. PICK n \in 0..Len(path) : Found(path, chain, n) /\ InsertRows(path, chain, n)
  BY DEF ScanFile
<1>2. Len(path) \in Nat
  BY PathShape
<1>3. n > 0 => n \in 1..n
  BY <1>2
<1> QED BY <1>1, <1>3 DEF ScanFile, Found

LEMMA CatalogueNextType ==
    ASSUME TypeOK, CatalogueNext
    PROVE  TypeOK'
<1>1. ASSUME NEW path \in FilePaths, NEW chain \in Chains(path), ScanFile(path, chain)
      PROVE  TypeOK'
  <2>1. PICK n \in 0..Len(path) : /\ \A m \in (n + 1)..Len(path) : Absent(chain[m])
                                  /\ InsertRows(path, chain, n)
    BY <1>1, ScanInserts
  <2>2. UNCHANGED <<watch, revision>>
    BY <1>1 DEF ScanFile
  <2>3. /\ kind' \in [Items -> Kinds \cup {"absent"}]
        /\ parent' \in [Items -> Items \cup {NoItem}] /\ media' \subseteq Items
    BY <2>1, InsertedRows
  <2> QED BY <2>2, <2>3 DEF TypeOK
<1> QED BY <1>1, DeleteItemType DEF CatalogueNext

(* Every reachable state is well typed, scans and removals included.         *)
THEOREM TypeCorrect == Spec => []TypeOK
<1>1. TypeOK /\ [Next]_vars => TypeOK'
  <2>1. TypeOK /\ UNCHANGED vars => TypeOK'
    BY DEF vars, TypeOK
  <2> QED BY <2>1, PlaybackNextType, CatalogueNextType DEF Next
<1> QED BY InitType, <1>1, PTL DEF Spec

(* So is every state that playback alone reaches on a fixed catalogue.       *)
THEOREM PlaybackTypeCorrect == PlaybackSpec => []TypeOK
<1>1. TypeOK /\ [PlaybackNext]_vars => TypeOK'
  <2>1. TypeOK /\ UNCHANGED vars => TypeOK'
    BY DEF vars, TypeOK
  <2> QED BY <2>1, PlaybackNextType
<1> QED BY InitType, <1>1, PTL DEF PlaybackSpec

-----------------------------------------------------------------------------
(* Season and series completion stay aligned with their children as long   *)
(* as viewers are the only ones who write.                                  *)
LEMMA RollupIsRowAligned ==
    RollupAligned <=> \A u \in Users, c \in Items : RowAligned(kind, parent, watch[u], c)
BY DEF RollupAligned, RowAligned, SeasonAligned, SeriesAligned

LEMMA RollupIsRowAlignedNext ==
    RollupAligned' <=>
        \A u \in Users, c \in Items : RowAligned(kind', parent', watch'[u], c)
BY DEF RollupAligned, RowAligned, SeasonAligned, SeriesAligned

LEMMA InitRollup == Init => RollupAligned
BY DEF Init, RollupAligned, SeasonAligned, SeriesAligned, ChildrenAreCompleted, Children

LEMMA PlaybackNextRollup ==
    ASSUME TypeOK, RollupAligned, PlaybackNext
    PROVE  RollupAligned'
<1>1. PICK u \in Users, X \in SUBSET Items, v \in WatchValues : PlaybackWrite(u, X, v)
  BY PlaybackNextIsWrite
<1>2. kind' = kind /\ parent' = parent
  BY <1>1 DEF PlaybackWrite, catalogueVars
<1>3. \A c \in Items : RowAligned(kind, parent, watch'[u], c)
  <2>1. \A c \in Items : RowAligned(kind, parent, watch[u], c)
    BY RollupIsRowAligned
  <2>2. watch'[u] = SynchroniseParents(kind, parent, Store(watch[u], X, v), X)
    BY <1>1 DEF PlaybackWrite, TypeOK
  <2> QED BY <2>1, <2>2, SynchroniseParentsAligns
<1>4. \A x \in Users : x # u => watch'[x] = watch[x]
  BY <1>1 DEF PlaybackWrite, TypeOK
<1> QED BY <1>2, <1>3, <1>4, RollupIsRowAligned, RollupIsRowAlignedNext

(* On a fixed catalogue a season or a series has a completed row exactly     *)
(* when it has counted children and all of them are completed: every         *)
(* operation that changes a row rolls it up to the series.                   *)
THEOREM RollupStaysAligned == PlaybackSpec => []RollupAligned
<1>1. TypeOK /\ RollupAligned /\ [PlaybackNext]_vars => RollupAligned'
  <2>1. RollupAligned /\ UNCHANGED vars => RollupAligned'
    BY DEF vars, RollupAligned, SeasonAligned, SeriesAligned, ChildrenAreCompleted, Children
  <2> QED BY <2>1, PlaybackNextRollup
<1> QED BY InitRollup, PlaybackTypeCorrect, <1>1, PTL DEF PlaybackSpec

-----------------------------------------------------------------------------
(* Every change of a viewer's rows advances that viewer's revision.         *)
LEMMA NextAdvances ==
    ASSUME TypeOK, Next, NEW u \in Users, watch'[u] # watch[u]
    PROVE  revision'[u] > revision[u]
<1>1. CASE PlaybackNext
  <2>1. PICK x \in Users, X \in SUBSET Items, v \in WatchValues : PlaybackWrite(x, X, v)
    BY <1>1, PlaybackNextIsWrite
  <2>2. x = u
    BY <2>1 DEF PlaybackWrite, TypeOK
  <2> QED BY <2>1, <2>2 DEF PlaybackWrite, BumpRevision, TypeOK
<1>2. ASSUME NEW i \in Items, DeleteItem(i)
      PROVE  revision'[u] > revision[u]
  <2>1. CASE \A j \in Subtree(i) : watch[u][j] = "none"
    <3>1. watch'[u] = Store(watch[u], Subtree(i), "none")
      BY <1>2 DEF DeleteItem
    <3>2. watch'[u] = watch[u]
      BY <2>1, <3>1 DEF Store, TypeOK
    <3> QED BY <3>2
  <2>2. CASE \E j \in Subtree(i) : watch[u][j] # "none"
    BY <1>2, <2>2 DEF DeleteItem, TypeOK
  <2> QED BY <2>1, <2>2
<1>3. CASE CatalogueNext
  BY <1>2, <1>3 DEF CatalogueNext, ScanFile
<1> QED BY <1>1, <1>3 DEF Next

-----------------------------------------------------------------------------
(* The shape of the tree. *)

(* The descendants of an item contain it and their own children. *)
LEMMA SubtreeIsClosed ==
    ASSUME NEW i \in Items
    PROVE  /\ Subtree(i) \subseteq Items
           /\ i \in Subtree(i)
           /\ \A j \in Items : parent[j] \in Subtree(i) => j \in Subtree(i)
<1>1. ASSUME NEW j \in Items, parent[j] \in Subtree(i), NEW S \in SUBSET Items,
             i \in S, \A c \in Items : parent[c] \in S => c \in S
      PROVE  j \in S
  <2>1. parent[j] \in S
    BY <1>1 DEF Subtree
  <2> QED BY <1>1, <2>1
<1> QED BY <1>1 DEF Subtree
LEMMA InitHierarchy == Init => HierarchyIsValid
BY WatchStateAssumption DEF Init, HierarchyIsValid

(* Rows that a scan inserts below what it found hang where they may.        *)
LEMMA InsertionKeepsHierarchy ==
    ASSUME TypeOK, HierarchyIsValid, NEW path \in FilePaths, NEW chain \in Chains(path),
           NEW n \in 0..Len(path), \A m \in (n + 1)..Len(path) : Absent(chain[m]),
           n > 0 => kind[chain[n]] = path[n], InsertRows(path, chain, n)
    PROVE  HierarchyIsValid'
<1> DEFINE last == Len(path)
<1>1. /\ last \in Nat \ {0} /\ path[last] \in PlayableKinds
      /\ \A m \in 1..last : path[m] \in Kinds
      /\ \A m \in 1..last : IF m = 1 THEN AllowedParentKinds(path[m]) = {}
                            ELSE path[m - 1] \in AllowedParentKinds(path[m])
  BY PathShape
<1>2. \A m \in 1..last : chain[m] \in Items
  BY DEF Chains
<1>3. /\ \A i \in Items : \/ kind'[i] = kind[i] /\ parent'[i] = parent[i]
                          \/ /\ kind[i] = "absent"
                             /\ \E m \in (n + 1)..last :
                                   /\ i = chain[m] /\ kind'[i] = path[m]
                                   /\ parent'[i] = IF m = 1 THEN NoItem ELSE chain[m - 1]
      /\ \A m \in (n + 1)..last : kind'[chain[m]] = path[m]
  BY InsertedRows
<1>4. media' = media \cup {chain[last]}
  BY DEF InsertRows
<1> HIDE DEF last
<1>5. \A i \in Items : kind[i] # "absent" => kind'[i] = kind[i] /\ parent'[i] = parent[i]
  BY <1>3
<1>6. ASSUME NEW m \in n..last, m > 0
      PROVE  kind'[chain[m]] = path[m]
  <2>1. CASE m \in (n + 1)..last
    BY <1>3, <2>1
  <2>2. CASE m = n
    <3>1. n \in 1..last /\ chain[n] \in Items /\ kind[chain[n]] = path[n] /\ path[n] \in Kinds
      BY <1>1, <1>2, <1>6, <2>2 DEF last
    <3>2. kind[chain[n]] # "absent"
      BY <3>1 DEF Kinds
    <3> QED BY <1>5, <2>2, <3>1, <3>2
  <2> QED BY <1>1, <2>1, <2>2 DEF last
<1>7. ASSUME NEW j \in Items
      PROVE  IF kind'[j] = "absent" THEN parent'[j] = NoItem
                                    ELSE ValidParent(kind', kind'[j], parent'[j])
  <2>1. CASE kind'[j] = kind[j] /\ parent'[j] = parent[j]
    <3>1. CASE kind[j] = "absent"
      BY <2>1, <3>1 DEF HierarchyIsValid, ValidCatalogue
    <3>2. CASE kind[j] # "absent"
      <4>1. ValidParent(kind, kind[j], parent[j])
        BY <3>2 DEF HierarchyIsValid, ValidCatalogue
      <4>2. \A p \in Items : kind[p] \in AllowedParentKinds(kind[j]) => kind'[p] = kind[p]
        BY <1>5 DEF AllowedParentKinds
      <4> QED BY <2>1, <3>2, <4>1, <4>2 DEF ValidParent
    <3> QED BY <3>1, <3>2
  <2>2. CASE ~(kind'[j] = kind[j] /\ parent'[j] = parent[j])
    <3>1. PICK m \in (n + 1)..last :
             /\ kind'[j] = path[m] /\ parent'[j] = IF m = 1 THEN NoItem ELSE chain[m - 1]
      BY <1>3, <2>2
    <3>2. m \in 1..last /\ (m # 1 => m - 1 \in n..last /\ m - 1 > 0 /\ m - 1 \in 1..last)
      BY <1>1, <3>1 DEF last
    <3>3. kind'[j] # "absent"
      BY <1>1, <3>1, <3>2 DEF Kinds
    <3>4. CASE m = 1
      BY <1>1, <3>1, <3>2, <3>3, <3>4 DEF ValidParent
    <3>5. CASE m # 1
      <4>1. kind'[chain[m - 1]] = path[m - 1] /\ chain[m - 1] \in Items
        BY <1>2, <1>6, <3>2, <3>5 DEF last
      <4>2. path[m - 1] \in AllowedParentKinds(path[m])
        BY <1>1, <3>2, <3>5
      <4> QED BY <3>1, <3>3, <3>5, <4>1, <4>2 DEF ValidParent
    <3> QED BY <3>4, <3>5
  <2> QED BY <2>1, <2>2
<1>8. ASSUME NEW j \in media' PROVE kind'[j] \in PlayableKinds
  <2>1. CASE j \in media
    <3>1. kind[j] \in PlayableKinds /\ j \in Items
      BY <2>1 DEF HierarchyIsValid, TypeOK
    <3> QED BY <1>5, <3>1 DEF PlayableKinds
  <2>2. CASE j = chain[last]
    <3>1. last \in n..last /\ last > 0
      BY <1>1 DEF last
    <3> QED BY <1>1, <1>6, <2>2, <3>1
  <2> QED BY <1>4, <1>8, <2>1, <2>2
<1> QED BY <1>7, <1>8 DEF HierarchyIsValid, ValidCatalogue

LEMMA RemovalKeepsHierarchy ==
    ASSUME TypeOK, HierarchyIsValid, NEW i \in Items, DeleteItem(i)
    PROVE  HierarchyIsValid'
<1> USE DEF HierarchyIsValid
<1>1. \A j \in Items : parent[j] \in Subtree(i) => j \in Subtree(i)
  BY SubtreeIsClosed
<1>2. \A j \in Items : kind'[j] # "absent" => ValidParent(kind', kind'[j], parent'[j])
  BY <1>1 DEF DeleteItem, TypeOK, ValidCatalogue, ValidParent
<1>3. \A j \in Items : kind'[j] = "absent" => parent'[j] = NoItem
  BY DEF DeleteItem, TypeOK, ValidCatalogue
<1>4. \A j \in media' : kind'[j] \in PlayableKinds
  BY DEF DeleteItem, TypeOK
<1> QED BY <1>2, <1>3, <1>4 DEF ValidCatalogue

LEMMA NextHierarchy ==
    ASSUME TypeOK, HierarchyIsValid, Next
    PROVE  HierarchyIsValid'
<1>1. CASE PlaybackNext
  <2>1. PICK u \in Users, X \in SUBSET Items, v \in WatchValues : PlaybackWrite(u, X, v)
    BY <1>1, PlaybackNextIsWrite
  <2> QED BY <2>1 DEF PlaybackWrite, catalogueVars, HierarchyIsValid, ValidCatalogue, ValidParent
<1>2. ASSUME NEW path \in FilePaths, NEW chain \in Chains(path), ScanFile(path, chain)
      PROVE  HierarchyIsValid'
  BY <1>2, ScanInserts, InsertionKeepsHierarchy
<1> QED BY <1>1, <1>2, RemovalKeepsHierarchy DEF Next, CatalogueNext

-----------------------------------------------------------------------------
(* No row of a viewer outlives its item.                                    *)
LEMMA WatchedStateItemsExist ==
    ASSUME NEW i \in Items, kind[i] # "absent"
    PROVE  \A j \in WatchedStateItems(kind, parent, i) : kind[j] # "absent"
<1>1. \A c, ck : \A j \in Children(kind, parent, c, ck) : kind[j] \in ck
  BY DEF Children
<1>2. CASE kind[i] = "season"
  BY <1>1, <1>2 DEF WatchedStateItems, EpisodicKinds
<1>3. CASE kind[i] = "series"
  <2>1. \A c : \A j \in Children(kind, parent, c, EpisodicKinds) : kind[j] # "absent"
    BY <1>1 DEF EpisodicKinds
  <2>2. \A j \in Children(kind, parent, i, {"special"}) : kind[j] # "absent"
    BY <1>1
  <2> QED BY <1>3, <2>1, <2>2 DEF WatchedStateItems
<1>4. CASE kind[i] \notin {"season", "series"}
  BY <1>4 DEF WatchedStateItems
<1> QED BY <1>2, <1>3, <1>4

LEMMA NextNoOrphans ==
    ASSUME TypeOK, NoOrphanRows, Next
    PROVE  NoOrphanRows'
<1>1. ASSUME NEW u \in Users, NEW X \in SUBSET Items, NEW v \in WatchValues,
             PlaybackWrite(u, X, v), \A j \in X : kind[j] # "absent"
      PROVE  NoOrphanRows'
  <2>1. kind' = kind /\ \A x \in Users : x # u => watch'[x] = watch[x]
    BY <1>1 DEF PlaybackWrite, catalogueVars, TypeOK
  <2>2. watch'[u] = SynchroniseParents(kind, parent, Store(watch[u], X, v), X)
    BY <1>1 DEF PlaybackWrite, TypeOK
  <2>3. ASSUME NEW i \in Items, kind[i] = "absent"
        PROVE  watch'[u][i] = watch[u][i]
    BY <1>1, <2>2, <2>3, SynchroniseParentsTouches
  <2> QED BY <2>1, <2>3 DEF NoOrphanRows
<1>2. ASSUME NEW u \in Users, NEW i \in Items, NEW completed \in BOOLEAN,
             UpdateProgress(u, i, completed)
      PROVE  NoOrphanRows'
  <2>1. \E v \in WatchValues : PlaybackWrite(u, {i}, v)
    BY <1>2 DEF UpdateProgress, PlaybackWrite, WatchValues
  <2> QED BY <1>1, <1>2, <2>1 DEF UpdateProgress, PlayableKinds
<1>3. ASSUME NEW u \in Users, NEW i \in Items, MarkWatched(u, i)
      PROVE  NoOrphanRows'
  <2>1. PlaybackWrite(u, WatchedStateItems(kind, parent, i), "completed")
    BY <1>3 DEF MarkWatched, PlaybackWrite, TypeOK
  <2> QED BY <1>1, <1>3, <2>1, WatchedStateItemsExist, WatchedStateItemsAreItems
          DEF MarkWatched, WatchValues
<1>4. ASSUME NEW u \in Users, NEW i \in Items, ClearWatched(u, i)
      PROVE  NoOrphanRows'
  <2>1. PlaybackWrite(u, WatchedStateItems(kind, parent, i) \cup {i}, "none")
    BY <1>4 DEF ClearWatched, PlaybackWrite, TypeOK
  <2> QED BY <1>1, <1>4, <2>1, WatchedStateItemsExist, WatchedStateItemsAreItems
          DEF ClearWatched, WatchValues
<1>5. CASE PlaybackNext
  BY <1>2, <1>3, <1>4, <1>5 DEF PlaybackNext
<1>6. ASSUME NEW i \in Items, DeleteItem(i)
      PROVE  NoOrphanRows'
  BY <1>6 DEF DeleteItem, NoOrphanRows, Store, TypeOK
<1>7. ASSUME NEW path \in FilePaths, NEW chain \in Chains(path), ScanFile(path, chain)
      PROVE  NoOrphanRows'
  <2>1. UNCHANGED watch /\ \E n \in 0..Len(path) :
          /\ \A m \in (n + 1)..Len(path) : Absent(chain[m])
          /\ InsertRows(path, chain, n)
    BY <1>7, ScanInserts
  <2>2. \A j \in Items : kind[j] # "absent" => kind'[j] = kind[j]
    BY <2>1, InsertedRows
  <2> QED BY <2>1, <2>2 DEF NoOrphanRows
<1>8. CASE CatalogueNext
  BY <1>6, <1>7, <1>8 DEF CatalogueNext
<1> QED BY <1>5, <1>8 DEF Next

(* No playback row is left of an item that is gone.                          *)
THEOREM RowsHaveItems == Spec => []NoOrphanRows
<1>1. Init => NoOrphanRows
  BY DEF Init, NoOrphanRows
<1>2. TypeOK /\ NoOrphanRows /\ [Next]_vars => NoOrphanRows'
  <2>1. NoOrphanRows /\ UNCHANGED vars => NoOrphanRows'
    BY DEF vars, NoOrphanRows
  <2> QED BY <2>1, NextNoOrphans
<1> QED BY TypeCorrect, <1>1, <1>2, PTL DEF Spec

-----------------------------------------------------------------------------
(* WatchRequests: requests whose first write always takes the writer lock    *)
(* implement the one-step operations, so everything proved above about fixed *)
(* catalogues holds of them.  Clears are left out: one that finds nothing to *)
(* delete works without the lock, and TLC shows what that breaks.            *)
ReadRecord ==
    [phase : {"read"}, op : Operations, user : Users, item : Items,
     completed : BOOLEAN, items : SUBSET Items, seasons : SUBSET Items,
     series : SUBSET Items, saw : SUBSET Items, lost : SUBSET Items]

(* What a request holds is what it would read now: the catalogue does not   *)
(* change under it.  Only its view of the viewer's rows can be stale.       *)
ReadIsCurrent(q) ==
    /\ kind[q.item] # "absent"
    /\ q.op = "progress" => kind[q.item] \in PlayableKinds /\ q.items = {q.item}
    /\ q.op = "mark" => /\ MayMarkWatched(kind, parent, q.item) /\ q.completed
                        /\ q.items = WatchedStateItems(kind, parent, q.item)
    /\ q.seasons = SeasonsOf(kind, parent, q.items)
    /\ q.series = SeriesOf(kind, parent, q.items)

RequestInv ==
    /\ req \in [Requests -> {Idle} \cup ReadRecord]
    /\ \A r \in Requests : req[r] # Idle => ReadIsCurrent(req[r])

-----------------------------------------------------------------------------
(* A commit under the lock is one operation of WatchState. *)
LEMMA CommitIsOperation ==
    ASSUME "clear" \notin Operations, TypeOK, RequestInv,
           NEW r \in Requests, Commit(r)
    PROVE  PlaybackNext
<1> DEFINE q == req[r]
<1>1. q \in ReadRecord /\ ReadIsCurrent(q) /\ q.op \in {"progress", "mark"}
  <2>1. q.phase = "read"
    BY DEF Commit, WritesFirst
  <2>2. q # Idle
    BY <2>1 DEF Idle
  <2>3. q \in ReadRecord /\ ReadIsCurrent(q)
    BY <2>2 DEF RequestInv
  <2>4. q.op \in Operations
    BY <2>3 DEF ReadRecord
  <2> QED BY <2>3, <2>4, OperationsAssumption
<1>2. watch' = [watch EXCEPT ![q.user] =
                  SynchroniseParents(kind, parent,
                     Store(watch[q.user], q.items,
                           IF q.completed THEN "completed" ELSE "started"), q.items)]
  BY <1>1 DEF Commit, RowsAfter, SynchroniseParents, ReadIsCurrent
<1>3. BumpRevision(q.user) /\ UNCHANGED catalogueVars
  BY DEF Commit
<1>4. CASE q.op = "progress"
  <2>1. UpdateProgress(q.user, q.item, q.completed)
    BY <1>1, <1>2, <1>3, <1>4 DEF UpdateProgress, ReadIsCurrent
  <2> QED BY <1>1, <2>1 DEF PlaybackNext, ReadRecord
<1>5. CASE q.op = "mark"
  <2>1. MarkWatched(q.user, q.item)
    BY <1>1, <1>2, <1>3, <1>5 DEF MarkWatched, ReadIsCurrent, TypeOK
  <2> QED BY <1>1, <2>1 DEF PlaybackNext, ReadRecord
<1> QED BY <1>1, <1>4, <1>5

LEMMA RequestStep ==
    ASSUME "clear" \notin Operations, TypeOK, RequestInv, RequestNext
    PROVE  RequestInv' /\ [PlaybackNext]_vars
<1>1. ASSUME NEW r \in Requests, NEW op \in Operations, NEW u \in Users, NEW i \in Items,
             NEW completed \in BOOLEAN, Read(r, op, u, i, completed)
      PROVE  RequestInv' /\ UNCHANGED vars
  <2>1. UNCHANGED vars /\ kind' = kind /\ parent' = parent /\ op \in {"progress", "mark"}
    BY <1>1, OperationsAssumption DEF Read, vars
  <2>2. RequestItems(op, i) = IF op = "progress" THEN {i} ELSE WatchedStateItems(kind, parent, i)
    BY <2>1 DEF RequestItems
  <2>3. RequestItems(op, i) \subseteq Items
    BY <2>2, WatchedStateItemsAreItems
  <2>4. req'[r] \in ReadRecord /\ \A q \in Requests : q # r => req'[q] = req[q]
    BY <1>1, <2>3 DEF Read, ReadRecord, SeasonsOf, SeriesOf, RequestInv
  <2>5. ReadIsCurrent(req'[r])
    BY <1>1, <2>1, <2>2 DEF Read, ReadIsCurrent, RequestInv
  <2>6. req' \in [Requests -> {Idle} \cup ReadRecord]
    BY <1>1, <2>4 DEF Read, RequestInv
  <2> QED BY <2>1, <2>4, <2>5, <2>6 DEF RequestInv, ReadIsCurrent
<1>2. ASSUME NEW r \in Requests, Commit(r)
      PROVE  RequestInv' /\ PlaybackNext
  <2>1. kind' = kind /\ parent' = parent
    BY <1>2 DEF Commit, catalogueVars
  <2>2. ASSUME NEW q \in Requests
        PROVE  /\ req'[q] \in {Idle} \cup ReadRecord
               /\ req'[q] # Idle => ReadIsCurrent(req'[q])
    <3>1. CASE q = r \/ req[q] = Idle
      BY <1>2, <3>1 DEF Commit, Finish, AfterLoss, HoldsRows, Idle
    <3>2. CASE q # r /\ req[q] # Idle
      <4>1. req[q] \in ReadRecord /\ ReadIsCurrent(req[q])
        BY <3>2 DEF RequestInv
      <4>2. req'[q] = [req[q] EXCEPT !.lost = @ \cup {j \in req[q].saw : watch'[req[q].user][j] = "none"}]
        BY <1>2, <3>2, <4>1 DEF Commit, Finish, AfterLoss, HoldsRows, ReadRecord
      <4>3. req'[q] \in ReadRecord
        BY <4>1, <4>2 DEF ReadRecord
      <4>4. ReadIsCurrent(req'[q])
        BY <4>1, <4>2 DEF ReadRecord, ReadIsCurrent
      <4> QED BY <4>3, <4>4
    <3> QED BY <3>1, <3>2
  <2>3. req' = [q \in Requests |-> req'[q]]
    BY <1>2 DEF Commit, Finish
  <2>4. RequestInv'
    BY <2>1, <2>2, <2>3 DEF RequestInv, ReadIsCurrent
  <2> QED BY <1>2, <2>4, CommitIsOperation
<1>3. ASSUME NEW r \in Requests, Rollback(r)
      PROVE  RequestInv' /\ UNCHANGED vars
  BY <1>3 DEF Rollback, RequestInv, ReadIsCurrent, vars
<1>4. ASSUME NEW r \in Requests,
             \/ ClearFindsNothing(r) \/ CountChildren(r) \/ CountIncomplete(r)
             \/ KeepContainer(r) \/ PlanCorrection(r) \/ CorrectContainer(r)
             \/ FailCorrection(r) \/ ReadRevision(r) \/ WriteRevision(r)
      PROVE  FALSE
  <2>1. req[r] = Idle \/ req[r] \in ReadRecord
    BY DEF RequestInv
  <2>2. req[r].phase \in {"idle", "read"} /\ req[r].phase = "read" => req[r].op # "clear"
    BY <2>1 DEF Idle, ReadRecord
  <2> QED BY <1>4, <2>1, <2>2 DEF ClearFindsNothing, CountChildren, CountIncomplete,
             KeepContainer, PlanCorrection, CorrectContainer, FailCorrection,
             ReadRevision, WriteRevision, Idle, ReadRecord
<1> QED BY <1>1, <1>2, <1>3, <1>4 DEF RequestNext, LockedNext, UnlockedNext

(* Overlapping progress and mark requests implement the one-step operations *)
(* of WatchState on every catalogue, for any number of viewers and requests *)
(* (KatalogService.update_progress and mark_watched in transactions of      *)
(* their own).                                                              *)
THEOREM LockedRequestsImplementOperations ==
    ASSUME "clear" \notin Operations
    PROVE  /\ RequestSpec => PlaybackSpec
           /\ LockedSpec => PlaybackSpec
<1>1. RequestInit => Init /\ TypeOK /\ RequestInv
  BY InitType DEF RequestInit, RequestInv
<1>2. TypeOK /\ RequestInv /\ [RequestNext]_requestVars =>
         TypeOK' /\ RequestInv' /\ [PlaybackNext]_vars
  <2>1. ASSUME TypeOK, RequestInv, UNCHANGED requestVars
        PROVE  TypeOK' /\ RequestInv' /\ UNCHANGED vars
    BY <2>1 DEF requestVars, vars, TypeOK, RequestInv, ReadIsCurrent
  <2>2. ASSUME TypeOK, RequestInv, RequestNext
        PROVE  TypeOK' /\ RequestInv' /\ [PlaybackNext]_vars
    <3>1. RequestInv' /\ [PlaybackNext]_vars
      BY <2>2, RequestStep
    <3>2. TypeOK /\ UNCHANGED vars => TypeOK'
      BY DEF vars, TypeOK
    <3> QED BY <2>2, <3>1, <3>2, PlaybackNextType
  <2> QED BY <2>1, <2>2
<1>3. RequestSpec => PlaybackSpec
  BY <1>1, <1>2, PTL DEF RequestSpec, PlaybackSpec
<1>4. [LockedNext]_requestVars => [RequestNext]_requestVars
  BY DEF RequestNext
<1>5. LockedSpec => PlaybackSpec
  BY <1>1, <1>2, <1>4, PTL DEF LockedSpec, PlaybackSpec
<1> QED BY <1>3, <1>5

(* Hence no interleaving of them leaves a season or series out of step. *)
THEOREM LockedRequestsKeepRollup ==
    ASSUME "clear" \notin Operations
    PROVE  /\ RequestSpec => []RollupAligned
           /\ LockedSpec => []RollupAligned
BY LockedRequestsImplementOperations, RollupStaysAligned, PTL
-----------------------------------------------------------------------------
(* Requests of any kind beside scans and removals: what a request read may   *)
(* be gone when it commits (the part "requests" of MCCatalogueEdits).         *)
EditedRequestSpec == RequestInit /\ [][RequestNext \/ EditNext]_requestVars

ReadFields == {"phase", "op", "user", "item", "completed", "items", "seasons", "series",
               "saw", "lost"}

CountFields == {"phase", "user", "container", "kinds", "completed", "seasons", "series"}
CorrectFields == {"phase", "user", "container", "completed", "seasons", "series", "saw", "lost"}

(* What a request holds, however old: a mark has found the containers of its *)
(* items, and its own item is one of them or of the items.                   *)
HoldsMark(q) ==
    /\ q.completed
    /\ \A j \in q.items : j \notin q.seasons /\ j \notin q.series
    /\ q.item \in q.items \/ q.item \in q.seasons \/ q.item \in q.series

RequestHolds(q) ==
    \/ q.phase = "idle"
    \/ /\ q.phase = "read" /\ DOMAIN q = ReadFields
       /\ q.user \in Users /\ q.item \in Items /\ q.items \subseteq Items
       /\ q.seasons \subseteq Items /\ q.series \subseteq Items
       /\ q.op = "mark" => HoldsMark(q)
    \/ q.phase = "unlocked" /\ q.user \in Users /\ q.seasons \subseteq Items /\ q.series \subseteq Items
    \/ /\ q.phase \in {"counting", "counted"} /\ DOMAIN q = CountFields
       /\ q.user \in Users /\ q.container \in Items
       /\ q.seasons \subseteq Items /\ q.series \subseteq Items
    \/ /\ q.phase = "correct" /\ DOMAIN q = CorrectFields
       /\ q.user \in Users /\ q.container \in Items
       /\ q.seasons \subseteq Items /\ q.series \subseteq Items
    \/ q.phase = "bump" /\ q.user \in Users /\ q.read \in Nat

EditedInv ==
    /\ TypeOK /\ HierarchyIsValid /\ NoOrphanRows
    /\ req = [r \in Requests |-> req[r]]
    /\ \A r \in Requests : RequestHolds(req[r])

(* Whoever counts as a parent is an item of the catalogue, so a roll-up that *)
(* reads the catalogue under the lock writes no row of an item that is gone. *)
LEMMA SynchroniseKeepsRows ==
    ASSUME TypeOK, HierarchyIsValid, NEW w \in [Items -> WatchValues], NEW seasons, NEW series,
           \A j \in Items : w[j] # "none" => kind[j] # "absent"
    PROVE  LET after == SynchroniseContainers(kind, parent, w, seasons, series)
           IN  /\ after \in [Items -> WatchValues]
               /\ \A j \in Items : after[j] # "none" => kind[j] # "absent"
<1> DEFINE Good(f) == /\ f \in [Items -> WatchValues]
                      /\ \A j \in Items : f[j] # "none" => kind[j] # "absent"
<1>1. ASSUME NEW f, NEW c \in Items, NEW kinds, "absent" \notin kinds,
             ChildrenAreCompleted(kind, parent, f, c, kinds)
      PROVE  kind[c] # "absent"
  <2>1. PICK i \in Items : parent[i] = c /\ kind[i] # "absent"
    BY <1>1 DEF ChildrenAreCompleted, Children
  <2>2. ValidParent(kind, kind[i], c)
    BY <2>1 DEF HierarchyIsValid, ValidCatalogue
  <2>3. kind[c] \in AllowedParentKinds(kind[i])
    BY <2>2, WatchStateAssumption DEF ValidParent
  <2> QED BY <2>3 DEF AllowedParentKinds
<1>2. ASSUME NEW f, Good(f), NEW C, NEW kinds, "absent" \notin kinds
      PROVE  Good(SynchroniseCompletion(kind, parent, f, C, kinds))
  <2> DEFINE g == SynchroniseCompletion(kind, parent, f, C, kinds)
  <2>1. g = [i \in Items |-> IF i \notin C THEN f[i]
                             ELSE IF ChildrenAreCompleted(kind, parent, f, i, kinds)
                                  THEN "completed" ELSE "none"]
    BY DEF SynchroniseCompletion
  <2>2. \A c \in Items : ChildrenAreCompleted(kind, parent, f, c, kinds) => kind[c] # "absent"
    BY <1>1, <1>2
  <2> HIDE DEF g
  <2>3. g \in [Items -> WatchValues]
    BY <1>2, <2>1 DEF WatchValues
  <2>4. Good(g)
    BY <1>2, <2>1, <2>2, <2>3
  <2> QED BY <2>4 DEF g
<1>3. Good(SynchroniseCompletion(kind, parent, w, seasons, EpisodicKinds))
  BY <1>2 DEF EpisodicKinds
<1> HIDE DEF Good
<1>4. Good(SynchroniseCompletion(kind, parent,
             SynchroniseCompletion(kind, parent, w, seasons, EpisodicKinds),
             series, SeriesChildKinds))
  BY <1>2, <1>3 DEF SeriesChildKinds
<1> QED BY <1>4 DEF SynchroniseContainers, Good

(* What a mark reads agrees with itself, whatever changes afterwards.        *)
LEMMA MarkReadsItsContainers ==
    ASSUME NEW i \in Items, MayMarkWatched(kind, parent, i)
    PROVE  LET X == WatchedStateItems(kind, parent, i)
           IN  /\ \A j \in X : /\ j \notin SeasonsOf(kind, parent, X)
                               /\ j \notin SeriesOf(kind, parent, X)
               /\ \/ i \in X \/ i \in SeasonsOf(kind, parent, X)
                  \/ i \in SeriesOf(kind, parent, X)
<1> DEFINE X == WatchedStateItems(kind, parent, i)
           seasons == Children(kind, parent, i, {"season"})
<1>1. CASE kind[i] = "season"
  <2>1. X = {j \in Items : parent[j] = i /\ kind[j] \in EpisodicKinds}
    BY <1>1 DEF WatchedStateItems, Children
  <2>2. X # {}
    BY <1>1 DEF MayMarkWatched
  <2>3. i \in SeasonsOf(kind, parent, X)
    BY <1>1, <2>1, <2>2 DEF SeasonsOf
  <2> QED BY <2>1, <2>3 DEF SeasonsOf, SeriesOf, EpisodicKinds
<1>2. CASE kind[i] = "series"
  <2>1. X = Children(kind, parent, i, {"special"}) \cup
            UNION {Children(kind, parent, s, EpisodicKinds) : s \in seasons}
    BY <1>2 DEF WatchedStateItems
  <2>2. \A j \in X : j \in Items /\ kind[j] \in EpisodicKinds
    BY <2>1 DEF Children, EpisodicKinds
  <2>3. \A j \in X : j \notin SeasonsOf(kind, parent, X) /\ j \notin SeriesOf(kind, parent, X)
    BY <2>2 DEF SeasonsOf, SeriesOf, EpisodicKinds
  <2>4. CASE seasons = {}
    <3>1. PICK j \in Children(kind, parent, i, {"special"}) : TRUE
      BY <1>2, <2>4 DEF MayMarkWatched
    <3>2. j \in X /\ j \in Items /\ parent[j] = i /\ kind[j] = "special"
      BY <2>1, <3>1 DEF Children
    <3> QED BY <1>2, <2>3, <3>2 DEF SeriesOf
  <2>5. CASE seasons # {}
    <3>1. PICK s \in seasons : Children(kind, parent, s, EpisodicKinds) # {}
      BY <1>2, <2>5 DEF MayMarkWatched
    <3>2. PICK j \in Children(kind, parent, s, EpisodicKinds) : TRUE
      BY <3>1
    <3>3. j \in X /\ parent[j] = s /\ kind[j] \in EpisodicKinds
      BY <2>1, <3>1, <3>2 DEF Children
    <3>4. s \in Items /\ parent[s] = i /\ kind[s] = "season"
      BY <3>1 DEF Children
    <3>5. s \in SeasonsOf(kind, parent, X)
      BY <3>3, <3>4 DEF SeasonsOf
    <3> QED BY <1>2, <2>3, <3>4, <3>5 DEF SeriesOf
  <2> QED BY <2>4, <2>5
<1>3. CASE kind[i] \notin {"season", "series"}
  <2>1. X = {i}
    BY <1>3 DEF WatchedStateItems
  <2> QED BY <1>3, <2>1 DEF SeasonsOf, SeriesOf
<1> QED BY <1>1, <1>2, <1>3

(* What a step does to what other requests hold: rows they saw may be lost.  *)
LEMMA HoldsThroughLoss ==
    ASSUME NEW q, RequestHolds(q)
    PROVE  RequestHolds(AfterLoss(q))
<1>1. CASE ~HoldsRows(q)
  BY <1>1 DEF AfterLoss
<1>2. CASE HoldsRows(q)
  <2> DEFINE gone == q.lost \cup {j \in q.saw : watch'[q.user][j] = "none"}
             p == [q EXCEPT !.lost = gone]
  <2>1. AfterLoss(q) = p
    BY <1>2 DEF AfterLoss
  <2> HIDE DEF gone
  <2>2. CASE q.phase = "read"
    <3>1. DOMAIN q = ReadFields
      BY <2>2 DEF RequestHolds
    <3>2. /\ DOMAIN p = ReadFields /\ p.phase = "read" /\ p.op = q.op /\ p.user = q.user
          /\ p.item = q.item /\ p.completed = q.completed /\ p.items = q.items
          /\ p.seasons = q.seasons /\ p.series = q.series
      BY <2>2, <3>1 DEF ReadFields
    <3> HIDE DEF p
    <3> QED BY <2>1, <2>2, <3>2 DEF RequestHolds, HoldsMark
  <2>3. CASE q.phase = "correct"
    <3>1. DOMAIN q = CorrectFields
      BY <2>3 DEF RequestHolds
    <3>2. /\ DOMAIN p = CorrectFields /\ p.phase = "correct" /\ p.user = q.user
          /\ p.container = q.container /\ p.seasons = q.seasons /\ p.series = q.series
      BY <2>3, <3>1 DEF CorrectFields
    <3> HIDE DEF p
    <3> QED BY <2>1, <2>3, <3>2 DEF RequestHolds
  <2> QED BY <1>2, <2>2, <2>3 DEF HoldsRows
<1> QED BY <1>1, <1>2

LEMMA FinishHolds ==
    ASSUME EditedInv, NEW r \in Requests, Finish(r)
    PROVE  /\ req' = [q \in Requests |-> req'[q]]
           /\ \A q \in Requests : RequestHolds(req'[q])
<1>1. \A q \in Requests : RequestHolds(AfterLoss(req[q]))
  BY HoldsThroughLoss DEF EditedInv
<1>2. RequestHolds(Idle)
  BY DEF Idle, RequestHolds
<1> QED BY <1>1, <1>2 DEF Finish

(* A step of a request that writes nothing yet. *)
LEMMA QuietRequest ==
    ASSUME EditedInv, UNCHANGED vars, NEW r \in Requests, NEW next, RequestHolds(next),
           req' = [req EXCEPT ![r] = next]
    PROVE  EditedInv'
<1>1. TypeOK' /\ HierarchyIsValid' /\ NoOrphanRows'
  BY DEF EditedInv, vars, TypeOK, HierarchyIsValid, ValidCatalogue, ValidParent, NoOrphanRows
<1>2. \A q \in Requests : req'[q] = IF q = r THEN next ELSE req[q]
  BY DEF EditedInv
<1>3. req' = [q \in Requests |-> req'[q]]
  BY DEF EditedInv
<1> QED BY <1>1, <1>2, <1>3 DEF EditedInv

(* A write of one viewer's rows, all of items that are there. *)
LEMMA RowsWritten ==
    ASSUME EditedInv, NEW r \in Requests, NEW u \in Users, NEW after \in [Items -> WatchValues],
           \A j \in Items : after[j] # "none" => kind[j] # "absent",
           watch' = [watch EXCEPT ![u] = after], BumpRevision(u), Finish(r),
           UNCHANGED catalogueVars
    PROVE  EditedInv' /\ \A v \in Users : watch'[v] # watch[v] => revision'[v] > revision[v]
<1>1. kind' = kind /\ parent' = parent /\ media' = media
  BY DEF catalogueVars
<1>2. HierarchyIsValid'
  BY <1>1 DEF EditedInv, HierarchyIsValid, ValidCatalogue, ValidParent
<1>3. /\ revision \in [Users -> Nat \ {0}] /\ revision' = [revision EXCEPT ![u] = @ + 1]
      /\ watch \in [Users -> [Items -> WatchValues]]
  BY DEF EditedInv, TypeOK, BumpRevision
<1>4. TypeOK'
  <2>1. watch' \in [Users -> [Items -> WatchValues]]
    BY <1>3
  <2>2. revision' \in [Users -> Nat \ {0}]
    BY <1>3
  <2> QED BY <1>1, <2>1, <2>2 DEF EditedInv, TypeOK
<1>5. NoOrphanRows'
  BY <1>1, <1>3 DEF EditedInv, NoOrphanRows
<1>6. \A v \in Users : watch'[v] # watch[v] => revision'[v] > revision[v]
  BY <1>3
<1> QED BY <1>2, <1>4, <1>5, <1>6, FinishHolds DEF EditedInv

LEMMA CommitWrites ==
    ASSUME EditedInv, NEW r \in Requests, Commit(r)
    PROVE  EditedInv' /\ \A v \in Users : watch'[v] # watch[v] => revision'[v] > revision[v]
<1> DEFINE q == req[r]
           own == IF q.op = "clear" THEN Store(watch[q.user], q.saw \ q.lost, "none")
                  ELSE Store(watch[q.user], q.items,
                             IF q.completed THEN "completed" ELSE "started")
<1>1. q.phase = "read" /\ q.user \in Users
  BY DEF Commit, WritesFirst, EditedInv, RequestHolds
<1>2. watch[q.user] \in [Items -> WatchValues]
  BY <1>1 DEF EditedInv, TypeOK
<1>3. \A j \in Items : watch[q.user][j] # "none" => kind[j] # "absent"
  BY <1>1 DEF EditedInv, NoOrphanRows
<1>4. q.op # "clear" => \A j \in q.items : kind[j] # "absent"
  BY DEF Commit, Fails, Conflict
<1>5. own \in [Items -> WatchValues]
  BY <1>2 DEF Store, WatchValues
<1>6. \A j \in Items : own[j] # "none" => kind[j] # "absent"
  BY <1>3, <1>4 DEF Store
<1>7. RowsAfter(r) = SynchroniseContainers(kind, parent, own, q.seasons, q.series)
  BY DEF RowsAfter
<1> HIDE DEF own
<1>8. /\ RowsAfter(r) \in [Items -> WatchValues]
      /\ \A j \in Items : RowsAfter(r)[j] # "none" => kind[j] # "absent"
  BY <1>5, <1>6, <1>7, SynchroniseKeepsRows DEF EditedInv
<1>9. /\ watch' = [watch EXCEPT ![q.user] = RowsAfter(r)]
      /\ BumpRevision(q.user) /\ Finish(r) /\ UNCHANGED catalogueVars
  BY DEF Commit
<1> HIDE DEF q
<1> QED BY <1>1, <1>8, <1>9, RowsWritten

LEMMA CorrectContainerWrites ==
    ASSUME EditedInv, NEW r \in Requests, CorrectContainer(r)
    PROVE  EditedInv' /\ \A v \in Users : watch'[v] # watch[v] => revision'[v] > revision[v]
<1> DEFINE q == req[r]
           own == IF q.completed THEN Store(watch[q.user], {q.container}, "completed")
                                 ELSE Store(watch[q.user], q.saw \ q.lost, "none")
           after == SynchroniseContainers(kind, parent, own, q.seasons, q.series)
<1>1. q.phase = "correct" /\ q.user \in Users
  BY DEF CorrectContainer, EditedInv, RequestHolds
<1>2. watch[q.user] \in [Items -> WatchValues]
  BY <1>1 DEF EditedInv, TypeOK
<1>3. \A j \in Items : watch[q.user][j] # "none" => kind[j] # "absent"
  BY <1>1 DEF EditedInv, NoOrphanRows
<1>4. q.completed => kind[q.container] # "absent"
  BY DEF CorrectContainer, CannotCorrect
<1>5. own \in [Items -> WatchValues]
  BY <1>2 DEF Store, WatchValues
<1>6. \A j \in Items : own[j] # "none" => kind[j] # "absent"
  BY <1>3, <1>4 DEF Store
<1>7. /\ watch' = [watch EXCEPT ![q.user] = after]
      /\ BumpRevision(q.user) /\ Finish(r) /\ UNCHANGED catalogueVars
  BY DEF CorrectContainer
<1> HIDE DEF own
<1>8. after \in [Items -> WatchValues] /\ \A j \in Items : after[j] # "none" => kind[j] # "absent"
  BY <1>5, <1>6, SynchroniseKeepsRows DEF EditedInv
<1> HIDE DEF after, q
<1> QED BY <1>1, <1>7, <1>8, RowsWritten

LEMMA RequestNextHolds ==
    ASSUME EditedInv, RequestNext
    PROVE  EditedInv' /\ \A v \in Users : watch'[v] # watch[v] => revision'[v] > revision[v]
<1>1. UNCHANGED vars => \A v \in Users : watch'[v] = watch[v]
  BY DEF vars
<1>2. ASSUME NEW r \in Requests, NEW op \in Operations, NEW u \in Users, NEW i \in Items,
             NEW completed \in BOOLEAN, Read(r, op, u, i, completed)
      PROVE  EditedInv' /\ UNCHANGED vars
  <2> DEFINE X == RequestItems(op, i)
             next == [phase |-> "read", op |-> op, user |-> u, item |-> i,
                      completed |-> completed, items |-> X,
                      seasons |-> SeasonsOf(kind, parent, X),
                      series |-> SeriesOf(kind, parent, X),
                      saw |-> {j \in X : watch[u][j] # "none"}, lost |-> {}]
  <2>1. X \subseteq Items
    BY WatchedStateItemsAreItems DEF RequestItems
  <2>2. op = "mark" => HoldsMark(next)
    <3>1. CASE op = "mark"
      <4>1. completed /\ MayMarkWatched(kind, parent, i) /\ X = WatchedStateItems(kind, parent, i)
        BY <1>2, <3>1 DEF Read, RequestItems
      <4> HIDE DEF X
      <4> QED BY <4>1, MarkReadsItsContainers DEF HoldsMark
    <3> QED BY <3>1
  <2>3. req' = [req EXCEPT ![r] = next] /\ UNCHANGED vars
    BY <1>2 DEF Read
  <2>4. RequestHolds(next)
    <3> HIDE DEF X
    <3>1. DOMAIN next = ReadFields
      BY DEF ReadFields
    <3>2. next.phase = "read" /\ next.user = u /\ next.item = i /\ next.items = X /\ next.op = op
      OBVIOUS
    <3>3. next.seasons \subseteq Items /\ next.series \subseteq Items
      BY DEF SeasonsOf, SeriesOf
    <3> HIDE DEF next
    <3> QED BY <2>1, <2>2, <3>1, <3>2, <3>3 DEF RequestHolds
  <2> HIDE DEF next
  <2> QED BY <2>3, <2>4, QuietRequest
<1>3. ASSUME NEW r \in Requests, Rollback(r)
      PROVE  EditedInv' /\ UNCHANGED vars
  <2>1. RequestHolds(Idle) /\ req' = [req EXCEPT ![r] = Idle] /\ UNCHANGED vars
    BY <1>3 DEF Rollback, RequestHolds, Idle
  <2> QED BY <2>1, QuietRequest
<1>4. ASSUME NEW r \in Requests,
             \/ ClearFindsNothing(r) \/ CountChildren(r) \/ CountIncomplete(r)
             \/ KeepContainer(r) \/ PlanCorrection(r) \/ FailCorrection(r) \/ ReadRevision(r)
      PROVE  EditedInv' /\ UNCHANGED vars
  <2>0. RequestHolds(req[r]) /\ UNCHANGED vars /\ r \in DOMAIN req
    BY <1>4 DEF EditedInv, ClearFindsNothing, CountChildren, CountIncomplete, KeepContainer,
                PlanCorrection, FailCorrection, ReadRevision
  <2>1. CASE ClearFindsNothing(r)
    <3>1. req' = [req EXCEPT ![r] = Unlocked(req[r])] /\ req[r].phase = "read"
      BY <2>1 DEF ClearFindsNothing
    <3>2. RequestHolds(Unlocked(req[r]))
      BY <2>0, <3>1 DEF RequestHolds, Unlocked
    <3> QED BY <2>0, <3>1, <3>2, QuietRequest
  <2>2. CASE CountChildren(r)
    <3> DEFINE q == req[r]
               counted == IF q.seasons # {} THEN EpisodicKinds ELSE SeriesChildKinds
               Counted(c) ==
                 [phase |-> IF Children(kind, parent, c, counted) = {} THEN "counted"
                                                                        ELSE "counting",
                  user |-> q.user, container |-> c, kinds |-> counted, completed |-> FALSE,
                  seasons |-> q.seasons \ {c},
                  series |-> IF q.seasons # {} THEN q.series ELSE q.series \ {c}]
    <3>1. /\ q.phase = "unlocked"
          /\ \E c \in IF q.seasons # {} THEN q.seasons ELSE q.series :
                req' = [req EXCEPT ![r] = Counted(c)]
      BY <2>2 DEF CountChildren
    <3>2. q.user \in Users /\ q.seasons \subseteq Items /\ q.series \subseteq Items
      BY <2>0, <3>1 DEF RequestHolds
    <3>3. PICK c \in Items : req' = [req EXCEPT ![r] = Counted(c)]
      BY <3>1, <3>2
    <3>4. RequestHolds(Counted(c))
      <4>1. DOMAIN Counted(c) = CountFields
        BY DEF CountFields
      <4>2. /\ Counted(c).phase \in {"counting", "counted"} /\ Counted(c).user \in Users
            /\ Counted(c).container \in Items
            /\ Counted(c).seasons \subseteq Items /\ Counted(c).series \subseteq Items
        BY <3>2
      <4> HIDE DEF Counted
      <4> QED BY <4>1, <4>2 DEF RequestHolds
    <3> HIDE DEF Counted
    <3> QED BY <2>0, <3>3, <3>4, QuietRequest
  <2>3. CASE CountIncomplete(r)
    <3> DEFINE all == \A i \in Children(kind, parent, req[r].container, req[r].kinds) :
                         watch[req[r].user][i] = "completed"
               next == [req[r] EXCEPT !.phase = "counted", !.completed = all]
    <3>1. req' = [req EXCEPT ![r] = next] /\ req[r].phase = "counting"
      BY <2>0, <2>3 DEF CountIncomplete
    <3> HIDE DEF all
    <3>2. DOMAIN req[r] = CountFields
      BY <2>0, <3>1 DEF RequestHolds
    <3>3. /\ DOMAIN next = CountFields /\ next.phase = "counted" /\ next.user = req[r].user
          /\ next.container = req[r].container
          /\ next.seasons = req[r].seasons /\ next.series = req[r].series
      BY <3>2 DEF CountFields
    <3> HIDE DEF next
    <3>4. RequestHolds(next)
      BY <2>0, <3>1, <3>3 DEF RequestHolds
    <3> QED BY <2>0, <3>1, <3>4, QuietRequest
  <2>5. CASE KeepContainer(r)
    <3>1. req' = [req EXCEPT ![r] = Unlocked(req[r])] /\ req[r].phase = "counted"
      BY <2>5 DEF KeepContainer
    <3>2. RequestHolds(Unlocked(req[r]))
      BY <2>0, <3>1 DEF RequestHolds, Unlocked
    <3> QED BY <2>0, <3>1, <3>2, QuietRequest
  <2>6. CASE PlanCorrection(r)
    <3> DEFINE q == req[r]
               next == [phase |-> "correct", user |-> q.user, container |-> q.container,
                        completed |-> q.completed, seasons |-> q.seasons, series |-> q.series,
                        saw |-> IF q.completed THEN {} ELSE {q.container}, lost |-> {}]
    <3>1. req' = [req EXCEPT ![r] = next] /\ q.phase = "counted"
      BY <2>6 DEF PlanCorrection
    <3>2. DOMAIN next = CorrectFields
      BY DEF CorrectFields
    <3>3. /\ next.phase = "correct" /\ next.user \in Users /\ next.container \in Items
          /\ next.seasons \subseteq Items /\ next.series \subseteq Items
      BY <2>0, <3>1 DEF RequestHolds
    <3> HIDE DEF next
    <3>4. RequestHolds(next)
      BY <3>2, <3>3 DEF RequestHolds
    <3> QED BY <2>0, <3>1, <3>4, QuietRequest
  <2>7. CASE FailCorrection(r)
    <3>1. RequestHolds(Idle) /\ req' = [req EXCEPT ![r] = Idle]
      BY <2>7 DEF FailCorrection, RequestHolds, Idle
    <3> QED BY <2>0, <3>1, QuietRequest
  <2>4. CASE ReadRevision(r)
    <3> DEFINE next == [phase |-> "bump", user |-> req[r].user, read |-> revision[req[r].user]]
    <3>1. req' = [req EXCEPT ![r] = next] /\ req[r].phase = "unlocked"
      BY <2>4 DEF ReadRevision
    <3>2. RequestHolds(next)
      BY <2>0, <3>1 DEF RequestHolds, EditedInv, TypeOK
    <3> HIDE DEF next
    <3> QED BY <2>0, <3>1, <3>2, QuietRequest
  <2> QED BY <1>4, <2>1, <2>2, <2>3, <2>4, <2>5, <2>6, <2>7
<1>5. ASSUME NEW r \in Requests, WriteRevision(r)
      PROVE  EditedInv' /\ watch' = watch
  <2>1. /\ req[r].read \in Nat /\ req[r].user \in Users
        /\ revision' = [revision EXCEPT ![req[r].user] = req[r].read + 1]
        /\ req' = [req EXCEPT ![r] = Idle] /\ UNCHANGED <<catalogueVars, watch>>
    BY <1>5 DEF WriteRevision, EditedInv, RequestHolds
  <2>2. revision' \in [Users -> Nat \ {0}]
    BY <2>1 DEF EditedInv, TypeOK
  <2>3. TypeOK' /\ HierarchyIsValid' /\ NoOrphanRows'
    BY <2>1, <2>2 DEF EditedInv, catalogueVars, TypeOK, HierarchyIsValid, ValidCatalogue,
                      ValidParent, NoOrphanRows
  <2>4. /\ req' = [q \in Requests |-> req'[q]]
        /\ \A q \in Requests : RequestHolds(req'[q])
    BY <2>1 DEF EditedInv, RequestHolds, Idle
  <2> QED BY <2>1, <2>3, <2>4 DEF EditedInv
<1> QED BY <1>1, <1>2, <1>3, <1>4, <1>5, CommitWrites, CorrectContainerWrites DEF RequestNext, LockedNext, UnlockedNext

LEMMA EditNextHolds ==
    ASSUME EditedInv, EditNext
    PROVE  EditedInv' /\ \A v \in Users : watch'[v] # watch[v] => revision'[v] > revision[v]
<1>1. CatalogueNext
  BY DEF EditNext
<1>2. TypeOK' /\ HierarchyIsValid' /\ NoOrphanRows'
  BY <1>1, CatalogueNextType, NextHierarchy, NextNoOrphans DEF EditedInv, Next
<1>3. \A v \in Users : watch'[v] # watch[v] => revision'[v] > revision[v]
  BY <1>1, NextAdvances DEF EditedInv, Next
<1>4. \A q \in Requests : RequestHolds(AfterLoss(req[q]))
  BY HoldsThroughLoss DEF EditedInv
<1>5. req' = [q \in Requests |-> AfterLoss(req[q])]
  BY DEF EditNext
<1> QED BY <1>2, <1>3, <1>4, <1>5 DEF EditedInv

(* A mark that commits has its items' rows in its hands: it fails when one   *)
(* of them is gone or there anew, and when the roll-up left its container    *)
(* without a row.                                                            *)
LEMMA CommittedMarkIsWhole ==
    ASSUME EditedInv, NEW r \in Requests, req[r].phase = "read", req[r].op = "mark", Commit(r)
    PROVE  \A j \in req[r].items \cup {req[r].item} : watch'[req[r].user][j] = "completed"
<1> DEFINE q == req[r]
           own == Store(watch[q.user], q.items, "completed")
           seasons == SynchroniseCompletion(kind, parent, own, q.seasons, EpisodicKinds)
           after == SynchroniseCompletion(kind, parent, seasons, q.series, SeriesChildKinds)
<1>1. HoldsMark(q) /\ q.user \in Users /\ q.item \in Items /\ q.items \subseteq Items
  BY DEF EditedInv, RequestHolds
<1>2. RowsAfter(r) = after
  BY <1>1 DEF RowsAfter, SynchroniseContainers, HoldsMark
<1>3. watch'[q.user] = after
  BY <1>1, <1>2 DEF Commit, EditedInv, TypeOK
<1>4. after[q.item] # "none"
  BY <1>2 DEF Commit, Fails
<1>5. ASSUME NEW j \in q.items PROVE after[j] = "completed"
  BY <1>1, <1>5 DEF HoldsMark, SynchroniseCompletion, Store
<1>6. CASE q.item \in q.series
  BY <1>1, <1>3, <1>4, <1>5, <1>6 DEF SynchroniseCompletion
<1>7. CASE q.item \in q.seasons /\ q.item \notin q.series
  BY <1>1, <1>3, <1>4, <1>5, <1>7 DEF SynchroniseCompletion
<1>8. CASE q.item \in q.items
  BY <1>3, <1>5, <1>8
<1> QED BY <1>1, <1>6, <1>7, <1>8 DEF HoldsMark

LEMMA InitEdited == RequestInit => EditedInv
BY InitType, InitHierarchy DEF RequestInit, EditedInv, Init, NoOrphanRows, Idle, RequestHolds

LEMMA EditedStep ==
    ASSUME EditedInv, [RequestNext \/ EditNext]_requestVars
    PROVE  EditedInv' /\ \A u \in Users : watch'[u] # watch[u] => revision'[u] > revision[u]
<1>1. EditedInv /\ UNCHANGED requestVars => EditedInv' /\ UNCHANGED vars
  BY DEF requestVars, vars, EditedInv, RequestHolds, HoldsMark, TypeOK, HierarchyIsValid,
         ValidCatalogue, ValidParent, NoOrphanRows
<1> QED BY <1>1, RequestNextHolds, EditNextHolds DEF vars

LEMMA EditedInvHolds == EditedRequestSpec => []EditedInv
BY InitEdited, EditedStep, PTL DEF EditedRequestSpec

(* Scans and removals between a request's reads and its commit leave the     *)
(* tree valid and no row without its item: the stale request fails, or its   *)
(* roll-up counts the children that are left (clears that work without the   *)
(* lock included).                                                           *)
THEOREM EditedRequestsLeaveNoOrphans ==
    EditedRequestSpec => [](HierarchyIsValid /\ NoOrphanRows)
<1>1. EditedInv => HierarchyIsValid /\ NoOrphanRows
  BY DEF EditedInv
<1> QED BY <1>1, EditedInvHolds, PTL

(* A mark is answered only when all its items and the container have their   *)
(* completed rows, whatever other requests, scans and removals did between   *)
(* its reads and its commit (mark_watched and the look at the item's row at  *)
(* its end).                                                                 *)
THEOREM MarksCompleteAll == EditedRequestSpec => MarkCompletesAll
<1>1. EditedInv /\ [RequestNext \/ EditNext]_requestVars =>
         [\A r \in Requests :
             req[r].phase = "read" /\ req[r].op = "mark" /\ Commit(r) =>
                 \A j \in req[r].items \cup {req[r].item} :
                     watch'[req[r].user][j] = "completed"]_requestVars
  BY CommittedMarkIsWhole
<1> QED BY <1>1, EditedInvHolds, PTL DEF EditedRequestSpec, MarkCompletesAll

-----------------------------------------------------------------------------
(* Saved grids.  The revision a grid was rendered with is never ahead of the *)
(* viewer's, and whatever changes the rows takes the viewer's beyond it:     *)
(* until the revision goes back, no grid is shown that has other rows.       *)
GridHolds(u) ==
    /\ grid[u].revision \in Nat /\ grid[u].revision <= revision[u]
    /\ grid[u].revision = revision[u] =>
          grid[u].row \in {"unseen", watch[u][grid[u].poster]}

GridFields == {"revision", "poster", "row"}

GridInv ==
    /\ EditedInv
    /\ wentBack = [u \in Users |-> wentBack[u]]
    /\ grid = [u \in Users |-> grid[u]] /\ \A u \in Users : DOMAIN grid[u] = GridFields
    /\ \A u \in Users : wentBack[u] \/ GridHolds(u)

LEMMA GridStep ==
    ASSUME GridInv, [GridNext]_gridVars
    PROVE  GridInv'
<1>1. CASE ServerStep
  <2>1. EditedInv' /\ \A u \in Users : watch'[u] # watch[u] => revision'[u] > revision[u]
    BY <1>1, EditedStep DEF ServerStep, GridInv
  <2>2. /\ grid' = grid
        /\ wentBack' = [u \in Users |-> wentBack[u] \/ revision'[u] < revision[u]]
    BY <1>1 DEF ServerStep
  <2>3. ASSUME NEW u \in Users, ~wentBack'[u] PROVE GridHolds(u)'
    <3>1. GridHolds(u) /\ ~(revision'[u] < revision[u])
      BY <2>2, <2>3 DEF GridInv
    <3>2. revision[u] \in Nat /\ revision'[u] \in Nat
      BY <2>1 DEF GridInv, EditedInv, TypeOK
    <3>3. grid[u].revision \in Nat /\ grid[u].revision <= revision'[u]
      BY <3>1, <3>2 DEF GridHolds
    <3>4. grid[u].revision = revision'[u] => revision'[u] = revision[u] /\ watch'[u] = watch[u]
      BY <2>1, <3>1, <3>2 DEF GridHolds
    <3> QED BY <2>2, <3>1, <3>3, <3>4 DEF GridHolds
  <2> QED BY <2>1, <2>2, <2>3 DEF GridInv
<1>2. ASSUME NEW u \in Users, NEW next, DOMAIN next = GridFields,
             UNCHANGED <<requestVars, wentBack>>, grid' = [grid EXCEPT ![u] = next],
             wentBack[u] \/ /\ next.revision \in Nat /\ next.revision <= revision[u]
                            /\ next.revision = revision[u] =>
                                  next.row \in {"unseen", watch[u][next.poster]}
      PROVE  GridInv'
  <2>1. EditedInv'
    BY <1>2, EditedStep DEF GridInv
  <2>2. UNCHANGED <<kind, parent, watch, revision, wentBack>>
    BY <1>2 DEF requestVars
  <2>3. \A v \in Users : grid'[v] = IF v = u THEN next ELSE grid[v]
    BY <1>2 DEF GridInv
  <2>4. \A v \in Users : DOMAIN grid'[v] = GridFields
    BY <1>2, <2>3 DEF GridInv
  <2>5. grid' = [v \in Users |-> grid'[v]]
    BY <1>2 DEF GridInv
  <2>6. \A v \in Users : wentBack'[v] \/ GridHolds(v)'
    BY <1>2, <2>2, <2>3 DEF GridInv, GridHolds
  <2> QED BY <2>1, <2>2, <2>4, <2>5, <2>6 DEF GridInv
<1>3. ASSUME NEW u \in Users, NEW i \in Items, OpenGrid(u, i)
      PROVE  GridInv'
  <2> DEFINE next == NewGrid(revision[u], i)
  <2>1. DOMAIN next = GridFields
    BY DEF NewGrid, GridFields
  <2>2. next.revision = revision[u] /\ next.row = "unseen" /\ revision[u] \in Nat
    BY DEF NewGrid, GridInv, EditedInv, TypeOK
  <2>3. grid' = [grid EXCEPT ![u] = next] /\ UNCHANGED <<requestVars, wentBack>>
    BY <1>3 DEF OpenGrid
  <2> HIDE DEF next
  <2>4. /\ next.revision \in Nat /\ next.revision <= revision[u]
        /\ next.row \in {"unseen", watch[u][next.poster]}
    BY <2>2
  <2> QED BY <1>2, <2>1, <2>3, <2>4
<1>4. ASSUME NEW u \in Users, LoadPage(u)
      PROVE  GridInv'
  <2> DEFINE next == [grid[u] EXCEPT !.row = watch[u][grid[u].poster]]
  <2>1. DOMAIN grid[u] = GridFields
    BY DEF GridInv
  <2>2. /\ DOMAIN next = GridFields /\ next.revision = grid[u].revision
        /\ next.poster = grid[u].poster /\ next.row = watch[u][next.poster]
    BY <2>1 DEF GridFields
  <2>3. grid' = [grid EXCEPT ![u] = next] /\ UNCHANGED <<requestVars, wentBack>>
    BY <1>4 DEF LoadPage, GridInv
  <2> HIDE DEF next
  <2>4. wentBack[u] \/ /\ next.revision \in Nat /\ next.revision <= revision[u]
                       /\ next.revision = revision[u] =>
                             next.row \in {"unseen", watch[u][next.poster]}
    BY <2>2 DEF GridInv, GridHolds
  <2> QED BY <1>2, <2>2, <2>3, <2>4
<1>5. CASE UNCHANGED gridVars
  <2>1. UNCHANGED <<requestVars, wentBack, grid>>
    BY <1>5 DEF gridVars, requestVars
  <2>2. EditedInv'
    BY <2>1, EditedStep DEF GridInv
  <2> QED BY <2>1, <2>2 DEF GridInv, GridHolds, requestVars
<1> QED BY <1>1, <1>3, <1>4, <1>5 DEF GridNext

(* For every catalogue, set of viewers and of requests: a saved grid whose   *)
(* revision is the viewer's shows the viewer's rows, unless a clear that     *)
(* found nothing to delete has set the revision back before                  *)
(* (bump_playback_state_revision and the key of a saved grid).               *)
THEOREM SavedGridsStayCurrent == GridSpec => []SavedGridsAreCurrent
<1>1. GridInit => GridInv
  <2> SUFFICES ASSUME GridInit PROVE GridInv
    OBVIOUS
  <2>1. EditedInv
    BY InitEdited DEF GridInit
  <2>2. \A u \in Users : revision[u] = 1
    BY DEF GridInit, RequestInit, Init
  <2>3. \A u \in Users : \E i \in Items : grid[u] = NewGrid(1, i)
    BY DEF GridInit
  <2>4. \A u \in Users : /\ DOMAIN grid[u] = GridFields /\ grid[u].revision = 1
                         /\ grid[u].row = "unseen"
    <3>1. \A i \in Items : /\ DOMAIN NewGrid(1, i) = GridFields
                           /\ NewGrid(1, i).revision = 1 /\ NewGrid(1, i).row = "unseen"
      BY DEF NewGrid, GridFields
    <3> QED BY <2>3, <3>1
  <2>5. \A u \in Users : GridHolds(u)
    BY <2>2, <2>4 DEF GridHolds
  <2>6. grid = [u \in Users |-> grid[u]] /\ wentBack = [u \in Users |-> wentBack[u]]
    BY DEF GridInit
  <2> QED BY <2>1, <2>4, <2>5, <2>6 DEF GridInv
<1>2. GridInv => SavedGridsAreCurrent
  BY DEF GridInv, GridHolds, SavedGridsAreCurrent
<1> QED BY <1>1, <1>2, GridStep, PTL DEF GridSpec

-----------------------------------------------------------------------------
(* Overlapping edits and scans.  What a transaction has read still holds     *)
(* when it writes, for what removals have left, unless another edit or scan  *)
(* has written since.                                                        *)
EditRecord ==
    [phase : {"edit"}, item : Items, kind : Kinds, parent : Items \cup {NoItem},
     setsKind : BOOLEAN, setsParent : BOOLEAN, stale : BOOLEAN]

ScanFields == {"phase", "path", "chain", "found", "stale"}

IsScan(q) ==
    /\ q.phase = "scan" /\ DOMAIN q = ScanFields /\ q.stale \in BOOLEAN
    /\ q.path \in FilePaths /\ q.chain \in Chains(q.path) /\ q.found \in 0..Len(q.path)

IsTxn(q) == q = NoTxn \/ q \in EditRecord \/ IsScan(q)

EditFits(q) ==
    kind[q.item] # "absent" =>
        /\ q.setsKind = (q.kind # kind[q.item]) /\ q.setsParent = (q.parent # parent[q.item])
        /\ q.parent # q.item
        /\ MayRefer(q.parent) => ValidParent(kind, q.kind, q.parent)
        /\ q.kind \notin PlayableKinds => q.item \notin media
        /\ \A c \in Items : parent[c] = q.item => q.kind \in AllowedParentKinds(kind[c])

ScanFits(q) ==
    q.found > 0 /\ kind[q.chain[q.found]] # "absent" =>
        kind[q.chain[q.found]] = q.path[q.found]

TxnFits(q) == /\ q.phase = "edit" /\ ~q.stale => EditFits(q)
              /\ q.phase = "scan" /\ ~q.stale => ScanFits(q)

ParentsAreThere == \A i \in Items : kind[i] # "absent" => MayRefer(parent[i])

TreeInv ==
    /\ TypeOK /\ ParentsAreThere
    /\ txn = [t \in Writers |-> txn[t]] /\ \A t \in Writers : IsTxn(txn[t])
    /\ raced \in BOOLEAN
    /\ raced \/ (HierarchyIsValid /\ \A t \in Writers : TxnFits(txn[t]))

(* In a valid tree every row's parent is there. *)
LEMMA ValidTreeHasParents ==
    ASSUME HierarchyIsValid
    PROVE  ParentsAreThere
<1> SUFFICES ASSUME NEW i \in Items, kind[i] # "absent", parent[i] \in Items
             PROVE  kind[parent[i]] # "absent"
  BY DEF ParentsAreThere, MayRefer
<1>1. ValidParent(kind, kind[i], parent[i])
  BY DEF HierarchyIsValid, ValidCatalogue
<1>2. kind[parent[i]] \in AllowedParentKinds(kind[i])
  BY <1>1, WatchStateAssumption DEF ValidParent
<1> QED BY <1>2 DEF AllowedParentKinds

(* After t has written, whoever else is under way is stale. *)
LEMMA WrittenTxns ==
    ASSUME TreeInv, NEW t \in Writers, Written(t)
    PROVE  /\ txn' = [s \in Writers |-> txn'[s]]
           /\ \A s \in Writers : IsTxn(txn[s])' /\ TxnFits(txn[s])'
           /\ raced' \in BOOLEAN /\ (~raced' => ~raced /\ txn[t].stale # TRUE)
<1>1. txn' = [s \in Writers |->
                IF s = t \/ txn[s] = NoTxn THEN NoTxn ELSE [txn[s] EXCEPT !.stale = TRUE]]
  BY DEF Written
<1>2. ASSUME NEW s \in Writers
      PROVE  IsTxn(txn[s])' /\ TxnFits(txn[s])'
  <2>1. CASE s = t \/ txn[s] = NoTxn
    <3>1. txn'[s] = NoTxn
      BY <1>1, <2>1
    <3> QED BY <3>1 DEF IsTxn, TxnFits, NoTxn
  <2>2. CASE s # t /\ txn[s] \in EditRecord
    <3>1. txn[s] # NoTxn
      BY <2>2 DEF EditRecord, NoTxn
    <3>2. txn'[s] = [txn[s] EXCEPT !.stale = TRUE]
      BY <1>1, <2>2, <3>1
    <3>3. txn'[s] \in EditRecord /\ txn'[s].stale = TRUE /\ txn'[s].phase = "edit"
      BY <2>2, <3>2 DEF EditRecord
    <3> QED BY <3>3 DEF IsTxn, TxnFits
  <2>3. CASE s # t /\ IsScan(txn[s])
    <3>1. txn[s] # NoTxn
      BY <2>3 DEF IsScan, NoTxn
    <3>2. txn'[s] = [txn[s] EXCEPT !.stale = TRUE]
      BY <1>1, <2>3, <3>1
    <3>3. /\ DOMAIN txn'[s] = ScanFields /\ txn'[s].stale = TRUE /\ txn'[s].phase = "scan"
          /\ txn'[s].path = txn[s].path /\ txn'[s].chain = txn[s].chain
          /\ txn'[s].found = txn[s].found
      BY <2>3, <3>2 DEF IsScan, ScanFields
    <3>4. IsScan(txn'[s])
      BY <2>3, <3>3 DEF IsScan
    <3> QED BY <3>3, <3>4 DEF IsTxn, TxnFits
  <2> QED BY <2>1, <2>2, <2>3 DEF TreeInv, IsTxn
<1>3. raced' = (raced \/ txn[t].stale)
  BY DEF Written
<1>4. txn[t].stale \in BOOLEAN \/ txn[t] = NoTxn
  BY DEF TreeInv, IsTxn, EditRecord, IsScan
<1> QED BY <1>1, <1>2, <1>3, <1>4 DEF TreeInv

LEMMA WriteEditStep ==
    ASSUME TreeInv, NEW t \in Writers, WriteEdit(t)
    PROVE  TreeInv'
<1> DEFINE q == txn[t]
<1>1. q \in EditRecord /\ kind[q.item] # "absent" /\ (q.setsParent => MayRefer(q.parent))
  <2>1. q.phase = "edit"
    BY DEF WriteEdit
  <2>2. q \in EditRecord
    BY <2>1 DEF TreeInv, IsTxn, IsScan, NoTxn
  <2> QED BY <2>2 DEF WriteEdit
<1>2. /\ kind' = IF q.setsKind THEN [kind EXCEPT ![q.item] = q.kind] ELSE kind
      /\ parent' = IF q.setsParent THEN [parent EXCEPT ![q.item] = q.parent] ELSE parent
      /\ UNCHANGED <<media, watch, revision>>
  BY DEF WriteEdit
<1>3. /\ q.item \in Items /\ q.kind \in Kinds /\ q.parent \in Items \cup {NoItem}
      /\ q.setsKind \in BOOLEAN /\ q.setsParent \in BOOLEAN /\ q.stale \in BOOLEAN
      /\ q.phase = "edit"
  BY <1>1 DEF EditRecord
<1>4. TypeOK'
  BY <1>2, <1>3 DEF TypeOK, TreeInv
<1>5. Written(t)
  BY DEF WriteEdit
<1> HIDE DEF q
<1>6. /\ \A j \in Items : kind'[j] = IF j = q.item /\ q.setsKind THEN q.kind ELSE kind[j]
      /\ \A j \in Items : parent'[j] = IF j = q.item /\ q.setsParent THEN q.parent ELSE parent[j]
  BY <1>2, <1>3 DEF TypeOK, TreeInv
<1>7. \A j \in Items : kind[j] # "absent" <=> kind'[j] # "absent"
  BY <1>1, <1>3, <1>6 DEF Kinds
<1>8. ParentsAreThere'
  BY <1>1, <1>3, <1>6, <1>7 DEF ParentsAreThere, MayRefer, TreeInv
<1>9. ASSUME HierarchyIsValid, EditFits(q)
      PROVE  HierarchyIsValid'
  <2>1. /\ q.setsKind = (q.kind # kind[q.item]) /\ q.setsParent = (q.parent # parent[q.item])
        /\ q.parent # q.item
        /\ q.kind \notin PlayableKinds => q.item \notin media
        /\ \A c \in Items : parent[c] = q.item => q.kind \in AllowedParentKinds(kind[c])
    BY <1>1, <1>9 DEF EditFits
  <2>2. ValidParent(kind, q.kind, q.parent)
    <3>1. q.setsParent \/ q.parent = parent[q.item]
      BY <1>3, <2>1
    <3>2. MayRefer(q.parent)
      BY <1>1, <1>3, <3>1 DEF ParentsAreThere, TreeInv
    <3> QED BY <1>1, <1>9, <3>2 DEF EditFits
  <2>3. kind'[q.item] = q.kind /\ parent'[q.item] = q.parent
    BY <1>3, <1>6, <2>1
  <2>4. ASSUME NEW j \in Items, kind'[j] # "absent"
        PROVE  ValidParent(kind', kind'[j], parent'[j])
    <3>1. CASE j = q.item
      BY <1>3, <1>6, <2>1, <2>2, <2>3, <3>1 DEF ValidParent
    <3>2. CASE j # q.item
      <4>1. kind'[j] = kind[j] /\ parent'[j] = parent[j] /\ kind[j] # "absent"
        BY <1>6, <2>4, <3>2
      <4>2. ValidParent(kind, kind[j], parent[j])
        BY <1>9, <4>1 DEF HierarchyIsValid, ValidCatalogue
      <4>3. CASE parent[j] = q.item
        BY <1>3, <2>1, <2>3, <4>1, <4>2, <4>3 DEF ValidParent
      <4>4. CASE parent[j] # q.item
        <5>1. parent[j] \in Items => kind'[parent[j]] = kind[parent[j]]
          BY <1>6, <4>4
        <5> QED BY <4>1, <4>2, <5>1 DEF ValidParent
      <4> QED BY <4>3, <4>4
    <3> QED BY <3>1, <3>2
  <2>5. \A j \in Items : kind'[j] = "absent" => parent'[j] = NoItem
    BY <1>6, <1>7, <1>1, <1>9 DEF HierarchyIsValid, ValidCatalogue
  <2>6. ASSUME NEW j \in media' PROVE kind'[j] \in PlayableKinds
    <3>1. j \in media /\ j \in Items /\ kind[j] \in PlayableKinds
      BY <1>2, <1>9 DEF HierarchyIsValid, TreeInv, TypeOK
    <3> QED BY <1>6, <2>1, <3>1
  <2> QED BY <2>4, <2>5, <2>6 DEF HierarchyIsValid, ValidCatalogue
<1>10. ~raced' => HierarchyIsValid'
  <2>1. CASE ~raced'
    <3>1. ~raced /\ q.stale = FALSE
      BY <1>3, <1>5, <2>1, WrittenTxns DEF q
    <3>2. HierarchyIsValid /\ TxnFits(q)
      BY <3>1 DEF TreeInv, q
    <3>3. EditFits(q)
      BY <1>3, <3>1, <3>2 DEF TxnFits
    <3> QED BY <1>9, <3>2, <3>3
  <2> QED BY <2>1
<1> QED BY <1>4, <1>5, <1>8, <1>10, WrittenTxns DEF TreeInv

LEMMA WriteScanStep ==
    ASSUME TreeInv, NEW t \in Writers, WriteScan(t)
    PROVE  TreeInv'
<1> DEFINE q == txn[t]
<1>1. IsScan(q)
  <2>1. q.phase = "scan"
    BY DEF WriteScan
  <2> QED BY <2>1 DEF TreeInv, IsTxn, EditRecord, NoTxn
<1>2. /\ q.found > 0 => kind[q.chain[q.found]] # "absent"
      /\ \A m \in (q.found + 1)..Len(q.path) : Absent(q.chain[m])
      /\ InsertRows(q.path, q.chain, q.found)
      /\ Written(t) /\ UNCHANGED <<watch, revision>>
  BY DEF WriteScan
<1> HIDE DEF q
<1>3. PICK path, chain, n :
         /\ path \in FilePaths /\ chain \in Chains(path) /\ n \in 0..Len(path)
         /\ q.path = path /\ q.chain = chain /\ q.found = n
  BY <1>1 DEF IsScan
<1>4. /\ n > 0 => kind[chain[n]] # "absent"
      /\ \A m \in (n + 1)..Len(path) : Absent(chain[m])
      /\ InsertRows(path, chain, n)
  BY <1>2, <1>3
<1>5. /\ kind' \in [Items -> Kinds \cup {"absent"}]
      /\ parent' \in [Items -> Items \cup {NoItem}]
      /\ media' \subseteq Items
      /\ \A i \in Items : \/ kind'[i] = kind[i] /\ parent'[i] = parent[i]
                          \/ /\ kind[i] = "absent"
                             /\ \E m \in (n + 1)..Len(path) :
                                   /\ i = chain[m] /\ kind'[i] = path[m]
                                   /\ parent'[i] = IF m = 1 THEN NoItem ELSE chain[m - 1]
      /\ \A m \in (n + 1)..Len(path) : kind'[chain[m]] = path[m]
  BY <1>3, <1>4, InsertedRows DEF TreeInv
<1>6. TypeOK'
  BY <1>2, <1>5 DEF TypeOK, TreeInv
<1>7. \A j \in Items : kind[j] # "absent" => kind'[j] # "absent"
  BY <1>5
<1>8. /\ Len(path) \in Nat \ {0}
      /\ \A m \in 1..Len(path) : path[m] # "absent" /\ chain[m] \in Items
  BY <1>3, PathShape DEF Kinds, Chains
<1>9. ParentsAreThere'
  <2> SUFFICES ASSUME NEW j \in Items, kind'[j] # "absent", parent'[j] \in Items
               PROVE  kind'[parent'[j]] # "absent"
    BY DEF ParentsAreThere, MayRefer
  <2>1. CASE kind'[j] = kind[j] /\ parent'[j] = parent[j]
    BY <1>7, <2>1 DEF ParentsAreThere, MayRefer, TreeInv
  <2>2. CASE ~(kind'[j] = kind[j] /\ parent'[j] = parent[j])
    <3>1. PICK m \in (n + 1)..Len(path) :
             parent'[j] = IF m = 1 THEN NoItem ELSE chain[m - 1]
      BY <1>5, <2>2
    <3>2. m # 1 /\ parent'[j] = chain[m - 1]
      BY <3>1, WatchStateAssumption
    <3>3. CASE m - 1 = n
      <4>1. n > 0 /\ n \in 1..Len(path)
        BY <1>3, <1>8, <3>1, <3>2, <3>3
      <4> QED BY <1>4, <1>7, <1>8, <3>2, <3>3, <4>1
    <3>4. CASE m - 1 # n
      <4>1. m - 1 \in (n + 1)..Len(path) /\ m - 1 \in 1..Len(path)
        BY <1>3, <1>8, <3>1, <3>2, <3>4
      <4> QED BY <1>5, <1>8, <3>2, <4>1
    <3> QED BY <3>3, <3>4
  <2> QED BY <2>1, <2>2
<1>10. ~raced' => HierarchyIsValid'
  <2>1. CASE ~raced'
    <3>1. ~raced /\ q.stale = FALSE
      BY <1>1, <1>2, <2>1, WrittenTxns DEF q, IsScan
    <3>2. HierarchyIsValid /\ TxnFits(q)
      BY <3>1 DEF TreeInv, q
    <3>3. ScanFits(q)
      BY <1>1, <3>1, <3>2 DEF TxnFits, IsScan
    <3>4. n > 0 => kind[chain[n]] = path[n]
      BY <1>3, <1>4, <3>3 DEF ScanFits
    <3> QED BY <1>3, <1>4, <3>2, <3>4, InsertionKeepsHierarchy DEF TreeInv
  <2> QED BY <2>1
<1> QED BY <1>2, <1>6, <1>9, <1>10, WrittenTxns DEF TreeInv

(* A transaction reads, or fails: nothing else changes. *)
LEMMA ReadingStep ==
    ASSUME TreeInv, NEW t \in Writers, NEW next, IsTxn(next), ~raced => TxnFits(next),
           txn' = [txn EXCEPT ![t] = next], UNCHANGED <<vars, raced>>
    PROVE  TreeInv'
<1>1. UNCHANGED <<kind, parent, media, watch, revision, raced>>
  BY DEF vars
<1>2. TypeOK' /\ ParentsAreThere' /\ (HierarchyIsValid => HierarchyIsValid')
  BY <1>1 DEF TypeOK, ParentsAreThere, MayRefer, HierarchyIsValid, ValidCatalogue,
              ValidParent, TreeInv
<1>3. \A s \in Writers : txn'[s] = IF s = t THEN next ELSE txn[s]
  BY DEF TreeInv
<1>4. ASSUME NEW s \in Writers
      PROVE  IsTxn(txn[s])' /\ (~raced => TxnFits(txn[s])')
  <2>1. \A q : TxnFits(q) => /\ q.phase = "edit" /\ ~q.stale => EditFits(q)
                             /\ q.phase = "scan" /\ ~q.stale => ScanFits(q)
    BY DEF TxnFits
  <2>2. IsTxn(txn'[s]) /\ (~raced => TxnFits(txn'[s]))
    BY <1>3 DEF TreeInv
  <2> QED BY <1>1, <2>2 DEF TxnFits, EditFits, ScanFits, MayRefer, ValidParent
<1>5. txn' = [s \in Writers |-> txn'[s]]
  BY DEF TreeInv
<1> QED BY <1>1, <1>2, <1>4, <1>5 DEF TreeInv

LEMMA RemovalStep ==
    ASSUME TreeInv, NEW i \in Items, DeleteItem(i), UNCHANGED <<txn, raced>>
    PROVE  TreeInv'
<1>1. TypeOK' /\ TypeOK
  BY DeleteItemType DEF TreeInv
<1> DEFINE gone == Subtree(i)
<1>2. gone \subseteq Items /\ \A j \in Items : parent[j] \in gone => j \in gone
  BY SubtreeIsClosed
<1>3. /\ \A j \in Items : j \notin gone => kind'[j] = kind[j] /\ parent'[j] = parent[j]
      /\ \A j \in gone : kind'[j] = "absent" /\ parent'[j] = NoItem
      /\ media' \subseteq media
  BY <1>2 DEF DeleteItem
<1> HIDE DEF gone
<1>4. ParentsAreThere'
  BY <1>2, <1>3 DEF ParentsAreThere, MayRefer, TreeInv
<1>5. \A j \in Items : kind'[j] # "absent" => kind'[j] = kind[j] /\ parent'[j] = parent[j]
  BY <1>3
<1>6. ASSUME NEW t \in Writers, TxnFits(txn[t])
      PROVE  TxnFits(txn[t])'
  <2> DEFINE q == txn[t]
  <2>1. q' = q
    OBVIOUS
  <2>2. CASE q \in EditRecord
    <3>1. q.item \in Items /\ q.parent \in Items \cup {NoItem} /\ q.phase = "edit" /\ q.kind \in Kinds
      BY <2>2 DEF EditRecord
    <3>2. ASSUME EditFits(q), kind'[q.item] # "absent"
          PROVE  /\ q.setsKind = (q.kind # kind'[q.item])
                 /\ q.setsParent = (q.parent # parent'[q.item])
                 /\ q.parent # q.item
                 /\ MayRefer(q.parent)' => ValidParent(kind', q.kind, q.parent)
                 /\ q.kind \notin PlayableKinds => q.item \notin media'
                 /\ \A c \in Items : parent'[c] = q.item => q.kind \in AllowedParentKinds(kind'[c])
      <4>1. kind'[q.item] = kind[q.item] /\ parent'[q.item] = parent[q.item]
        BY <1>5, <3>1, <3>2
      <4>2. /\ q.setsKind = (q.kind # kind[q.item]) /\ q.setsParent = (q.parent # parent[q.item])
            /\ q.parent # q.item
            /\ MayRefer(q.parent) => ValidParent(kind, q.kind, q.parent)
            /\ q.kind \notin PlayableKinds => q.item \notin media
            /\ \A c \in Items : parent[c] = q.item => q.kind \in AllowedParentKinds(kind[c])
        BY <3>2, <4>1 DEF EditFits
      <4>3. MayRefer(q.parent)' => ValidParent(kind', q.kind, q.parent)
        <5>1. CASE q.parent \in Items /\ kind'[q.parent] # "absent"
          <6>1. kind'[q.parent] = kind[q.parent]
            BY <1>5, <5>1
          <6> QED BY <4>2, <5>1, <6>1 DEF MayRefer, ValidParent
        <5>2. CASE q.parent \notin Items
          BY <4>2, <5>2 DEF MayRefer, ValidParent
        <5> QED BY <5>1, <5>2 DEF MayRefer
      <4>4. ASSUME NEW c \in Items, parent'[c] = q.item
            PROVE  q.kind \in AllowedParentKinds(kind'[c])
        <5>1. c \notin gone
          BY <1>3, <3>1, <4>4, WatchStateAssumption
        <5> QED BY <1>3, <4>2, <4>4, <5>1
      <4> QED BY <1>3, <4>1, <4>2, <4>3, <4>4
    <3>3. EditFits(q) => EditFits(q)'
      BY <2>1, <3>2 DEF EditFits
    <3> QED BY <1>6, <2>1, <3>1, <3>3 DEF TxnFits
  <2>3. CASE IsScan(q)
    <3>1. PICK path, chain, n :
             /\ path \in FilePaths /\ chain \in Chains(path) /\ n \in 0..Len(path)
             /\ q.path = path /\ q.chain = chain /\ q.found = n
      BY <2>3 DEF IsScan
    <3>2. n > 0 => chain[n] \in Items
      <4>1. Len(path) \in Nat
        BY <3>1, PathShape
      <4> QED BY <3>1, <4>1 DEF Chains
    <3>3. ScanFits(q) => ScanFits(q)'
      BY <1>5, <2>1, <3>1, <3>2 DEF ScanFits
    <3>4. q.phase = "scan"
      BY <2>3 DEF IsScan
    <3> QED BY <1>6, <2>1, <3>3, <3>4 DEF TxnFits
  <2>4. CASE q = NoTxn
    BY <2>1, <2>4 DEF TxnFits, NoTxn
  <2> QED BY <2>2, <2>3, <2>4 DEF TreeInv, IsTxn
<1>7. HierarchyIsValid => HierarchyIsValid'
  BY <1>1, RemovalKeepsHierarchy
<1> QED BY <1>1, <1>4, <1>6, <1>7 DEF TreeInv, IsTxn, IsScan

LEMMA TreeStep ==
    ASSUME TreeInv, [TreeNext]_treeVars
    PROVE  TreeInv'
<1>1. ASSUME NEW t \in Writers, NEW i \in Items, NEW k \in Kinds, NEW p \in Items \cup {NoItem},
             ValidateEdit(t, i, k, p)
      PROVE  TreeInv'
  <2> DEFINE next == [phase |-> "edit", item |-> i, kind |-> k, parent |-> p,
                      setsKind |-> k # kind[i], setsParent |-> p # parent[i], stale |-> FALSE]
  <2>1. next \in EditRecord
    BY DEF EditRecord
  <2>2. EditFits(next)
    BY <1>1 DEF ValidateEdit, EditIsAllowed, EditFits
  <2>3. txn' = [txn EXCEPT ![t] = next] /\ UNCHANGED <<vars, raced>>
    BY <1>1 DEF ValidateEdit
  <2>4. IsTxn(next) /\ TxnFits(next)
    <3>1. next.phase = "edit"
      OBVIOUS
    <3> HIDE DEF next
    <3> QED BY <2>1, <2>2, <3>1 DEF IsTxn, TxnFits
  <2> HIDE DEF next
  <2> QED BY <2>3, <2>4, ReadingStep
<1>2. ASSUME NEW t \in Writers, NEW path \in FilePaths, NEW chain \in Chains(path),
             NEW n \in 0..Len(path), ReadForScan(t, path, chain, n)
      PROVE  TreeInv'
  <2> DEFINE next == [phase |-> "scan", path |-> path, chain |-> chain, found |-> n,
                      stale |-> FALSE]
  <2>1. IsScan(next) /\ next.phase = "scan"
    BY DEF IsScan, ScanFields
  <2>2. ScanFits(next)
    <3>1. n > 0 => n \in 1..n
      BY PathShape
    <3> QED BY <1>2, <3>1 DEF ReadForScan, Found, ScanFits
  <2>3. txn' = [txn EXCEPT ![t] = next] /\ UNCHANGED <<vars, raced>>
    BY <1>2 DEF ReadForScan
  <2> HIDE DEF next
  <2>4. IsTxn(next) /\ TxnFits(next)
    BY <2>1, <2>2 DEF IsTxn, TxnFits
  <2> QED BY <2>3, <2>4, ReadingStep
<1>3. ASSUME NEW t \in Writers, Fail(t)
      PROVE  TreeInv'
  <2>1. IsTxn(NoTxn) /\ TxnFits(NoTxn)
    BY DEF IsTxn, TxnFits, NoTxn
  <2> QED BY <1>3, <2>1, ReadingStep DEF Fail
<1>4. CASE UNCHANGED treeVars
  <2>1. UNCHANGED <<kind, parent, media, watch, revision, txn, raced>>
    BY <1>4 DEF treeVars
  <2> QED BY <2>1 DEF TreeInv, TypeOK, ParentsAreThere, MayRefer, HierarchyIsValid,
             ValidCatalogue, ValidParent, IsTxn, IsScan, TxnFits, EditFits, ScanFits
<1> QED BY <1>1, <1>2, <1>3, <1>4, WriteEditStep, WriteScanStep, RemovalStep DEF TreeNext

(* For any number of overlapping edits, with scans and removals between      *)
(* their reads and their writes: no row is ever left without its parent, and *)
(* the tree keeps its shape until an edit or a scan writes after another     *)
(* wrote what it had read (update_item and apply_scan validate or look up    *)
(* before they hold the writer lock, delete_item holds it throughout).       *)
THEOREM TreeIsValidUnlessRaced == TreeSpec => []HierarchyUnlessRaced
<1>1. TreeInit => TreeInv
  <2> SUFFICES ASSUME TreeInit PROVE TreeInv
    OBVIOUS
  <2>1. TypeOK /\ HierarchyIsValid
    BY InitType, InitHierarchy DEF TreeInit
  <2>2. IsTxn(NoTxn) /\ TxnFits(NoTxn)
    BY DEF IsTxn, TxnFits, NoTxn
  <2>3. txn = [t \in Writers |-> NoTxn] /\ raced = FALSE
    BY DEF TreeInit
  <2> QED BY <2>1, <2>2, <2>3, ValidTreeHasParents DEF TreeInv
<1>2. TreeInv => HierarchyUnlessRaced
  BY DEF TreeInv, ParentsAreThere, HierarchyUnlessRaced
<1> QED BY <1>1, <1>2, TreeStep, PTL DEF TreeSpec
=============================================================================
