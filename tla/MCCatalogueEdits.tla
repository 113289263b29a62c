-------------------------- MODULE MCCatalogueEdits --------------------------
(***************************************************************************)
(* The catalogue changes beside playback.  A behaviour has one of four     *)
(* parts.  "viewers": one viewer's whole operations between scans and      *)
(* removals (WatchState).  "requests": scans and removals between the      *)
(* reads and the commits of two marking or clearing requests               *)
(* (WatchRequests), over three of the four identifiers.  "grids": the      *)
(* same over two identifiers, with a saved poster grid (SavedGrids).       *)
(* "tree": two edits, or an edit and a scan, overlap, and items are        *)
(* removed (TreeEdits).                                                    *)
(***************************************************************************)
EXTENDS SavedGrids, TreeEdits, TLC

CONSTANTS i1, i2, i3, i4, q1, q2,
    MaxChanges   \* bounds on the catalogue's changes, by part

VARIABLES part, changes

editVars == <<kind, parent, media, watch, revision, req, grid, wentBack, txn, raced, part,
             changes>>

OneEpisode ==
    [kind   |-> i1 :> "series" @@ i2 :> "season" @@ i3 :> "episode" @@ i4 :> "absent",
     parent |-> i1 :> NoItem @@ i2 :> i1 @@ i3 :> i2 @@ i4 :> NoItem,
     media  |-> {i3}]

OneSpecial ==
    [kind   |-> i1 :> "series" @@ i2 :> "special" @@ i3 :> "absent" @@ i4 :> "absent",
     parent |-> i1 :> NoItem @@ i2 :> i1 @@ i3 :> NoItem @@ i4 :> NoItem,
     media  |-> {i2}]

EditCatalogues == {OneEpisode, OneSpecial}

(* Only the first states and the identifiers a part leaves absent tell      *)
(* identifiers apart; requests and writers are the same in every step.      *)
EditSymmetry == Permutations({q1, q2}) \cup Permutations({i1, i2, i3})

EditInit ==
    /\ GridInit /\ TreeInit
    /\ \/ part \in {"viewers", "tree"} /\ kind = OneEpisode.kind
       \/ part = "requests"
       \/ part = "grids" /\ kind = OneSpecial.kind
    /\ changes = 0
    /\ \A u \in Users : part = "grids" \/ grid[u].poster = i1

(* Bounds: the identifiers that stay unused, and scans of episodes and      *)
(* specials only, where movies and extras would only add rows that take no  *)
(* part in a roll-up.                                                       *)
ChangeBounds == [requests |-> 3, grids |-> 1, tree |-> 2]
Stays(X) == \A i \in X : kind'[i] = "absent"
OfSeries == \A i \in Items : kind'[i] \notin {"movie", "extra"}

PartNext ==
    \/ /\ part = "requests" /\ (RequestNext \/ (EditNext /\ Stays({i4}) /\ OfSeries))
       /\ UNCHANGED <<grid, wentBack, txn, raced>>
    \/ part = "grids" /\ GridNext /\ Stays({i4}) /\ OfSeries /\ UNCHANGED <<txn, raced>>
    \/ part = "tree" /\ TreeNext /\ UNCHANGED <<req, grid, wentBack>>

EditsNext ==
    /\ \/ /\ part = "viewers" /\ Next
          /\ UNCHANGED <<req, grid, wentBack, txn, raced, changes>>
       \/ /\ PartNext
          /\ changes' = changes + (IF UNCHANGED catalogueVars THEN 0 ELSE 1)
          /\ changes' <= MaxChanges[part]
    /\ UNCHANGED part

EditsSpec == EditInit /\ [][EditsNext]_editVars
=============================================================================
