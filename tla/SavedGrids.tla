----------------------------- MODULE SavedGrids -----------------------------
(***************************************************************************)
(* The poster grids a browser keeps, beside the requests that change what  *)
(* they show.                                                              *)
(*                                                                         *)
(* The library page asks for the viewer's revision and renders a grid that *)
(* carries it.  The grid then loads its pages, with the viewer's rows, and *)
(* keeps them in the browser's session storage under a key with that       *)
(* revision.  A page rendered with the same revision later shows the saved *)
(* grid and loads nothing, so the revision has to tell whether the rows    *)
(* are still those (KatalogService.playback_state_revision: "used to       *)
(* invalidate saved poster grids").                                        *)
(*                                                                         *)
(* Storage may hold a grid for every revision and every set of filters; a  *)
(* viewer's grid here is any one of them, and one poster of it.            *)
(***************************************************************************)
EXTENDS WatchRequests

VARIABLES
    grid,      \* a saved grid of each viewer: its revision, a poster, its row
    wentBack   \* the viewers whose revision has been set to a lower one

gridVars == <<kind, parent, media, watch, revision, req, grid, wentBack>>

(* A grid of item i, rendered with the revision r; no page of it is loaded. *)
NewGrid(r, i) == [revision |-> r, poster |-> i, row |-> "unseen"]

GridInit ==
    /\ RequestInit
    /\ grid \in [Users -> {NewGrid(1, i) : i \in Items}]
    /\ wentBack = [u \in Users |-> FALSE]

(* The library page is opened with a revision or filters that no grid is    *)
(* saved for, and starts one.  (Where there is one, it is shown as it is.)  *)
OpenGrid(u, i) ==
    /\ grid' = [grid EXCEPT ![u] = NewGrid(revision[u], i)]
    /\ UNCHANGED <<requestVars, wentBack>>

(* The page of the poster is loaded, or loaded again after an eviction: it  *)
(* has the row as it is now, under the revision the grid was rendered with. *)
LoadPage(u) ==
    /\ grid' = [grid EXCEPT ![u].row = watch[u][grid[u].poster]]
    /\ UNCHANGED <<requestVars, wentBack>>

(* A step of the server; wentBack is a history of what it did.              *)
ServerStep ==
    /\ RequestNext \/ EditNext
    /\ wentBack' = [u \in Users |-> wentBack[u] \/ revision'[u] < revision[u]]
    /\ UNCHANGED grid

GridNext ==
    \/ ServerStep
    \/ \E u \in Users : LoadPage(u) \/ \E i \in Items : OpenGrid(u, i)

GridSpec == GridInit /\ [][GridNext]_gridVars

-----------------------------------------------------------------------------
(* A grid that would be shown again, because its revision is the viewer's,  *)
(* shows the rows as they are, however its pages were loaded between other  *)
(* requests, removals and scans: everything that changes a viewer's rows    *)
(* gives the viewer a revision no grid has yet.  The exception is a viewer  *)
(* whose revision went back: a clear that finds nothing to delete writes    *)
(* the revision it read before others advanced it, and later changes give   *)
(* the same revisions again, with other rows.                               *)
SavedGridsAreCurrent ==
    \A u \in Users :
        \/ wentBack[u]
        \/ grid[u].revision = revision[u] =>
              grid[u].row \in {"unseen", watch[u][grid[u].poster]}
=============================================================================
