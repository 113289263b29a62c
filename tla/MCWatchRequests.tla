-------------------------- MODULE MCWatchRequests ---------------------------
(* Two requests at a time over a small series: two seasons, one of them of  *)
(* a special only; or a season and a direct special.                        *)
EXTENDS WatchRequests, TLC

CONSTANTS i1, i2, i3, i4, i5, q1, q2

Series == i1 :> "series" @@ i2 :> "season" @@ i3 :> "episode"
Below1 == i1 :> NoItem @@ i2 :> i1 @@ i3 :> i2

TwoSeasons ==
    [kind   |-> Series @@ i4 :> "season" @@ i5 :> "special",
     parent |-> Below1 @@ i4 :> i1 @@ i5 :> i4,
     media  |-> {i3, i5}]

DirectSpecial ==
    [kind   |-> Series @@ i4 :> "special" @@ i5 :> "episode",
     parent |-> Below1 @@ i4 :> i1 @@ i5 :> i2,
     media  |-> {i3, i4, i5}]

RequestCatalogues == {TwoSeasons, DirectSpecial}
RequestSymmetry == Permutations({q1, q2})
=============================================================================
