--------------------------- MODULE MCWatchOrder ----------------------------
(* Constants of WatchOrder for TLC: all items in one root, or Other in a     *)
(* root of its own.                                                         *)
EXTENDS WatchOrder, TLC

CONSTANT Other

Roots == [i \in Items |-> IF i = Other THEN 2 ELSE 1]
ItemSymmetry == Permutations(Items)
OneRootSymmetry == Permutations(Items \ {Other}) \cup Permutations(Editors)
=============================================================================
