-------------------------- MODULE MCPlaybackSession -------------------------
(* Two queue entries: one file of known duration, one that was never probed. *)
EXTENDS PlaybackSession, TLC

MCDuration == (0 :> 20) @@ (1 :> Unknown)
PlayerOperations == {"progress", "complete", "completeAndAdvance"}
Symmetry == Permutations(Requests)
=============================================================================
