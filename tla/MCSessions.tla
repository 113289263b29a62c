----------------------------- MODULE MCSessions -----------------------------
(***************************************************************************)
(* Two playback sessions of two queue entries each, one file of known      *)
(* duration and one that was never probed.  The server works on one        *)
(* request at a time of the first session (part "serial") or on two at a   *)
(* time of the second (part "overlap"), whose player reports fewer         *)
(* positions and leaves out advance and close.  A behaviour exercises one. *)
(***************************************************************************)
EXTENDS PlaybackSession, TLC

CONSTANT Overlapping    \* the requests of the second session

VARIABLES part, expired2, closed2, current2, rows2, completions2, advances2, req2

MCDuration == (0 :> 20) @@ (1 :> Unknown)
AllOperations == {"progress", "complete", "completeAndAdvance", "advance", "close"}
Symmetry == Permutations(Overlapping)

Second == INSTANCE PlaybackSession
    WITH Requests <- Overlapping, Samples <- {8, 19},
         Operations <- {"progress", "complete", "completeAndAdvance"},
         expired <- expired2, closed <- closed2, current <- current2, rows <- rows2,
         completions <- completions2, advances <- advances2, req <- req2

vars2 == <<expired2, closed2, current2, rows2, completions2, advances2, req2>>
sessionsVars == <<part, vars, vars2>>

SessionsInit == part \in {"serial", "overlap"} /\ Init /\ Second!Init

SessionsNext ==
    /\ UNCHANGED part
    /\ \/ part = "serial" /\ Next /\ UNCHANGED vars2
       \/ part = "overlap" /\ Second!Next /\ UNCHANGED vars

SessionsSpec == SessionsInit /\ [][SessionsNext]_sessionsVars

-----------------------------------------------------------------------------
(* With requests that overlap: a sample that was on its way while the entry *)
(* was completed does not take the completion back                          *)
(* (PlaybackSession!LateSampleKeepsCompletion).                             *)
CompletionSurvivesOverlap == Second!LateSampleKeepsCompletion
=============================================================================
