------------------------- MODULE MCMaintenanceJobs --------------------------
(* Two scans of one library root, and a job that is no scan. *)
EXTENDS MaintenanceJobs, TLC

CONSTANTS scan1, scan2, other, root

MCJobs == {scan1, scan2, other}
MCRoot == [j \in Jobs |-> IF j = other THEN NoRoot ELSE root]
=============================================================================
