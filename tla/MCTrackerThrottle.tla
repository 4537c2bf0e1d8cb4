-------------------------- MODULE MCTrackerThrottle --------------------------
(***************************************************************************)
(* TrackerThrottle with three searches and two settings for TLC.           *)
(***************************************************************************)
EXTENDS TrackerThrottle, TLC

CONSTANTS page, robot, claude

Three == {page, robot, claude}
Alike == Permutations(Three)
=============================================================================
