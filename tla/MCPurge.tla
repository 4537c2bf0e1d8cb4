------------------------------- MODULE MCPurge -------------------------------
(***************************************************************************)
(* Small instances of Purge for TLC: releases r1 and r2 of one movie, or   *)
(* of one series; two conditions of a torrent, dead and downloading.       *)
(***************************************************************************)
EXTENDS Purge

CONSTANTS r1, r2, m1, s1

Dead == [percent |-> 0, status |-> "downloading", receiving |-> FALSE, error |-> "none"]
Alive == [percent |-> 50, status |-> "downloading", receiving |-> TRUE, error |-> "none"]
Unregistered == [percent |-> 50, status |-> "downloading", receiving |-> FALSE, error |-> "forgotten"]
DiskFull == [percent |-> 0, status |-> "stopped", receiving |-> FALSE, error |-> "local"]

MCReleases == {r1, r2}
OneRelease == {r1}
MCTitle == {"t1", "t2"}
(* The tracker's title is the torrent's name... *)
SameNames == [r \in Release |-> IF r = r1 THEN "t1" ELSE "t2"]
(* ... or it is not. *)
OtherNames == [r \in Release |-> "t2"]
OfMovie == [r \in Release |-> m1]
OfSeries == [r \in Release |-> s1]
OfBoth == [r \in Release |-> IF r = r1 THEN m1 ELSE s1]
EpisodeOfSeries == [r \in Release |-> IF r = r1 THEN {} ELSE {"S01E01"}]
NoEpisode == [r \in Release |-> {}]
OneEpisodeEach == [r \in Release |-> {"S01E01"}]

DeadOrAlive == {Dead, Alive}
FourHealths == {Dead, Alive, Unregistered, DiskFull}
=============================================================================
