---------------------------- MODULE MCRunnerLoop ----------------------------
(***************************************************************************)
(* RunnerLoop with two torrents for TLC.                                   *)
(***************************************************************************)
EXTENDS RunnerLoop

CONSTANTS t1, t2

TwoTorrents == {t1, t2}
=============================================================================
