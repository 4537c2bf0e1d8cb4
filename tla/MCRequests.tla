----------------------------- MODULE MCRequests -----------------------------
(***************************************************************************)
(* Requests with two works for TLC.                                        *)
(***************************************************************************)
EXTENDS Requests, TLC

CONSTANTS m1, m2

MCMedia == {m1, m2}
Alike == Permutations(MCMedia)
=============================================================================
