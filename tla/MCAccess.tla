------------------------------ MODULE MCAccess ------------------------------
(***************************************************************************)
(* Access with two accounts, two clients and as many consents and pairs as *)
(* one rotation, one revocation and one code presented twice need.         *)
(***************************************************************************)
EXTENDS Access, TLC

CONSTANTS boss, aide, h1, h2

MCUser == {boss, aide}
MCGiven == {ADMIN, MEMBER}
MCHandler == {h1, h2}

(* The /token requests differ by their name only, and nothing checked here *)
(* is a liveness property.                                                 *)
Symmetric == Permutations(MCHandler)
=============================================================================
