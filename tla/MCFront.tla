------------------------------ MODULE MCFront ------------------------------
(***************************************************************************)
(* Front with two filters, three panels and three dropdowns for TLC.       *)
(***************************************************************************)
EXTENDS Front

CONSTANTS seeders, hd, connections, trackers, users, monitorMenu, savedMenu

MCFilter == {seeders, hd}
MCPanel == {connections, trackers, users}
MCBodyMenu == {monitorMenu, savedMenu}
=============================================================================
