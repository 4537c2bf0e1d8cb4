----------------------------- MODULE MCCleanup -----------------------------
(***************************************************************************)
(* Cleanup with three copies: packs of a season, episodes of it, or two of *)
(* them in one torrent; in the root folder, another one or the pack's own, *)
(* where an episode of another season may lie too.                         *)
(***************************************************************************)
EXTENDS Cleanup

CONSTANTS h1, s1, e1, e2, x1, pack, repack, episode, second, pair, stranger,
          root, other, packFolder

MCUnit == {s1, e1, e2, x1}
MCSeason == {s1}
MCPackOf == [u \in MCUnit |-> IF u \in {e1, e2} THEN s1 ELSE None]
MCName == {pack, repack, episode, second, pair, stranger}
MCUnitsOf ==
    [n \in MCName |-> CASE n = episode -> {e1} [] n = second -> {e2}
                        [] n = pair -> {e1, e2} [] n = stranger -> {x1} [] OTHER -> {s1}]
MCPlace == {root, other, packFolder}
MCWithin == [p \in MCPlace |-> IF p = packFolder THEN {<<root, pack>>} ELSE {}]
MCCopy == 1..3
MCNumbering == {<<2, 3, 1>>}

(* The libraries: who is there, and where.                                 *)
Library(c1, c2, c3) ==
    <<[c \in MCCopy |-> <<c1, c2, c3>>[c][1]], [c \in MCCopy |-> <<c1, c2, c3>>[c][2]]>>

MCLibraries == {
    Library(<<pack, root>>, <<repack, root>>, <<episode, packFolder>>),
    Library(<<pack, root>>, <<pack, other>>, <<repack, root>>),
    Library(<<pack, root>>, <<repack, root>>, <<stranger, packFolder>>),
    Library(<<episode, root>>, <<second, root>>, <<pair, other>>),
    Library(<<episode, root>>, <<episode, packFolder>>, <<pack, root>>)}
=============================================================================
