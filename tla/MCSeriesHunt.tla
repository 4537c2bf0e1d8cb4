---------------------------- MODULE MCSeriesHunt ----------------------------
(* Instances of SeriesHunt: a season of two episodes, a release of the     *)
(* first, a better one, and the pack of the season.                        *)
EXTENDS SeriesHunt

CONSTANTS s1, e1, e2, low, high, pack

MCSeasonOf == [e \in Episode |-> s1]
MCKeys == [r \in Release |-> IF r = pack THEN {s1} ELSE {e1}]
MCTier == [r \in Release |-> 1]
MCQuality == [r \in Release |-> IF r = high THEN 0 ELSE 1]
MCAnswers == {{}, {e1, e2}}
MCCalls ==
    {[feed |-> {}, jellyfin |-> TRUE, upgrades |-> TRUE],
     [feed |-> {high}, jellyfin |-> FALSE, upgrades |-> TRUE]}
=============================================================================
