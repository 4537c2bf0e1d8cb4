---------------------------- MODULE MCMovieHunt ----------------------------
(***************************************************************************)
(* The hunt for one movie, for TLC: a release, its repack, and a better    *)
(* quality in a lesser language, so that it only ever comes as an upgrade  *)
(* or when the others failed; or one alone, whose title says 4KLight.      *)
(***************************************************************************)
EXTENDS MovieHunt

CONSTANTS m1, low, fixed, high, light

MCMovieOf == [r \in Release |-> m1]
MCTier == [r \in Release |-> IF r = high THEN 2 ELSE 1]
MCQuality == [r \in Release |-> IF r \in {high, light} THEN 0 ELSE 1]
(* parse_release takes 4KLight for 2160p, detect_quality for "other".      *)
MCDetected == [r \in Release |-> IF r = light THEN 2 ELSE MCQuality[r]]
MCRepack == {<<fixed, low>>} \cap (Release \X Release)

Pass(rss, feed, fallback, force, withJellyfin, withUpgrades) ==
    [rss |-> rss, feed |-> feed \cap Release, fallback |-> fallback, force |-> force,
     jellyfin |-> withJellyfin, upgrades |-> withUpgrades]
(* No tracker with RSS and no upgrades; a feed that brings nothing of ours, *)
(* and trackers without one; a feed with replacements; a forced pass        *)
(* without Jellyfin.                                                       *)
MCCalls == {Pass(FALSE, {}, FALSE, FALSE, TRUE, FALSE), Pass(TRUE, {}, TRUE, FALSE, TRUE, TRUE),
            Pass(TRUE, {fixed, high}, FALSE, FALSE, TRUE, TRUE),
            Pass(TRUE, {}, FALSE, TRUE, FALSE, TRUE)}
MCLiveCalls == {c \in MCCalls : c.jellyfin}
=============================================================================
