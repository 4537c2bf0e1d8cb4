----------------------------- MODULE RunnerLoop -----------------------------
(***************************************************************************)
(* The background loop of the surveillance: MonitorRunner (wake, run_soon, *)
(* run_once, stop, _loop) and the Jellyfin scan it asks for at the end of a*)
(* pass (run_jellyfin_refresh), in monitor/runner.py.                      *)
(*                                                                         *)
(* One action per stretch between two awaits; what the hunt does at the    *)
(* trackers is one stage here, which ends or raises. The initial states,   *)
(* the steps and the specification carry the name of the loop, so that     *)
(* SchedulingProofs can be about it and about the throttle of its searches.*)
(***************************************************************************)
EXTENDS Naturals

CONSTANTS
    Torrent,        \* torrents of Transmission, named by their id
    MaxRestarts,    \* bound: restarts of TorrSearch
    MaxToggles      \* bound: changes of the surveillance or Jellyfin settings

ASSUME LoopAssumption ==
    /\ MaxRestarts \in Nat /\ MaxToggles \in Nat

VARIABLES
    wake,       \* _wake_event
    forceNext,  \* _force_next
    stage,      \* where the loop stands
    forced,     \* the force argument of the pass that runs
    seen,       \* _completed_seen
    listing,    \* the finished torrents just listed
    torrent,    \* Transmission: "loading", "done" or "gone"
    monitorOn, jellyfinOn,  \* config.monitor.enabled, ctx.jellyfin.enabled
    restarts, toggles,      \* counters behind the bounds
    asked,      \* torrents that were finished when Jellyfin was last asked to scan
    scanned     \* torrents that were finished when it last did

asks == <<wake, forceNext>>
refresh == <<seen, listing, asked, scanned>>
world == <<torrent, monitorOn, jellyfinOn, restarts, toggles>>
loopVars == <<asks, stage, forced, refresh, world>>

Stage == {"hunting", "listing", "scanning", "checking"}

LoopInit ==
    /\ wake = FALSE /\ forceNext = FALSE
    /\ stage = "top" /\ forced = FALSE
    /\ seen = {} /\ listing = {} /\ asked = {} /\ scanned = {}
    /\ torrent = [t \in Torrent |-> "loading"]
    /\ monitorOn = TRUE /\ jellyfinOn = TRUE
    /\ restarts = 0 /\ toggles = 0

Done == {t \in Torrent : torrent[t] = "done"}

(***************************************************************************)
(* The pages and Claude.                                                   *)
(***************************************************************************)

(* wake: something was added or a setting changed. *)
Wake ==
    /\ wake' = TRUE
    /\ UNCHANGED <<forceNext, stage, forced, refresh, world>>

(* "Verifier maintenant": run_soon(force=True). *)
RunNow ==
    /\ monitorOn
    /\ forceNext' = TRUE
    /\ wake' = TRUE
    /\ UNCHANGED <<stage, forced, refresh, world>>

SaveMonitor ==
    /\ toggles < MaxToggles
    /\ toggles' = toggles + 1
    /\ monitorOn' = ~monitorOn
    /\ wake' = TRUE
    /\ UNCHANGED <<forceNext, stage, forced, refresh, torrent, jellyfinOn, restarts>>

SaveJellyfin ==
    /\ toggles < MaxToggles
    /\ toggles' = toggles + 1
    /\ jellyfinOn' = ~jellyfinOn
    /\ UNCHANGED <<asks, stage, forced, refresh, torrent, monitorOn, restarts>>

TorrentFinishes(t) ==
    /\ torrent[t] = "loading"
    /\ torrent' = [torrent EXCEPT ![t] = "done"]
    /\ UNCHANGED <<asks, stage, forced, refresh, monitorOn, jellyfinOn, restarts, toggles>>

TorrentRemoved(t) ==
    /\ torrent[t] # "gone"
    /\ torrent' = [torrent EXCEPT ![t] = "gone"]
    /\ UNCHANGED <<asks, stage, forced, refresh, monitorOn, jellyfinOn, restarts, toggles>>

(***************************************************************************)
(* The loop.                                                               *)
(***************************************************************************)

(* Mutant: the loop waits for the surveillance to be switched on. *)
BugOnlyWhenOn ==
    /\ stage = "top"
    /\ monitorOn
    /\ wake' = FALSE
    /\ forced' = forceNext /\ forceNext' = FALSE
    /\ stage' = "hunting"
    /\ UNCHANGED <<refresh, world>>

(* Cleared and taken before the pass: an ask during it is for the next one. *)
PassBegins ==
    /\ stage = "top"
    /\ wake' = FALSE
    /\ forced' = forceNext /\ forceNext' = FALSE
    /\ stage' = "hunting"
    /\ UNCHANGED <<refresh, world>>

(* The purge, the feed and the three hunts. *)
HuntEnds ==
    /\ stage = "hunting"
    /\ stage' = IF jellyfinOn THEN "listing" ELSE "checking"
    /\ UNCHANGED <<asks, forced, refresh, world>>

(* Mutant: Jellyfin is only told of the first torrents that finish. *)
BugFirstOnly ==
    /\ stage = "listing"
    /\ IF Done # {} /\ seen = {}
       THEN stage' = "scanning" /\ listing' = Done /\ UNCHANGED seen
       ELSE stage' = "checking" /\ seen' = Done /\ UNCHANGED listing
    /\ UNCHANGED <<asks, forced, asked, scanned, world>>

TorrentsListed ==
    /\ stage = "listing"
    /\ IF Done \ seen # {}
       THEN stage' = "scanning" /\ listing' = Done /\ UNCHANGED seen
       ELSE stage' = "checking" /\ seen' = Done /\ UNCHANGED listing
    /\ UNCHANGED <<asks, forced, asked, scanned, world>>

TorrentsUnknown ==
    /\ stage = "listing"
    /\ stage' = "checking"
    /\ UNCHANGED <<asks, forced, refresh, world>>

JellyfinScans ==
    /\ stage = "scanning"
    /\ asked' = Done /\ scanned' = Done
    /\ seen' = listing /\ listing' = {}
    /\ stage' = "checking"
    /\ UNCHANGED <<asks, forced, world>>

(* refresh() swallows its errors; the torrents count as told all the same. *)
ScanFails ==
    /\ stage = "scanning"
    /\ asked' = Done
    /\ seen' = listing /\ listing' = {}
    /\ stage' = "checking"
    /\ UNCHANGED <<asks, forced, scanned, world>>

(* Mutant: the asks are cleared after the pass. *)
BugClearedAfter ==
    /\ stage = "checking"
    /\ stage' = "waiting" /\ forced' = FALSE
    /\ wake' = FALSE /\ forceNext' = FALSE
    /\ UNCHANGED <<refresh, world>>

PassEnds ==
    /\ stage = "checking"
    /\ stage' = "waiting" /\ forced' = FALSE
    /\ UNCHANGED <<asks, refresh, world>>

(* The hunt or the last check raises: logged, and the loop goes on. *)
PassRaises ==
    /\ stage \in {"hunting", "checking"}
    /\ stage' = "waiting" /\ forced' = FALSE
    /\ UNCHANGED <<asks, refresh, world>>

WokenUp ==
    /\ stage = "waiting"
    /\ wake
    /\ stage' = "top"
    /\ UNCHANGED <<asks, forced, refresh, world>>

IntervalOver ==
    /\ stage = "waiting"
    /\ stage' = "top"
    /\ UNCHANGED <<asks, forced, refresh, world>>

(* stop cancels the loop at whatever it awaits; a new process starts anew. *)
Restart ==
    /\ restarts < MaxRestarts
    /\ restarts' = restarts + 1
    /\ wake' = FALSE /\ forceNext' = FALSE
    /\ stage' = "top" /\ forced' = FALSE
    /\ seen' = {} /\ listing' = {}
    /\ UNCHANGED <<asked, scanned, torrent, monitorOn, jellyfinOn, toggles>>

Loop ==
    \/ PassBegins \/ HuntEnds \/ TorrentsListed \/ TorrentsUnknown
    \/ JellyfinScans \/ ScanFails \/ PassEnds \/ PassRaises
    \/ WokenUp \/ IntervalOver

LoopNext ==
    \/ Wake \/ RunNow \/ SaveMonitor \/ SaveJellyfin
    \/ \E t \in Torrent : TorrentFinishes(t) \/ TorrentRemoved(t)
    \/ Loop \/ Restart

LoopSpec == LoopInit /\ [][LoopNext]_loopVars

(* asyncio runs a task that can run, calls end or fail, the interval ends; *)
(* the hunt does not always raise, Transmission does not always fail.      *)
LoopFairness ==
    /\ WF_loopVars(PassBegins)
    /\ SF_loopVars(HuntEnds)
    /\ SF_loopVars(TorrentsListed)
    /\ WF_loopVars(TorrentsUnknown)
    /\ WF_loopVars(JellyfinScans \/ ScanFails)
    /\ WF_loopVars(PassEnds \/ PassRaises)
    /\ WF_loopVars(WokenUp \/ IntervalOver)

LoopFairSpec == LoopSpec /\ LoopFairness

(***************************************************************************)
(* Properties.                                                             *)
(***************************************************************************)

(* Types; a forced ask always comes with a wake-up, a listing is held only *)
(* while Jellyfin is asked to scan, and force only while a pass runs.      *)
LoopTypeOK ==
    /\ wake \in BOOLEAN /\ forceNext \in BOOLEAN /\ forced \in BOOLEAN
    /\ stage \in {"top", "waiting"} \cup Stage
    /\ seen \subseteq Torrent /\ listing \subseteq Torrent /\ asked \subseteq Torrent /\ scanned \subseteq Torrent
    /\ torrent \in [Torrent -> {"loading", "done", "gone"}]
    /\ monitorOn \in BOOLEAN /\ jellyfinOn \in BOOLEAN
    /\ restarts \in Nat /\ toggles \in Nat
    /\ forceNext => wake
    /\ (listing # {}) => stage = "scanning"
    /\ forced => stage \in Stage

owedNow == IF forceNext THEN "forced" ELSE IF wake THEN "plain" ELSE "none"
passNow == IF stage \in Stage THEN IF forced THEN "forced" ELSE "plain" ELSE "none"

C == INSTANCE Checks WITH owed <- owedNow, pass <- passNow, stops <- restarts

(* The loop keeps the promise of Checks: run_soon "after the current one,  *)
(* if any", no ask lost, none downgraded, one pass at a time.              *)
ChecksKept == C!Spec

(* ... and every ask is taken by a pass in the end.                        *)
AsksServed == C!FairSpec

(* run_jellyfin_refresh: every torrent that finishes and stays leads to a   *)
(* call to Jellyfin made after it finished, however listings fail, passes   *)
(* raise and the process restarts; unless Jellyfin is switched off.         *)
FinishedIsAsked ==
    \A t \in Torrent : torrent[t] = "done" ~> (t \in asked \/ torrent[t] = "gone" \/ ~jellyfinOn)

(* What FinishedIsAsked rests on: a finished torrent that counts as told   *)
(* was finished when Jellyfin was last asked. So it is for one that         *)
(* finishes while the scan of others is awaited, and for a listing shorter  *)
(* than the one before (run_jellyfin_refresh, seen.clear, seen.update).     *)
ToldWasAsked == \A t \in seen : torrent[t] = "done" => t \in asked

(* "Refresh Jellyfin once when a torrent has newly finished": a finished    *)
(* torrent that stays is scanned. One failed call to Jellyfin loses it.     *)
FinishedIsScanned ==
    \A t \in Torrent : torrent[t] = "done" ~> (t \in scanned \/ torrent[t] = "gone" \/ ~jellyfinOn)

=============================================================================
