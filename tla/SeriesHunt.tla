----------------------------- MODULE SeriesHunt -----------------------------
(***************************************************************************)
(* The hunt for the episodes of a watched series, one call of              *)
(* run_series_cycle per pass (monitor/runner.py): what is on hand is put   *)
(* together from the history, the marks of the library, the disk,          *)
(* Transmission and Jellyfin; what has aired and is not on hand is covered *)
(* with releases; a PROPER/REPACK or a better quality replaces what was    *)
(* taken lately (search/decision.py).  With the pages that toggle the      *)
(* marks (web/series_routes.py).                                           *)
(*                                                                         *)
(* One series: the turns of a pass share nothing but the history read at   *)
(* its start, in which a series only reads its own records.  An action is  *)
(* what happens from one await to the next.  A pass is shorter than a      *)
(* tick, so that `now`, read once, is the age of everything seen from the  *)
(* present.  Whether a targeted search is due (monitor/schedule.py, in     *)
(* MovieHunt) only decides where the candidates come from: it is left open.*)
(***************************************************************************)
EXTENDS Naturals

CONSTANTS
    Episode, Season,
    SeasonOf,       \* the season of an episode
    Release,        \* releases of the series the profile accepts
    Keys,           \* parse_episodes of a title: episodes, or seasons for a pack
    Tier,           \* its language, 1 the best
    Quality,        \* its quality, 0 the best
    Repack,         \* pairs <<r, s>>: r is a PROPER/REPACK of s
    Recognised,     \* releases whose torrent bears a name that matches the series
    Window,         \* regrab_hours, in ticks
    RepackWindow,   \* REPACK_WINDOW
    UpgradeWindow,  \* UPGRADE_WINDOW
    (* Bounds *)
    Calls,          \* the feeds and the settings a pass may be given
    Answers,        \* what the disk, Jellyfin and TMDB may answer
    HandReleases,   \* releases a person, or a saved search, may send
    MaxEdits,       \* things people and the purge do
    Horizon,        \* the age from which everything is just as old
    None

Key == Episode \cup Season
Age == 0 .. Horizon
(* upgrades: they are on, and the profile lists its qualities.             *)
Call == [feed: SUBSET Release, jellyfin: BOOLEAN, upgrades: BOOLEAN]
(* A toggle that awaits TMDB: its key, and the marks it has read.          *)
Toggle == [key: Key, read: SUBSET Key]

ASSUME SeriesHuntAssumption ==
    /\ Episode \cap Season = {}
    /\ SeasonOf \in [Episode -> Season]
    /\ Keys \in [Release -> SUBSET Key]
    /\ \A r \in Release : Keys[r] \subseteq Episode \/ Keys[r] \subseteq Season
    /\ \A r \in Release : \A d, e \in Keys[r] \cap Episode : SeasonOf[d] = SeasonOf[e]
    /\ Tier \in [Release -> Nat] /\ Quality \in [Release -> Nat]
    /\ Repack \subseteq Release \X Release
    /\ \A p \in Repack : /\ Quality[p[1]] = Quality[p[2]]
                         /\ \A s \in Release : <<p[2], s>> \notin Repack
    /\ Recognised \subseteq Release /\ HandReleases \subseteq Release
    /\ Calls \subseteq Call /\ Answers \subseteq SUBSET Episode
    /\ Horizon \in Nat /\ MaxEdits \in Nat
    /\ Window \in Nat /\ RepackWindow \in Nat /\ UpgradeWindow \in Nat
    /\ Window < Horizon /\ RepackWindow < Horizon /\ UpgradeWindow < Horizon
    /\ None \notin Nat \cup Release \cup Call \cup Toggle
    /\ \A keys \in SUBSET Key : keys # None

VARIABLES
    marked,     \* SeriesLibrary: series.grabbed, or None when it is not watched
    recorded,   \* MonitorHistory: the age of the latest grab of each release, or None
    blacklist,  \* Blacklist: the titles
    torrents,   \* the releases in Transmission
    hand,       \* the release being sent, or None
    page,       \* the toggle under way, or None
    pc,         \* where the pass stands
    call,       \* the arguments of the pass, or None
    records,    \* history.records(), read once
    have,       \* the keys known to be on hand
    air,        \* what TMDB answered: {} when it did not
    results,    \* all_results
    mode,       \* what is being sent: "hunt" or "swap"
    todo,       \* releases left to send
    claimed,    \* episodes of the hunts so far
    newly,      \* episodes of those that were sent
    pick,       \* the release being sent, or None
    claim,      \* the episodes it is sent for
    edits,      \* things people and the purge did so far
    (* What the properties need to remember *)
    there,      \* torrents the pass was told of and that are still there
    kept,       \* marks the pass has to go by and that are still set
    sent,       \* episodes sent in this pass
    hunted      \* age of the last hunt of each episode that was recorded, or None

stores == <<marked, recorded, blacklist>>
people == <<hand, page, edits>>
known == <<records, have, air, results>>
plan == <<mode, todo, claimed, newly, pick, claim>>
pass == <<pc, call, known, plan>>
ghosts == <<there, kept, sent, hunted>>
vars == <<stores, torrents, people, pass, ghosts>>

Unrecorded == [r \in Release |-> None]

PassOver ==
    /\ pc' = "idle" /\ call' = None
    /\ records' = Unrecorded /\ have' = {} /\ air' = {} /\ results' = {}
    /\ mode' = "hunt" /\ todo' = {} /\ claimed' = {} /\ newly' = {}
    /\ pick' = None /\ claim' = {}
    /\ there' = {} /\ kept' = {} /\ sent' = {}

(* Watched as a new series, or with its seasons acquired (suivre_serie).   *)
Init ==
    /\ marked \in {{}, Key} /\ recorded = Unrecorded /\ blacklist = {}
    /\ torrents = {}
    /\ hand = None /\ page = None /\ edits = 0
    /\ pc = "idle" /\ call = None
    /\ records = Unrecorded /\ have = {} /\ air = {} /\ results = {}
    /\ mode = "hunt" /\ todo = {} /\ claimed = {} /\ newly = {}
    /\ pick = None /\ claim = {}
    /\ there = {} /\ kept = {} /\ sent = {}
    /\ hunted = [e \in Episode |-> None]

Watched == marked # None

(***************************************************************************)
(* Keys.                                                                   *)
(***************************************************************************)

EpisodesOf(s) == {e \in Episode : SeasonOf[e] = s}

(* covered_episodes: the tag of a season stands for its episodes.          *)
Spans(keys) == {e \in Episode : e \in keys \/ SeasonOf[e] \in keys}

Named(r) == Keys[r] \cap Episode
KeysOf(releases) == UNION {Keys[r] : r \in releases}

(***************************************************************************)
(* What is on hand.                                                        *)
(***************************************************************************)

Historic == {r \in Release : recorded[r] # None}

(* Mutant: only episodes count, not the packs.                             *)
BugEpisodesOnly == {r \in Historic : recorded[r] <= Window /\ Keys[r] \subseteq Episode}

Recent == {r \in Historic : recorded[r] <= Window}

(* The marks that count: all of them without Jellyfin, else those that the *)
(* history does not account for.                                           *)
Marks == IF call.jellyfin THEN marked \ KeysOf(Historic) ELSE marked

(* What is known before Transmission, Jellyfin and TMDB are asked.         *)
OnRecord == Marks \cup KeysOf(IF call.jellyfin THEN Recent ELSE Historic)

(***************************************************************************)
(* What to send for what is missing: select_series_releases.               *)
(***************************************************************************)

Complete(answer) == answer # {} /\ answer \subseteq Spans(have)

(* Mutant: without TMDB, the tag of a season that is on hand is forgotten. *)
BugNoTags(r) ==
    IF air # {} THEN (Spans(Keys[r]) \cap air) \ Spans(have) ELSE Named(r) \ have

(* What a release brings. Without TMDB, the episodes its title names. (The *)
(* episodes a title names are of one season: either its tag is on hand and *)
(* the release is no candidate, or what is named and not on hand is new.)  *)
Brings(r) == (IF air # {} THEN Spans(Keys[r]) \cap air ELSE Named(r)) \ Spans(have)
Brought(releases) == UNION {Brings(r) : r \in releases}

Candidates == {r \in results \ blacklist : Brings(r) # {}}

(* Language first, then quality; size per episode and seeders decide ties. *)
Above(r, s) == Tier[r] < Tier[s] \/ (Tier[r] = Tier[s] /\ Quality[r] < Quality[s])

(* The greedy choice gets to a release with everything above it covered.   *)
Worthwhile == {r \in Candidates : ~(Brings(r) \subseteq Brought({s \in Candidates : Above(s, r)}))}

(* Everything that can be covered is, by picks none of which is redundant. *)
Hunts ==
    {picks \in SUBSET Worthwhile :
        /\ Brought(picks) = Brought(Candidates)
        /\ \A r \in picks : ~(Brings(r) \subseteq Brought(picks \ {r}))}

(***************************************************************************)
(* What to send instead of what was taken: select_series_replacements.     *)
(***************************************************************************)

(* _series_previous: the latest release recorded for an episode.           *)
Previous(e) ==
    {r \in Release :
        /\ records[r] # None /\ e \in Keys[r]
        /\ \A s \in Release : records[s] # None /\ e \in Keys[s] => records[r] <= records[s]}

(* replacement_reason                                                      *)
Replaces(r, previous) ==
    \/ <<r, previous>> \in Repack /\ records[previous] <= RepackWindow
    \/ /\ call.upgrades /\ records[previous] <= UpgradeWindow
       /\ Quality[r] < Quality[previous] /\ Tier[r] <= Tier[previous]

Eligible ==
    {r \in results \ blacklist :
        /\ records[r] = None
        /\ Named(r) # {}
        /\ \A e \in Named(r) : \E p \in Previous(e) : Replaces(r, p)}

Overlap(r, s) == Named(r) \cap Named(s) # {}

(* Best first, each for episodes that none before it is for.               *)
Swaps ==
    {picks \in SUBSET Eligible :
        /\ \A r, s \in picks : r # s => ~Overlap(r, s)
        /\ \A r \in Eligible \ picks : \E s \in picks : Overlap(r, s) /\ ~Above(r, s)}

(***************************************************************************)
(* A pass.                                                                 *)
(***************************************************************************)

PassStarts ==
    /\ pc = "idle"
    /\ call' \in Calls
    /\ pc' = "owned"
    /\ UNCHANGED <<stores, torrents, people, known, plan, ghosts>>

(* Jellyfin has answered, or has not: the history and the library are read,*)
(* and the folders of the series are scanned.                              *)
HistoryRead(found) ==
    /\ pc = "owned" /\ Watched
    /\ records' = recorded
    /\ have' = OnRecord \cup found
    /\ kept' = IF call.jellyfin THEN {} ELSE marked
    /\ pc' = "listing"
    /\ UNCHANGED <<stores, torrents, people, call, air, results, plan, there, sent, hunted>>

NotWatched ==
    /\ pc = "owned" /\ ~Watched
    /\ PassOver
    /\ UNCHANGED <<stores, torrents, people, hunted>>

Listed(answer) ==
    /\ pc = "listing"
    /\ have' = have \cup KeysOf(answer)
    /\ there' = answer
    /\ pc' \in IF call.jellyfin THEN {"episodes", "airing"} ELSE {"airing"}
    /\ UNCHANGED <<stores, torrents, people, call, records, air, results, plan, kept, sent, hunted>>

ListingAnswered == Listed(torrents \cap Recognised)
(* A Transmission that fails is an empty one.                              *)
ListingFails == Listed({})

(* Asked only when the series was in what Jellyfin answered first.         *)
EpisodesAnswered(answer) ==
    /\ pc = "episodes"
    /\ have' = have \cup answer
    /\ pc' = "airing"
    /\ UNCHANGED <<stores, torrents, people, call, records, air, results, plan, ghosts>>

(* TMDB answers what has aired, less what its cache or a season that did   *)
(* not load hides. Nothing is searched for a complete series, nor for one  *)
(* whose targeted search is not due: the feed is all there is.             *)
AirAnswered(answer) ==
    /\ pc = "airing"
    /\ air' = answer
    /\ \/ /\ ~Complete(answer)
          /\ pc' = "searching" /\ results' = {}
       \/ /\ Complete(answer) \/ call.feed # {}
          /\ pc' = "picking" /\ results' = call.feed
    /\ UNCHANGED <<stores, torrents, people, call, records, have, plan, ghosts>>

(* A targeted search, or the feed and the trackers that have none.         *)
SearchAnswered(answer) ==
    /\ pc = "searching"
    /\ results' = answer
    /\ pc' = "picking"
    /\ UNCHANGED <<stores, torrents, people, call, records, have, air, plan, ghosts>>

HuntsPicked ==
    /\ pc = "picking"
    /\ todo' \in Hunts
    /\ pc' = "next"
    /\ UNCHANGED <<stores, torrents, people, call, known, mode, claimed, newly, pick, claim, ghosts>>

(* A hunt claims what the hunts before it have not.                        *)
HuntSent(r) ==
    /\ pc = "next" /\ mode = "hunt" /\ r \in todo
    /\ todo' = todo \ {r}
    /\ pick' = r
    /\ claim' = Brings(r) \ claimed
    /\ claimed' = claimed \cup Brings(r)
    /\ pc' = "adding"
    /\ UNCHANGED <<stores, torrents, people, call, known, mode, newly, ghosts>>

(* Once the hunts are over; what was read for them is not read again.      *)
SwapsPicked ==
    /\ pc = "next" /\ mode = "hunt" /\ todo = {}
    /\ todo' \in Swaps
    /\ mode' = "swap"
    /\ records' = Unrecorded /\ have' = {} /\ air' = {} /\ results' = {}
    /\ claimed' = {} /\ there' = {} /\ kept' = {}
    /\ UNCHANGED <<stores, torrents, people, pc, call, newly, pick, claim, sent, hunted>>

(* Mutant: what was hunted in this turn is replaced at once.               *)
BugSwapsNew(r) == TRUE

(* Nothing is replaced that has just been hunted.                          *)
Swappable(r) == Named(r) \cap newly = {}

SwapSent(r) ==
    /\ pc = "next" /\ mode = "swap" /\ r \in todo
    /\ todo' = todo \ {r}
    /\ IF Swappable(r) THEN /\ pick' = r /\ claim' = Named(r)
                            /\ pc' = "adding"
                       ELSE UNCHANGED <<pick, claim, pc>>
    /\ UNCHANGED <<stores, torrents, people, call, known, mode, claimed, newly, ghosts>>

SeriesAdds ==
    /\ pc = "adding"
    /\ torrents' = torrents \cup {pick}
    /\ pc' = "recording"
    /\ UNCHANGED <<stores, people, call, known, plan, ghosts>>

(* Refused, or added with an answer that never came.                       *)
SeriesAddFails ==
    /\ pc = "adding"
    /\ torrents' \in {torrents, torrents \cup {pick}}
    /\ pick' = None /\ claim' = {}
    /\ pc' = "next"
    /\ UNCHANGED <<stores, people, call, known, mode, todo, claimed, newly, ghosts>>

(* Written in the history, then told to the channels.                      *)
SeriesRecords ==
    /\ pc = "recording"
    /\ recorded' = [recorded EXCEPT ![pick] = 0]
    /\ newly' = IF mode = "hunt" THEN newly \cup claim ELSE newly
    /\ sent' = sent \cup claim
    /\ hunted' = [e \in Episode |-> IF mode = "hunt" /\ e \in claim THEN 0 ELSE hunted[e]]
    /\ pc' = "telling"
    /\ UNCHANGED <<marked, blacklist, torrents, people, call, known, mode, todo, claimed, pick, claim,
                   there, kept>>

Told ==
    /\ pc = "telling"
    /\ pick' = None /\ claim' = {}
    /\ pc' = "next"
    /\ UNCHANGED <<stores, torrents, people, call, known, mode, todo, claimed, newly, ghosts>>

(* mark_grabbed, of a series that may have been removed meanwhile.         *)
TurnEnds ==
    /\ pc = "next" /\ mode = "swap" /\ todo = {}
    /\ marked' = IF Watched THEN marked \cup newly ELSE None
    /\ PassOver
    /\ UNCHANGED <<recorded, blacklist, torrents, people, hunted>>

(***************************************************************************)
(* Everything else acts while the pass awaits something.                   *)
(***************************************************************************)

Yielded == pc \notin {"picking", "next"}
Edits == edits < MaxEdits /\ edits' = edits + 1

TorrentGoes(r) ==
    /\ Yielded /\ r \in torrents
    /\ torrents' = torrents \ {r}
    /\ there' = there \ {r}
    /\ UNCHANGED <<stores, people, pass, kept, sent, hunted>>

(* Hunts that are no longer accounted for: they may be made again at once. *)
Forgotten(episodes) == hunted' = [e \in Episode |-> IF e \in episodes THEN None ELSE hunted[e]]

(* The purge, before the hunts of the same loop: the torrent is removed and *)
(* blacklisted, its keys unmarked, its record forgotten, with those of the *)
(* same episodes that bear no hash (_same_release).                        *)
Purged(r) ==
    /\ pc = "idle" /\ Edits /\ r \in torrents
    /\ torrents' = torrents \ {r}
    /\ blacklist' = blacklist \cup {r}
    /\ marked' = IF ~Watched \/ r \notin Recognised THEN marked
                 ELSE marked \ (Keys[r] \cup Spans(Keys[r]))
    /\ \E same \in SUBSET {s \in Release : Keys[s] = Keys[r]} :
         recorded' = [s \in Release |-> IF s \in same \cup {r} THEN None ELSE recorded[s]]
    /\ Forgotten(Spans(Keys[r]))
    /\ UNCHANGED <<hand, page, pass, there, kept, sent>>

(* A release sent by hand, or by a saved search: planned, added, then      *)
(* marked and recorded when it belonged to the watched series.             *)
HandAdds(r) ==
    /\ Yielded /\ Edits /\ hand = None
    /\ hand' = IF Watched /\ Keys[r] # {} THEN r ELSE None
    /\ torrents' = torrents \cup {r}
    /\ UNCHANGED <<stores, page, pass, ghosts>>

HandRecords ==
    /\ Yielded /\ hand # None
    /\ marked' = IF Watched THEN marked \cup Keys[hand] ELSE None
    /\ recorded' = [recorded EXCEPT ![hand] = 0]
    /\ hand' = None
    /\ UNCHANGED <<blacklist, torrents, page, edits, pass, ghosts>>

(* "Clear the history".                                                    *)
HistoryCleared ==
    /\ Yielded /\ Edits
    /\ recorded' = Unrecorded
    /\ Forgotten(Episode)
    /\ UNCHANGED <<marked, blacklist, torrents, hand, page, pass, there, kept, sent>>

Pardon(r) ==
    /\ Yielded /\ r \in blacklist
    /\ blacklist' = blacklist \ {r}
    /\ UNCHANGED <<marked, recorded, torrents, people, pass, ghosts>>

Unwatch ==
    /\ Yielded /\ Edits /\ Watched
    /\ marked' = None /\ kept' = {}
    /\ UNCHANGED <<recorded, blacklist, torrents, hand, page, pass, there, sent, hunted>>

(***************************************************************************)
(* The marks, on the page of the series. A toggle adds the series when it  *)
(* is not watched, reads its marks, and then awaits the seasons of TMDB.   *)
(***************************************************************************)

MarkGrabbed(keys) == marked' = IF Watched THEN marked \cup keys ELSE None
UnmarkGrabbed(keys) == marked' = IF Watched THEN marked \ keys ELSE None

(* An episode whose season is not marked needs no season of TMDB.          *)
TogglesAtOnce(key, read) == key \in Episode /\ SeasonOf[key] \notin read

ToggleAsked(key) ==
    LET read == IF Watched THEN marked ELSE {}
    IN /\ Yielded /\ Edits /\ page = None
       /\ IF TogglesAtOnce(key, read)
          THEN /\ marked' = IF key \in read THEN read \ {key} ELSE read \cup {key}
               /\ kept' = kept \ {key}
               /\ page' = None
          ELSE /\ marked' = read
               /\ page' = [key |-> key, read |-> read]
               /\ kept' = kept
       /\ UNCHANGED <<recorded, blacklist, torrents, hand, pass, there, sent, hunted>>

(* TMDB knows the season and its episodes, or the season only.             *)
SeasonToggled(episodes) ==
    /\ Yielded /\ page # None /\ page.key \in Season
    /\ LET keys == {page.key} \cup episodes
           grabbed == page.key \in page.read \/ (episodes # {} /\ episodes \subseteq page.read)
       IN IF grabbed THEN UnmarkGrabbed(keys) /\ kept' = kept \ keys
                     ELSE MarkGrabbed(keys) /\ kept' = kept
    /\ page' = None
    /\ UNCHANGED <<recorded, blacklist, torrents, hand, edits, pass, there, sent, hunted>>

(* "Keep other episodes in this season marked": those that TMDB answered.  *)
EpisodeToggled(episodes) ==
    /\ Yielded /\ page # None /\ page.key \in Episode
    /\ LET keys == {page.key, SeasonOf[page.key]}
       IN /\ marked' = IF Watched THEN (marked \cup episodes) \ keys ELSE None
          /\ kept' = kept \ keys
    /\ page' = None
    /\ UNCHANGED <<recorded, blacklist, torrents, hand, edits, pass, there, sent, hunted>>

(* TMDB failed: a season stays as it is.                                   *)
SeasonUnknown ==
    /\ Yielded /\ page # None /\ page.key \in Season
    /\ page' = None
    /\ UNCHANGED <<stores, torrents, hand, edits, pass, ghosts>>

ToggleAnswered ==
    \/ page # None /\ page.key \in Season
       /\ \E episodes \in {EpisodesOf(page.key), {}} : SeasonToggled(episodes)
    \/ SeasonUnknown
    \/ page # None /\ page.key \in Episode
       /\ \E episodes \in {EpisodesOf(SeasonOf[page.key]), {}} : EpisodeToggled(episodes)

MarkAll ==
    /\ Yielded /\ Edits
    /\ marked' = Key
    /\ UNCHANGED <<recorded, blacklist, torrents, hand, page, pass, ghosts>>

UnmarkAll ==
    /\ Yielded /\ Edits /\ Watched
    /\ marked' = {} /\ kept' = {}
    /\ UNCHANGED <<recorded, blacklist, torrents, hand, page, pass, there, sent, hunted>>

(* TorrSearch stops anywhere; its stores are on disk.                      *)
Restart ==
    /\ pc # "idle" \/ hand # None \/ page # None
    /\ hand' = None /\ page' = None
    /\ PassOver
    /\ UNCHANGED <<stores, torrents, edits, hunted>>

Older(age) == IF age = None THEN None ELSE IF age < Horizon THEN age + 1 ELSE age

Tick ==
    /\ pc = "idle"
    /\ recorded' = [r \in Release |-> Older(recorded[r])]
    /\ hunted' = [e \in Episode |-> Older(hunted[e])]
    /\ UNCHANGED <<marked, blacklist, torrents, people, pass, there, kept, sent>>

Step ==
    \/ PassStarts \/ NotWatched \/ ListingAnswered \/ ListingFails
    \/ \E answer \in Answers : HistoryRead(answer) \/ EpisodesAnswered(answer) \/ AirAnswered(answer)
    \/ \E answer \in SUBSET Release : SearchAnswered(answer)
    \/ HuntsPicked \/ SwapsPicked
    \/ \E r \in Release : HuntSent(r) \/ SwapSent(r)
    \/ SeriesAdds \/ SeriesAddFails \/ SeriesRecords \/ Told \/ TurnEnds

Environment ==
    \/ \E r \in Release : TorrentGoes(r) \/ Purged(r) \/ Pardon(r)
    \/ \E r \in HandReleases : HandAdds(r)
    \/ HandRecords \/ HistoryCleared \/ Unwatch
    \/ \E key \in Key : ToggleAsked(key)
    \/ ToggleAnswered \/ MarkAll \/ UnmarkAll
    \/ Restart \/ Tick

Next == Step \/ Environment
Spec == Init /\ [][Next]_vars

(***************************************************************************)
(* Properties.                                                             *)
(***************************************************************************)

StoresTypeOK ==
    /\ marked = None \/ marked \subseteq Key
    /\ recorded \in [Release -> Age \cup {None}]
    /\ blacklist \subseteq Release

WorldTypeOK ==
    /\ torrents \subseteq Release
    /\ hand \in HandReleases \cup {None}
    /\ page \in Toggle \cup {None}
    /\ edits \in 0 .. MaxEdits

PassTypeOK ==
    /\ pc \in {"idle", "owned", "listing", "episodes", "airing", "searching", "picking", "next",
               "adding", "recording", "telling"}
    /\ call \in Call \cup {None} /\ (call = None <=> pc = "idle")
    /\ records \in [Release -> Age \cup {None}]
    /\ have \subseteq Key /\ air \subseteq Episode /\ results \subseteq Release

PlanTypeOK ==
    /\ mode \in {"hunt", "swap"}
    /\ todo \subseteq Release
    /\ newly \subseteq Episode /\ claimed \subseteq Episode
    /\ pick \in Release \cup {None} /\ claim \subseteq Episode
    /\ pc \in {"adding", "recording", "telling"} => pick # None
    /\ pc \notin {"next", "adding", "recording", "telling"} =>
         mode = "hunt" /\ todo = {} /\ claimed = {} /\ pick = None

GhostTypeOK ==
    /\ there \subseteq torrents /\ kept \subseteq Key /\ sent \subseteq Episode
    /\ pc \in {"idle", "owned"} => there = {}
    /\ hunted \in [Episode -> Age \cup {None}]

(* Every variable is of its type, and the pass holds what it sends only    *)
(* where it sends something.                                               *)
TypeOK == StoresTypeOK /\ WorldTypeOK /\ PassTypeOK /\ PlanTypeOK /\ GhostTypeOK

(* "recent = grabbed within the cooldown window": two hunts of an episode  *)
(* are more than the cooldown apart, also when a pack was taken for it,    *)
(* with and without TMDB, across restarts, and whatever people do to the   *)
(* marks; only the purge and a cleared history let it go sooner.           *)
HuntsSpaced ==
    pc = "adding" /\ mode = "hunt" =>
        \A e \in claim : hunted[e] # None => hunted[e] > Window

(* What is hunted is neither in a torrent that Transmission answered and   *)
(* still holds, nor, without Jellyfin, marked as acquired since the pass   *)
(* read the marks: "Episodes considered already on hand".                  *)
NotOnHand ==
    pc = "adding" /\ mode = "hunt" => claim \cap Spans(KeysOf(there) \cup kept) = {}

(* A pass sends an episode once, by what it claims: hunts of one turn share*)
(* none, and no replacement is sent for what the turn has just hunted.     *)
OncePerPass == pc = "adding" => claim \cap sent = {}

(* "legacy grabs (recorded before timestamps existed)": an episode that    *)
(* the surveillance took itself, and recorded, is none of them.            *)
LegacyIsOlder ==
    Watched => \A e \in marked \ KeysOf(Historic) : e \in Episode => hunted[e] = None

(* "Keep other episodes in this season marked": an episode toggled off     *)
(* leaves the others of its season as they are.                            *)
OthersKept ==
    [][\A e \in Episode :
         page # None /\ page' = None /\ page.key \in Episode /\ Watched /\ marked' # None
         /\ e # page.key /\ e \in Spans(marked) => e \in Spans(marked')]_vars
=============================================================================
