-------------------------------- MODULE Purge --------------------------------
(***************************************************************************)
(* The purge of dead torrents (monitor/stalled.py) and everything it races *)
(* with: the registry of grabs (monitor/grabs.py), the surveillance that   *)
(* adds torrents in the same coroutine (monitor/runner.py), users who send *)
(* a release by hand (library/sending.py, library/linking.py) and          *)
(* Transmission, which lives its own life.                                 *)
(*                                                                         *)
(* One asyncio loop runs everything, so a handler is atomic between two    *)
(* awaits: an action is what happens from one await to the next, and a     *)
(* call to Transmission is one action for what Transmission does and one   *)
(* for the handler that reads its answer.                                  *)
(***************************************************************************)
EXTENDS Naturals, FiniteSets

CONSTANTS
    Release,        \* torrents the trackers offer, named by their infohash
    Movie, Series,  \* works the surveillance can watch
    Episode,        \* keys such as "S01E02" or "S01"
    Title,          \* release titles, lowercased
    TitleOf,        \* the title the tracker gives a release
    NameOf,         \* the name Transmission gives its torrent (may differ)
    WorkOf,         \* the work a release is parsed and matched as
    Covers,         \* the episode keys a release stands for ({} for a movie)
    HashKnown,      \* releases whose tracker publishes the infohash
    Sender,         \* concurrent "send this release" handlers
    Health,         \* the conditions a torrent can be in
    MaxPurges,      \* MAX_PURGES_PER_CYCLE
    Grace,          \* stalled_hours, in ticks
    Tolerance,      \* SAME_ADD_TOLERANCE, in ticks
    Renumbers,      \* whether Transmission may restart and renumber its ids
    (* Bounds: how far time, ids and restarts go, and what users touch *)
    MaxClock, MaxId, MaxRestarts,
    SendReleases,   \* releases a person may send from TorrSearch
    HandReleases,   \* torrents handled in Transmission itself
    SavedReleases,  \* releases the automatic saved searches match
    PageWorks,      \* works added to and removed from the libraries
    PardonReleases, \* releases an admin may take off the blacklist
    CanToggle,      \* whether the surveillance is switched on and off
    None

Work == Movie \cup Series
AUTO == "auto"
MANUAL == "manual"

(* What _purge_reason reads of a torrent besides its age. *)
Condition == [percent: 0 .. 100,
              status: {"downloading", "stopped", "seeding", "queued", "checking"},
              receiving: BOOLEAN,
              error: {"none", "forgotten", "warning", "local"}]

Torrent == [id: Nat, added: Nat, health: Health]
Listed == [release: Release, id: Nat, added: Nat, health: Health]
GrabRecord == [origin: {AUTO, MANUAL}, added_at: Nat]
(* Under a work (from a "tracker"), under a saved search, or by hand. *)
HistoryRecord == [release: Release, source: {"tracker", "saved", "manuel"}, at: Nat]
Wanted == "wanted"

ASSUME PurgeAssumption ==
    /\ TitleOf \in [Release -> Title]
    /\ NameOf \in [Release -> Title]
    /\ WorkOf \in [Release -> Work]
    /\ Covers \in [Release -> SUBSET Episode]
    /\ HashKnown \subseteq Release
    /\ Health \subseteq Condition
    /\ IsFiniteSet(Release)
    /\ Movie \cap Series = {}
    /\ MaxPurges \in Nat /\ Grace \in Nat /\ Tolerance \in Nat
    /\ MaxClock \in Nat /\ MaxId \in Nat /\ MaxRestarts \in Nat
    /\ Renumbers \in BOOLEAN /\ CanToggle \in BOOLEAN
    /\ SendReleases \cup HandReleases \cup PardonReleases \cup SavedReleases \subseteq Release
    /\ PageWorks \subseteq Work
    /\ None \notin Torrent \cup GrabRecord \cup Listed
    /\ None \notin Release \cup Work \cup Title
    /\ Wanted \notin Title \cup {None}

VARIABLES
    clock,      \* the hour, shared by TorrSearch and Transmission
    torrent,    \* Transmission: the torrent of each release, or None
    nextId,     \* Transmission: the id it gives next
    registry,   \* GrabRegistry: the record of each release, or None
    badHash, badTitle,  \* Blacklist: the "hash:" and "title:" keys
    movie,      \* MovieLibrary: None (not watched), Wanted or the grabbed title
    series,     \* SeriesLibrary: None or the set of grabbed episode keys
    history,    \* MonitorHistory: the "grabbed" records
    enabled,    \* config.monitor.enabled
    pc,         \* where the surveillance coroutine stands in its cycle
    todo,       \* the listing, then the candidates left to purge
    current,    \* the candidate whose removal was just confirmed, or None
    pick,       \* the release the surveillance is adding, or None
    tripped,    \* PurgeBreaker
    sender,     \* the send_release handlers
    restarts,   \* restarts of TorrSearch and of Transmission so far
    (* What the properties need to remember *)
    sentAt,     \* times at which the surveillance recorded each release
    suspects,   \* releases of a mass die-off not followed by a clean listing
    buried,     \* ids of the torrents whose purge was written down
    condemned   \* releases purged and not taken off the blacklist since

client == <<torrent, nextId>>
stores == <<registry, badHash, badTitle, movie, series, history>>
runner == <<pc, todo, current, pick, tripped>>
ghosts == <<sentAt, suspects, buried, condemned>>
vars == <<clock, client, stores, enabled, runner, sender, restarts, ghosts>>

Idle == [at |-> "idle", release |-> None, work |-> None]

Init ==
    /\ clock = 0
    /\ torrent = [r \in Release |-> None]
    /\ nextId = 1
    /\ registry = [r \in Release |-> None]
    /\ badHash = {} /\ badTitle = {}
    /\ movie = [m \in Movie |-> Wanted]
    /\ series = [s \in Series |-> {}]
    /\ history = {}
    /\ enabled = TRUE
    /\ pc = "idle" /\ todo = {} /\ current = None /\ pick = None
    /\ tripped = FALSE
    /\ sender = [s \in Sender |-> Idle]
    /\ restarts = 0
    /\ sentAt = [r \in Release |-> {}]
    /\ suspects = {} /\ buried = {} /\ condemned = {}

(***************************************************************************)
(* Transmission and the hands that use it directly.                        *)
(***************************************************************************)

Present(r) == torrent[r] # None

(* torrent-add: a duplicate answers the torrent that is already there. *)
ClientAdds(r) ==
    \/ Present(r) /\ UNCHANGED client
    \/ /\ ~Present(r)
       /\ nextId <= MaxId
       /\ \E h \in Health :
            torrent' = [torrent EXCEPT ![r] = [id |-> nextId, added |-> clock, health |-> h]]
       /\ nextId' = nextId + 1

(* torrent-remove: whichever torrent bears that id, if one does. *)
ClientRemoves(id) ==
    /\ torrent' = [r \in Release |-> IF Present(r) /\ torrent[r].id = id
                                     THEN None ELSE torrent[r]]
    /\ UNCHANGED nextId

Tick ==
    /\ clock < MaxClock
    /\ clock' = clock + 1
    /\ UNCHANGED <<client, stores, enabled, runner, sender, restarts, ghosts>>

HealthChanges(r) ==
    /\ Present(r)
    /\ \E h \in Health \ {torrent[r].health} : torrent' = [torrent EXCEPT ![r].health = h]
    /\ UNCHANGED <<clock, nextId, stores, enabled, runner, sender, restarts, ghosts>>

(* Added in Transmission itself: TorrSearch learns nothing of it. *)
HandAdds(r) ==
    /\ ~Present(r)
    /\ ClientAdds(r)
    /\ UNCHANGED <<clock, stores, enabled, runner, sender, restarts, ghosts>>

(* Deleted in Transmission, or from the activity and cleanup pages. *)
HandRemoves(r) ==
    /\ Present(r)
    /\ ClientRemoves(torrent[r].id)
    /\ UNCHANGED <<clock, stores, enabled, runner, sender, restarts, ghosts>>

(* Ids live as long as the Transmission process: a restart counts from 1 again. *)
ClientRestarts ==
    LET kept == {r \in Release : Present(r)} IN
    /\ Renumbers
    /\ restarts < MaxRestarts
    /\ restarts' = restarts + 1
    /\ kept # {}
    /\ \E number \in [kept -> 1 .. Cardinality(kept)] :
         /\ \A r, q \in kept : r # q => number[r] # number[q]
         /\ torrent' = [r \in Release |-> IF r \in kept
                                          THEN [torrent[r] EXCEPT !.id = number[r]]
                                          ELSE None]
    /\ nextId' = Cardinality(kept) + 1
    /\ buried' = {}
    /\ UNCHANGED <<clock, stores, enabled, runner, sender, sentAt, suspects, condemned>>

(***************************************************************************)
(* The stores the purge and the grabs write.                               *)
(***************************************************************************)

(* GrabRegistry.record: a release a user picked stays theirs. *)
Recorded(reg, r, origin, at) ==
    IF reg[r] # None /\ reg[r].origin = MANUAL THEN reg
    ELSE [reg EXCEPT ![r] = [origin |-> origin, added_at |-> at]]

(* Mutant: only the title is looked up. *)
BugTitleOnly(r) == TitleOf[r] \in badTitle

IsBlacklisted(r) == (r \in HashKnown /\ r \in badHash) \/ TitleOf[r] \in badTitle

Watched(w) == IF w \in Movie THEN movie[w] # None ELSE series[w] # None

(* mark_grabbed of both libraries: nothing when the work is no longer watched. *)
MarkGrabbed(w, r) ==
    /\ movie' = IF w \in Movie /\ Watched(w) THEN [movie EXCEPT ![w] = TitleOf[r]] ELSE movie
    /\ series' = IF w \in Series /\ Watched(w)
                 THEN [series EXCEPT ![w] = @ \cup Covers[r]] ELSE series

Hashed(h) == h.source # "manuel" /\ h.release \in HashKnown

(* _same_release: by infohash when both have one, else by what the names say. *)
SameRelease(h, r) ==
    IF Hashed(h) THEN h.release = r
    ELSE \/ TitleOf[h.release] = NameOf[r]
         \/ WorkOf[h.release] = WorkOf[r] /\ Covers[h.release] = Covers[r]

(***************************************************************************)
(* The purge: handle_stalled_torrents.                                     *)
(***************************************************************************)

Near(a, b) == a <= b + Tolerance /\ b <= a + Tolerance

(* Mutant: the dates of the torrent and of its record are not compared. *)
BugAnyAutoRecord(t) == registry[t.release] # None /\ registry[t.release].origin = AUTO

SentBySurveillance(t) ==
    /\ registry[t.release] # None
    /\ registry[t.release].origin = AUTO
    /\ Near(t.added, registry[t.release].added_at)

(* _purge_reason: never on doubt. *)
Judgeable(t, now) ==
    /\ t.health.percent < 100
    /\ t.health.status = "downloading"
    /\ t.added + Grace <= now
    /\ ~t.health.receiving

PurgeReason(t, now) ==
    IF Judgeable(t, now) /\ t.health.error = "forgotten" THEN "error"
    ELSE IF Judgeable(t, now) /\ t.health.percent = 0 THEN "stalled"
    ELSE "none"

Candidates == {t \in todo : SentBySurveillance(t) /\ PurgeReason(t, clock) # "none"}

CycleStarts ==
    /\ pc = "idle"
    /\ enabled
    /\ pc' = "listing"
    /\ UNCHANGED <<clock, client, stores, enabled, todo, current, pick, tripped, sender, restarts, ghosts>>

ListingFails ==
    /\ pc = "listing"
    /\ pc' = "hunting"
    /\ UNCHANGED <<clock, client, stores, enabled, todo, current, pick, tripped, sender, restarts, ghosts>>

(* list_torrents, down to the fields the purge reads (_to_info). *)
AsListed(r) == [release |-> r, id |-> torrent[r].id, added |-> torrent[r].added,
                health |-> torrent[r].health]

ListingAnswered ==
    /\ pc = "listing"
    /\ pc' = "listed"
    /\ todo' = {AsListed(r) : r \in {q \in Release : Present(q)}}
    /\ UNCHANGED <<clock, client, stores, enabled, current, pick, tripped, sender, restarts, ghosts>>

MassDieOff == Cardinality(Candidates) > MaxPurges

(* Mutant: the breaker is not armed again. *)
BugStaysTripped ==
    /\ Candidates = {}
    /\ todo' = {} /\ pc' = "hunting"
    /\ UNCHANGED tripped

NothingDead ==
    /\ Candidates = {}
    /\ tripped' = FALSE
    /\ todo' = {} /\ pc' = "hunting"

PurgeSuspended ==
    /\ Candidates # {}
    /\ MassDieOff \/ tripped
    /\ tripped' = TRUE
    /\ todo' = {} /\ pc' = "hunting"

(* Mutant: each cycle is judged on its own, the breaker forgotten. *)
BugNoMemory ==
    /\ Candidates # {}
    /\ ~MassDieOff
    /\ todo' = Candidates /\ pc' = "purging"
    /\ UNCHANGED tripped

(* Mutant: torrents at 0 % without a tracker error are left alone. *)
BugOnlyForgotten ==
    /\ Candidates # {}
    /\ ~MassDieOff /\ ~tripped
    /\ todo' = {t \in Candidates : PurgeReason(t, clock) = "error"} /\ pc' = "purging"
    /\ UNCHANGED tripped

PurgeBegins ==
    /\ Candidates # {}
    /\ ~MassDieOff /\ ~tripped
    /\ todo' = Candidates /\ pc' = "purging"
    /\ UNCHANGED tripped

Judge ==
    /\ pc = "listed"
    /\ NothingDead \/ PurgeSuspended \/ PurgeBegins
    /\ suspects' = IF Candidates = {} THEN {}
                   ELSE IF MassDieOff THEN suspects \cup {t.release : t \in Candidates}
                   ELSE suspects
    /\ UNCHANGED <<clock, client, stores, enabled, current, pick, sender, restarts,
                   sentAt, buried, condemned>>

PurgeRemoves(t) ==
    /\ pc = "purging"
    /\ t \in todo
    /\ ClientRemoves(t.id)
    /\ pc' = "removed" /\ current' = t /\ todo' = todo \ {t}
    /\ UNCHANGED <<clock, stores, enabled, pick, tripped, sender, restarts, ghosts>>

(* Mutant: the bookkeeping goes on after a removal that failed. *)
BugFailureIgnored(t) ==
    /\ pc = "purging"
    /\ t \in todo
    /\ pc' = "removed" /\ current' = t /\ todo' = todo \ {t}
    /\ UNCHANGED <<clock, client, stores, enabled, pick, tripped, sender, restarts, ghosts>>

(* The call raised: Transmission refused, or did it and the answer was lost. *)
PurgeRemovalFails(t) ==
    /\ pc = "purging"
    /\ t \in todo
    /\ ClientRemoves(t.id) \/ UNCHANGED client
    /\ todo' = todo \ {t}
    /\ UNCHANGED <<clock, stores, enabled, pc, current, pick, tripped, sender, restarts, ghosts>>

(* The first movie grabbed under the name of the torrent becomes wanted again. *)
ResetMovies(name) ==
    LET named == {m \in Movie : movie[m] = name} IN
    IF named = {} THEN UNCHANGED movie
    ELSE \E m \in named : movie' = [movie EXCEPT ![m] = Wanted]

ResetSeries(r) ==
    series' = [s \in Series |-> IF series[s] # None /\ WorkOf[r] = s
                                THEN series[s] \ Covers[r] ELSE series[s]]

(* Steps 2 to 7 of the purge of one torrent, with no await before the notice. *)
PurgeWrittenDown ==
    /\ pc = "removed"
    /\ LET r == current.release IN
         /\ badHash' = badHash \cup {r}
         /\ badTitle' = badTitle \cup {NameOf[r]}
         /\ ResetMovies(NameOf[r])
         /\ ResetSeries(r)
         /\ history' = {h \in history : ~SameRelease(h, r)}
         /\ registry' = [registry EXCEPT ![r] = None]
         /\ condemned' = condemned \cup {r}
    /\ buried' = buried \cup {current.id}
    /\ current' = None
    /\ pc' = "purging"
    /\ UNCHANGED <<clock, client, enabled, todo, pick, tripped, sender, restarts, sentAt, suspects>>

PurgeEnds ==
    /\ pc = "purging"
    /\ todo = {}
    /\ pc' = "hunting"
    /\ UNCHANGED <<clock, client, stores, enabled, todo, current, pick, tripped, sender, restarts, ghosts>>

(***************************************************************************)
(* The rest of the cycle, as far as it reaches Transmission: any release   *)
(* of a watched work the blacklist allows may be chosen (the choice itself *)
(* is the movie and series cycles' business), or any release a saved       *)
(* search of mode "auto" matches.                                          *)
(***************************************************************************)

SurveillanceSelects(r) ==
    /\ pc = "hunting"
    /\ Watched(WorkOf[r])
    /\ ~IsBlacklisted(r)
    /\ pick' = r /\ pc' = "adding"
    /\ UNCHANGED <<clock, client, stores, enabled, todo, current, tripped, sender, restarts, ghosts>>

(* run_cycle: a saved search knows what its own history shows, and nothing *)
(* of the blacklist.                                                       *)
SavedSearchSelects(r) ==
    /\ pc = "hunting"
    /\ ~\E h \in history : h.source = "saved" /\ h.release = r
    /\ pick' = r /\ pc' = "saving"
    /\ UNCHANGED <<clock, client, stores, enabled, todo, current, tripped, sender, restarts, ghosts>>

SurveillanceAdds ==
    /\ pc \in {"adding", "saving"}
    /\ ClientAdds(pick)
    /\ pc' = IF pc = "adding" THEN "added" ELSE "saved"
    /\ UNCHANGED <<clock, stores, enabled, todo, current, pick, tripped, sender, restarts, ghosts>>

(* Mutant: the pick of a failed add stays behind. *)
BugPickKept ==
    /\ pc \in {"adding", "saving"}
    /\ pc' = "hunting"
    /\ UNCHANGED <<clock, client, stores, enabled, todo, current, pick, tripped, sender, restarts, ghosts>>

SurveillanceAddFails ==
    /\ pc \in {"adding", "saving"}
    /\ ClientAdds(pick) \/ UNCHANGED client
    /\ pc' = "hunting" /\ pick' = None
    /\ UNCHANGED <<clock, stores, enabled, todo, current, tripped, sender, restarts, ghosts>>

(* _remember, mark_grabbed and the history record, after the answer. A     *)
(* saved search marks nothing but the series it bears the name of.         *)
SurveillanceRecords ==
    /\ pc \in {"added", "saved"}
    /\ registry' = Recorded(registry, pick, AUTO, clock)
    /\ \/ /\ pc = "added" \/ WorkOf[pick] \in Series
          /\ MarkGrabbed(WorkOf[pick], pick)
       \/ pc = "saved" /\ UNCHANGED <<movie, series>>
    /\ history' = history \cup {[release |-> pick, at |-> clock,
                                 source |-> IF pc = "added" THEN "tracker" ELSE "saved"]}
    /\ sentAt' = [sentAt EXCEPT ![pick] = @ \cup {clock}]
    /\ pc' = "hunting" /\ pick' = None
    /\ UNCHANGED <<clock, client, badHash, badTitle, enabled, todo, current, tripped, sender,
                   restarts, suspects, buried, condemned>>

CycleEnds ==
    /\ pc = "hunting"
    /\ pc' = "idle"
    /\ UNCHANGED <<clock, client, stores, enabled, todo, current, pick, tripped, sender, restarts, ghosts>>

(***************************************************************************)
(* A person sends a release (web page or Claude): send_release.            *)
(***************************************************************************)

(* plan_manual_grab reads the libraries before the call to Transmission. *)
SenderPlans(s, r) ==
    /\ sender[s].at = "idle"
    /\ sender' = [sender EXCEPT ![s] =
                    [at |-> "adding", release |-> r,
                     work |-> IF Watched(WorkOf[r]) THEN WorkOf[r] ELSE None]]
    /\ UNCHANGED <<clock, client, stores, enabled, runner, restarts, ghosts>>

SenderAdds(s) ==
    /\ sender[s].at = "adding"
    /\ ClientAdds(sender[s].release)
    /\ sender' = [sender EXCEPT ![s].at = "added"]
    /\ UNCHANGED <<clock, stores, enabled, runner, restarts, ghosts>>

SenderAddFails(s) ==
    /\ sender[s].at = "adding"
    /\ ClientAdds(sender[s].release) \/ UNCHANGED client
    /\ sender' = [sender EXCEPT ![s] = Idle]
    /\ UNCHANGED <<clock, stores, enabled, runner, restarts, ghosts>>

(* grabs.record, then record_manual_grab for a watched work. *)
SenderRecords(s) ==
    LET r == sender[s].release
        w == sender[s].work IN
    /\ sender[s].at = "added"
    /\ registry' = Recorded(registry, r, MANUAL, clock)
    /\ IF w = None THEN UNCHANGED <<movie, series, history>>
       ELSE /\ MarkGrabbed(w, r)
            /\ history' = history \cup {[release |-> r, source |-> "manuel", at |-> clock]}
    /\ sender' = [sender EXCEPT ![s] = Idle]
    /\ UNCHANGED <<clock, client, badHash, badTitle, enabled, runner, restarts, ghosts>>

(***************************************************************************)
(* The other pages, and a restart of TorrSearch.                           *)
(***************************************************************************)

Watch(w) ==
    /\ ~Watched(w)
    /\ movie' = IF w \in Movie THEN [movie EXCEPT ![w] = Wanted] ELSE movie
    /\ series' = IF w \in Movie THEN series ELSE [series EXCEPT ![w] = {}]
    /\ UNCHANGED <<clock, client, registry, badHash, badTitle, history, enabled, runner, sender,
                   restarts, ghosts>>

Unwatch(w) ==
    /\ Watched(w)
    /\ movie' = IF w \in Movie THEN [movie EXCEPT ![w] = None] ELSE movie
    /\ series' = IF w \in Movie THEN series ELSE [series EXCEPT ![w] = None]
    /\ UNCHANGED <<clock, client, registry, badHash, badTitle, history, enabled, runner, sender,
                   restarts, ghosts>>

(* Blacklist.remove: the record of a hash carries the title it was filed under. *)
Unblacklist(r) ==
    /\ r \in badHash
    /\ badHash' = badHash \ {r}
    /\ badTitle' = badTitle \ {NameOf[r]}
    /\ condemned' = {q \in condemned : q # r /\ NameOf[q] # NameOf[r]}
    /\ UNCHANGED <<clock, client, registry, movie, series, history, enabled, runner, sender,
                   restarts, sentAt, suspects, buried>>

ToggleMonitor ==
    /\ CanToggle
    /\ enabled' = ~enabled
    /\ UNCHANGED <<clock, client, stores, runner, sender, restarts, ghosts>>

(* seed_from_history reads the newest entry first and writes each in turn: *)
(* the oldest grab of a release is the one that stays.                     *)
GrabTimes(r) == {h.at : h \in {k \in history : Hashed(k) /\ k.release = r}}

Oldest(times) == CHOOSE a \in times : \A b \in times : a <= b

Seeded == [r \in Release |->
             IF GrabTimes(r) = {} THEN None
             ELSE [origin |-> AUTO, added_at |-> Oldest(GrabTimes(r))]]

(* Mutant: the history is adopted at every start. *)
BugAlwaysSeeded == [r \in Release |-> IF Seeded[r] # None THEN Seeded[r] ELSE registry[r]]

SeedFromHistory == IF \A r \in Release : registry[r] = None THEN Seeded ELSE registry

(* The process stops anywhere: every coroutine and the breaker are lost. *)
Restart ==
    /\ restarts < MaxRestarts
    /\ restarts' = restarts + 1
    /\ pc' = "idle" /\ todo' = {} /\ current' = None /\ pick' = None
    /\ tripped' = FALSE
    /\ suspects' = {}
    /\ sender' = [s \in Sender |-> Idle]
    /\ registry' = SeedFromHistory
    /\ UNCHANGED <<clock, client, badHash, badTitle, movie, series, history, enabled,
                   sentAt, buried, condemned>>

(***************************************************************************)
(* The specification.                                                      *)
(***************************************************************************)

PurgeSteps ==
    \/ ListingAnswered \/ ListingFails \/ Judge
    \/ \E t \in todo : PurgeRemoves(t) \/ PurgeRemovalFails(t)
    \/ PurgeWrittenDown \/ PurgeEnds

HuntSteps ==
    \/ \E r \in Release : SurveillanceSelects(r)
    \/ \E r \in SavedReleases : SavedSearchSelects(r)
    \/ SurveillanceAdds \/ SurveillanceAddFails \/ SurveillanceRecords
    \/ CycleEnds

SenderSteps ==
    \E s \in Sender :
        \/ \E r \in SendReleases : SenderPlans(s, r)
        \/ SenderAdds(s) \/ SenderAddFails(s) \/ SenderRecords(s)

ClientSteps ==
    \/ \E r \in Release : HealthChanges(r)
    \/ \E r \in HandReleases : HandAdds(r) \/ HandRemoves(r)
    \/ ClientRestarts

PageSteps ==
    \/ \E w \in PageWorks : Watch(w) \/ Unwatch(w)
    \/ \E r \in PardonReleases : Unblacklist(r)
    \/ ToggleMonitor

Next ==
    \/ Tick \/ CycleStarts \/ PurgeSteps \/ HuntSteps
    \/ SenderSteps \/ ClientSteps \/ PageSteps \/ Restart

Spec == Init /\ [][Next]_vars

(***************************************************************************)
(* Types.                                                                  *)
(***************************************************************************)

ClientTypeOK ==
    /\ clock \in Nat
    /\ torrent \in [Release -> Torrent \cup {None}]
    /\ nextId \in Nat

StoresTypeOK ==
    /\ registry \in [Release -> GrabRecord \cup {None}]
    /\ badHash \subseteq Release
    /\ badTitle \subseteq Title
    /\ movie \in [Movie -> Title \cup {Wanted, None}]
    /\ series \in [Series -> (SUBSET Episode) \cup {None}]
    /\ history \subseteq HistoryRecord
    /\ enabled \in BOOLEAN

RunnerTypeOK ==
    /\ pc \in {"idle", "listing", "listed", "purging", "removed", "hunting",
              "adding", "added", "saving", "saved"}
    /\ todo \subseteq Listed
    /\ current \in Listed \cup {None}
    /\ pick \in Release \cup {None}
    /\ tripped \in BOOLEAN
    /\ (current # None) <=> (pc = "removed")
    /\ (pick # None) <=> (pc \in {"adding", "added", "saving", "saved"})
    /\ (todo # {}) => pc \in {"listed", "purging", "removed"}

SenderTypeOK ==
    /\ sender \in [Sender -> [at: {"idle", "adding", "added"}, release: Release \cup {None},
                              work: Work \cup {None}]]
    /\ \A s \in Sender : (sender[s].release # None) <=> (sender[s].at # "idle")
    /\ restarts \in Nat

GhostTypeOK ==
    /\ sentAt \in [Release -> SUBSET Nat]
    /\ suspects \subseteq Release
    /\ buried \subseteq Nat
    /\ condemned \subseteq Release

(* Every variable keeps its type, and the coroutine holds a confirmed      *)
(* removal, a pick or a queue only at the steps that use it.               *)
TypeOK == ClientTypeOK /\ StoresTypeOK /\ RunnerTypeOK /\ SenderTypeOK /\ GhostTypeOK

(***************************************************************************)
(* Safety.                                                                 *)
(***************************************************************************)

Queue == IF pc = "purging" THEN todo
         ELSE IF pc = "removed" THEN todo \cup {current} ELSE {}

(* Only the removal of a candidate changes both Transmission and the queue. *)
PurgeDeletion(r) == Present(r) /\ torrent'[r] = None /\ todo' # todo

(* What the purge deletes was added to Transmission within the tolerance   *)
(* of a moment the surveillance sent that very release, and is older than  *)
(* the grace period: whatever users remove, re-add or send between the     *)
(* listing and the deletion (handle_stalled_torrents, remove by id).       *)
DeletesOnlyOwnOld ==
    [][\A r \in Release : PurgeDeletion(r) =>
          /\ torrent[r].added + Grace <= clock
          /\ \E a \in sentAt[r] : Near(torrent[r].added, a)]_vars

(* After a mass die-off the purge stays off: no torrent of the outage is   *)
(* queued for deletion until a listing showed no candidate (PurgeBreaker). *)
SuspensionHolds == \A t \in Queue : t.release \notin suspects

(* The bookkeeping that frees a work for a new hunt is done only for a     *)
(* torrent that has left Transmission: "no second copy" (failed removal).  *)
NoSecondCopy == \A r \in Release : Present(r) => torrent[r].id \notin buried

(* "A release a user picked stays theirs": no surveillance grab, restart   *)
(* or seeding turns a manual record back; only the purge of a torrent      *)
(* judged before the pick drops it (GrabRegistry.record, forget).          *)
HandPickKept ==
    [][\A r \in Release :
          registry[r] # None /\ registry[r].origin = MANUAL =>
              \/ registry'[r] = registry[r]
              \/ registry'[r] = None /\ current # None /\ current.release = r]_vars

(* The blacklist can only recognise what the tracker shows of a release:   *)
(* its infohash, or a title equal to the torrent's name.                   *)
Recognisable(r) == r \in HashKnown \/ TitleOf[r] = NameOf[r]

(* The hunt for a watched work never adds again a release the purge        *)
(* deleted, as long as the admin leaves it on the blacklist and the tracker*)
(* makes it recognisable (handle_stalled_torrents, is_blacklisted).        *)
NeverRegrabsPurged ==
    pc \in {"adding", "added"} /\ pick \in condemned => ~Recognisable(pick)

(***************************************************************************)
(* Liveness.                                                               *)
(***************************************************************************)

(* The loop keeps running cycles, each of finite length; Transmission does *)
(* not fail every listing, nor every removal of the same torrent.          *)
Fairness ==
    /\ WF_vars(CycleStarts)
    /\ SF_vars(ListingAnswered)
    /\ WF_vars(ListingFails)
    /\ WF_vars(Judge)
    /\ \A r \in Release : SF_vars(\E t \in todo : t.release = r /\ PurgeRemoves(t))
    /\ WF_vars(PurgeWrittenDown)
    /\ WF_vars(PurgeEnds)
    /\ WF_vars(SurveillanceAdds \/ SurveillanceAddFails)
    /\ WF_vars(SurveillanceRecords)
    /\ SF_vars(CycleEnds)

FairSpec == Spec /\ Fairness

DeadGrab(r) == /\ Present(r)
               /\ SentBySurveillance(AsListed(r))
               /\ PurgeReason(AsListed(r), clock) # "none"

(* A dead torrent of the surveillance does not sit there for ever: it goes *)
(* or recovers, unless the purge is suspended or the surveillance off.     *)
DeadGrabsGo == \A r \in Release : []<>(~DeadGrab(r) \/ tripped \/ ~enabled)

(* An outage that is over ends the suspension: the breaker is armed again  *)
(* once no dead grab is left (handle_stalled_torrents, first test).        *)
BreakerRearms == []<>(~tripped \/ ~enabled \/ \E r \in Release : DeadGrab(r))

(***************************************************************************)
(* What the documentation says and the code does not keep.                 *)
(***************************************************************************)

(* grabs.py: the purge "only ever touches torrents recorded here as chosen *)
(* by the surveillance, never a torrent added by hand (in Transmission or  *)
(* here)". The registry is read before the removals are awaited.           *)
HandPickNeverDeleted ==
    [][\A r \in Release : PurgeDeletion(r) =>
          ~(registry[r] # None /\ registry[r].origin = MANUAL)]_vars

(* stalled.py: the purge resets the library status of what it purges. The  *)
(* movie is found by the torrent's name, which is not the tracker's title. *)
PurgeFreesTheMovie ==
    [][\A m \in Movie :
          /\ pc = "removed" /\ pc' = "purging"
          /\ WorkOf[current.release] = m
          /\ movie[m] = TitleOf[current.release]
          => movie'[m] = Wanted]_vars

=============================================================================
