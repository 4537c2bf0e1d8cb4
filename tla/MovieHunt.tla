------------------------------ MODULE MovieHunt ------------------------------
(***************************************************************************)
(* The hunt for watched movies, one call of run_movie_cycle per pass       *)
(* (monitor/runner.py): movies never sent are hunted, those whose download *)
(* failed are hunted again, PROPER/REPACK and better qualities replace what*)
(* was taken.  With the choice of a release (search/decision.py) and the   *)
(* schedule of the targeted searches (monitor/schedule.py).                *)
(*                                                                         *)
(* The movies are listed once, then each is worked on over several awaits, *)
(* while pages, people and Transmission go on: an action is what happens   *)
(* from one await to the next.                                             *)
(*                                                                         *)
(* A release stands for every torrent of its title, since the failures are *)
(* blacklisted by title.  A pass is shorter than a tick, so that `now`,    *)
(* read once a pass, is the age of everything seen from the present.       *)
(***************************************************************************)
EXTENDS Naturals, FiniteSets

CONSTANTS
    Movie,          \* watched or not, named by their TMDB id
    Release,        \* releases the profile accepts
    MovieOf,        \* the movie a release is matched to
    Tier,           \* its language, 1 the best
    Quality,        \* its quality as the parser reads it, 0 the best
    Detected,       \* the same as detect_quality reads it, which knows fewer names of it
    Repack,         \* pairs <<r, s>>: r is a PROPER/REPACK of s
    Recognised,     \* releases whose torrent bears a name that matches the movie
    Ranked,         \* whether the profile lists its qualities
    Window,         \* regrab_hours, in ticks
    RepackWindow,   \* REPACK_WINDOW
    NewMovie, ShortInterval, LongInterval,  \* movie_interval
    (* Bounds *)
    Calls,          \* the feeds and the settings a pass may be given
    HandReleases,   \* releases a person may send
    MaxEdits,       \* things people do, on the pages or in Jellyfin
    Horizon,        \* the age from which everything is just as old
    None

Age == 0 .. Horizon
(* A watched movie: what was grabbed for it (None: wanted) and since when. *)
WantedMovie == [release: Release \cup {None}, since: Age, added: Age]
Mark == [age: Age, sig: Release \cup {None}]
(* The arguments of one call, with what the feed and the settings were.    *)
Call == [rss: BOOLEAN, feed: SUBSET Release, fallback: BOOLEAN, force: BOOLEAN,
         jellyfin: BOOLEAN, upgrades: BOOLEAN]

ASSUME MovieHuntAssumption ==
    /\ MovieOf \in [Release -> Movie]
    /\ Tier \in [Release -> Nat] /\ Quality \in [Release -> Nat]
    /\ Detected \in [Release -> Nat]
    /\ Repack \subseteq Release \X Release
    /\ \A p \in Repack : /\ MovieOf[p[1]] = MovieOf[p[2]] /\ Quality[p[1]] = Quality[p[2]]
                         /\ \A s \in Release : <<p[2], s>> \notin Repack
    /\ Recognised \subseteq Release /\ HandReleases \subseteq Release
    /\ Calls \subseteq Call
    /\ \A c \in Calls : c.feed # {} \/ c.fallback => c.rss
    /\ Ranked \in BOOLEAN
    /\ Horizon \in Nat /\ MaxEdits \in Nat
    /\ {NewMovie, LongInterval, ShortInterval} \subseteq 1 .. Horizon
    /\ Window \in Nat /\ RepackWindow \in Nat
    /\ Window < Horizon /\ RepackWindow < Horizon
    /\ None \notin Movie \cup Release \cup WantedMovie \cup Mark \cup Call

VARIABLES
    library,    \* MovieLibrary: the entry of each movie, or None
    torrents,   \* the releases in Transmission
    jellyfin,   \* the movies Jellyfin holds
    blacklist,  \* Blacklist: the titles
    searched,   \* SearchSchedule: the last targeted search of each movie, or None
    hand,       \* the release a person is sending, or None
    pc,         \* where the pass stands
    call,       \* the arguments of the pass, or None
    snapshot,   \* library.list(), read once
    todo,       \* the movies still to look at
    owned,      \* what jellyfin.owned() answered
    listed,     \* whether Transmission was listed: "no", "yes" or "failed"
    listing,    \* torrent_names: the releases listed
    current,    \* the movie looked at, or None
    mode,       \* why it is searched: "hunt", "upgrade" or "repack"
    pick,       \* the release chosen for it, or None
    removed,    \* movies taken off the library since the snapshot
    edits,      \* things people did so far
    (* What the properties need to remember *)
    stayed,     \* torrents in Transmission ever since the pass began
    hunted,     \* age of the last hunt of each movie that was recorded, or None
    replaced    \* releases replaced since each movie was last hunted or sent by hand

stores == <<library, blacklist, searched>>
names == <<listed, listing>>
world == <<torrents, jellyfin>>
pass == <<pc, call, snapshot, todo, owned, names, current, mode, pick>>
ghosts == <<stayed, hunted, replaced>>
vars == <<stores, world, hand, pass, removed, edits, ghosts>>

NewEntry == [release |-> None, since |-> 0, added |-> 0]

PassOver ==
    /\ pc' = "idle" /\ call' = None
    /\ snapshot' = [m \in Movie |-> None] /\ todo' = {} /\ owned' = {}
    /\ listed' = "no" /\ listing' = {} /\ current' = None /\ mode' = None /\ pick' = None

Init ==
    /\ library \in [Movie -> {NewEntry, None}]
    /\ torrents = {} /\ jellyfin = {} /\ blacklist = {}
    /\ searched = [m \in Movie |-> None]
    /\ hand = None
    /\ pc = "idle" /\ call = None
    /\ snapshot = [m \in Movie |-> None] /\ todo = {} /\ owned = {}
    /\ listed = "no" /\ listing = {} /\ current = None /\ mode = None /\ pick = None
    /\ removed = {} /\ edits = 0
    /\ stayed = {}
    /\ hunted = [m \in Movie |-> None]
    /\ replaced = [m \in Movie |-> {}]

Watched(m) == library[m] # None

(***************************************************************************)
(* The choice of a release.                                                *)
(***************************************************************************)

Acceptable(m, results, banned) == {r \in results : MovieOf[r] = m /\ r \notin banned}

(* Mutant: a quality that is not worse is an upgrade.                      *)
BugNotWorse(r, previous) == Ranked => Quality[r] <= Detected[previous]

(* current_quality only filters with a list of qualities. The candidate's  *)
(* quality is the parser's, that of the release it replaces is not.        *)
Better(r, previous) == Ranked => Quality[r] < Detected[previous]

(* Language first, then quality; seeders and size decide ties.             *)
Preferred(r, s) == Tier[r] < Tier[s] \/ (Tier[r] = Tier[s] /\ Quality[r] <= Quality[s])
Best(candidates) == {r \in candidates : \A s \in candidates : Preferred(r, s)}

(* What the pass may choose for m among `results`, hunting or upgrading.   *)
Choices(m, why, results, banned) ==
    Best({r \in Acceptable(m, results, banned) :
            why = "upgrade" => Better(r, snapshot[m].release)})

(* _movie_repack: a repack in the feed of what was grabbed lately.         *)
Repacks(m) ==
    {r \in Acceptable(m, call.feed, blacklist) :
        <<r, snapshot[m].release>> \in Repack /\ snapshot[m].since <= RepackWindow}

(***************************************************************************)
(* Why a movie is looked for.                                              *)
(***************************************************************************)

Grabbed(m) == snapshot[m].release # None

(* Mutant: only the movies never sent (MovieLibrary.wanted).               *)
BugOnlyWanted(m) == ~Grabbed(m)

(* _movie_needs_grab.                                                      *)
NeedsGrab(m) ==
    \/ ~Grabbed(m)
    \/ call.jellyfin /\ m \notin owned /\ snapshot[m].since > Window

MustList(m) == NeedsGrab(m) /\ Grabbed(m)

(* Mutant: Transmission that did not answer is an empty one.               *)
BugFailedIsEmpty(m) ==
    \A r \in listing \cap Recognised : MovieOf[r] # m

KnownAbsent(m) ==
    listed # "failed" /\ \A r \in listing \cap Recognised : MovieOf[r] # m

Needs(m) == NeedsGrab(m) /\ (Grabbed(m) => KnownAbsent(m))
WantsUpgrade(m) == ~Needs(m) /\ call.upgrades /\ Grabbed(m)
WantsRepack(m) == ~Needs(m) /\ Grabbed(m) /\ Repacks(m) # {}

Interval(m) == IF snapshot[m].added < NewMovie THEN ShortInterval ELSE LongInterval

(* _targeted_due: without a feed every movie is searched at each pass.     *)
Due(m) ==
    \/ call.force \/ ~call.rss
    \/ searched[m] = None \/ searched[m].sig # snapshot[m].release
    \/ searched[m].age >= Interval(m)

(***************************************************************************)
(* A pass.                                                                 *)
(***************************************************************************)

PassStarts ==
    /\ pc = "idle"
    /\ call' \in Calls
    /\ pc' = "owned"
    /\ stayed' = torrents
    /\ UNCHANGED <<stores, world, hand, snapshot, todo, owned, names, current, mode, pick,
                   removed, edits, hunted, replaced>>

(* Mutant: the movies taken off the library are looked at too.             *)
BugToLookAt == Movie

ToLookAt == {m \in Movie : Watched(m)}

(* The library is listed when Jellyfin has answered.                       *)
MoviesListed(answer) ==
    /\ pc = "owned"
    /\ owned' = answer
    /\ snapshot' = library
    /\ todo' = ToLookAt
    /\ removed' = {}
    /\ pc' = "next"
    /\ UNCHANGED <<stores, world, hand, call, names, current, mode, pick, edits, ghosts>>

OwnedAnswered == MoviesListed(IF call.jellyfin THEN jellyfin ELSE {})
(* JellyfinClient swallows its failures: a failing Jellyfin is an empty one. *)
OwnedFails == MoviesListed({})

(* The movie of the loop: the one at hand, else any of those left.         *)
Turn(m) == pc = "next" /\ m \in todo /\ current \in {None, m}

(* Transmission is listed once a pass, when a grabbed movie may have failed. *)
ListingAsked(m) ==
    /\ Turn(m) /\ MustList(m) /\ listed = "no"
    /\ pc' = "listing" /\ current' = m
    /\ UNCHANGED <<stores, world, hand, call, snapshot, todo, owned, names, mode, pick,
                   removed, edits, ghosts>>

Listed(how, answer) ==
    /\ pc = "listing"
    /\ listed' = how /\ listing' = answer
    /\ pc' = "next"
    /\ UNCHANGED <<stores, world, hand, call, snapshot, todo, owned, current, mode, pick,
                   removed, edits, ghosts>>

ListingAnswered == Listed("yes", torrents)
ListingFails == Listed("failed", {})

(* Whether the movie can be judged without a further await.                *)
Judged(m) == Turn(m) /\ (MustList(m) => listed # "no")

(* On to the next movie; what was listed of this one is not read again.     *)
Leaves(m) ==
    /\ todo' = todo \ {m}
    /\ snapshot' = [snapshot EXCEPT ![m] = None]
    /\ current' = None /\ mode' = None /\ pick' = None
    /\ pc' = "next"

Skip(m) ==
    /\ Judged(m)
    /\ ~Needs(m) /\ ~WantsUpgrade(m) /\ ~WantsRepack(m)
    /\ Leaves(m)
    /\ UNCHANGED <<stores, world, hand, call, owned, names, removed, edits, ghosts>>

TakeRepack(m) ==
    /\ Judged(m) /\ WantsRepack(m)
    /\ \E r \in Repacks(m) : pick' = r
    /\ mode' = "repack" /\ current' = m
    /\ pc' = "adding"
    /\ UNCHANGED <<stores, world, hand, call, snapshot, todo, owned, names, removed, edits, ghosts>>

(* The best of what was found is added, or nothing is.                     *)
Decide(m, why, results, banned) ==
    IF Choices(m, why, results, banned) = {}
    THEN Leaves(m)
    ELSE /\ \E r \in Choices(m, why, results, banned) : pick' = r
         /\ mode' = why /\ current' = m
         /\ pc' = "adding"
         /\ UNCHANGED <<todo, snapshot>>

(* A hunt for a movie grabbed before: that grab has failed, and is         *)
(* blacklisted.  The candidates come from the trackers when a targeted     *)
(* search is due, else from the feed, with the trackers that have none.    *)
Search(m) ==
    LET why == IF Needs(m) THEN "hunt" ELSE "upgrade"
        banned == IF Needs(m) /\ Grabbed(m) THEN blacklist \cup {snapshot[m].release}
                                            ELSE blacklist
    IN /\ Judged(m)
       /\ Needs(m) \/ (WantsUpgrade(m) /\ ~WantsRepack(m))
       /\ blacklist' = banned
       /\ IF Due(m) \/ call.fallback
          THEN /\ pc' = IF Due(m) THEN "searching" ELSE "topping up"
               /\ current' = m /\ mode' = why
               /\ UNCHANGED <<todo, snapshot, pick>>
          ELSE Decide(m, why, call.feed, banned)
       /\ UNCHANGED <<library, searched, world, hand, call, owned, names, removed, edits, ghosts>>

(* A targeted search, marked unless every tracker is paused. The mark of a *)
(* movie removed meanwhile fits no later signature (added_at is in it).    *)
SearchAnswered(results, reached) ==
    /\ pc = "searching"
    /\ searched' = IF ~reached THEN searched
                   ELSE [searched EXCEPT ![current] =
                           IF current \in removed THEN None
                           ELSE [age |-> 0, sig |-> snapshot[current].release]]
    /\ Decide(current, mode, results, blacklist)
    /\ UNCHANGED <<library, blacklist, world, hand, call, owned, names, removed, edits, ghosts>>

(* Trackers without a feed complete it.                                    *)
FallbackAnswered(results) ==
    /\ pc = "topping up"
    /\ Decide(current, mode, call.feed \cup results, blacklist)
    /\ UNCHANGED <<stores, world, hand, call, owned, names, removed, edits, ghosts>>

MovieAdds ==
    /\ pc = "adding"
    /\ torrents' = torrents \cup {pick}
    /\ pc' = "recording"
    /\ UNCHANGED <<stores, jellyfin, hand, call, snapshot, todo, owned, names, current, mode,
                   pick, removed, edits, ghosts>>

(* Refused, or added with an answer that never came.                       *)
MovieAddFails ==
    /\ pc = "adding"
    /\ torrents' \in {torrents, torrents \cup {pick}}
    /\ Leaves(current)
    /\ UNCHANGED <<stores, jellyfin, hand, call, owned, names, removed, edits, ghosts>>

(* Mutant: grabbed_at is written the first time only.                      *)
BugKeepsDate(m, r) ==
    [library EXCEPT ![m] = IF @ = None THEN None
                           ELSE IF @.release = None THEN [@ EXCEPT !.release = r, !.since = 0]
                           ELSE [@ EXCEPT !.release = r]]

MarkGrabbed(m, r) ==
    [library EXCEPT ![m] = IF @ = None THEN None ELSE [@ EXCEPT !.release = r, !.since = 0]]

(* Written in the library, then told to the channels.                      *)
MovieRecords ==
    /\ pc = "recording"
    /\ library' = MarkGrabbed(current, pick)
    /\ pc' = "telling"
    /\ hunted' = IF mode = "hunt" /\ Watched(current)
                 THEN [hunted EXCEPT ![current] = 0] ELSE hunted
    /\ replaced' = [replaced EXCEPT ![current] =
                      IF mode = "hunt" \/ ~Watched(current) THEN {}
                      ELSE @ \cup {snapshot[current].release}]
    /\ UNCHANGED <<blacklist, searched, world, hand, call, snapshot, todo, owned, names, current,
                   mode, pick, removed, edits, stayed>>

Told ==
    /\ pc = "telling"
    /\ Leaves(current)
    /\ UNCHANGED <<stores, world, hand, call, owned, names, removed, edits, ghosts>>

PassEnds ==
    /\ pc = "next" /\ todo = {}
    /\ PassOver
    /\ removed' = {}
    /\ stayed' = {}
    /\ UNCHANGED <<stores, world, hand, edits, hunted, replaced>>

(***************************************************************************)
(* Everything else acts while the pass awaits something; what happens to   *)
(* Transmission or Jellyfin between two awaits is not seen before the next. *)
(***************************************************************************)

Yielded == pc # "next"
Edits == edits < MaxEdits /\ edits' = edits + 1

TorrentGoes(r) ==
    /\ Yielded /\ r \in torrents
    /\ torrents' = torrents \ {r}
    /\ stayed' = stayed \ {r}
    /\ UNCHANGED <<stores, jellyfin, hand, pass, removed, edits, hunted, replaced>>

JellyfinGains(m) ==
    /\ Yielded /\ m \notin jellyfin /\ \E r \in torrents : MovieOf[r] = m
    /\ jellyfin' = jellyfin \cup {m}
    /\ UNCHANGED <<stores, torrents, hand, pass, removed, edits, ghosts>>

JellyfinLoses(m) ==
    /\ Yielded /\ Edits /\ m \in jellyfin
    /\ jellyfin' = jellyfin \ {m}
    /\ UNCHANGED <<stores, torrents, hand, pass, removed, ghosts>>

(* send_release: added, then marked when it belonged to a watched movie.    *)
HandAdds(r) ==
    /\ Yielded /\ Edits /\ hand = None
    /\ hand' = IF Watched(MovieOf[r]) THEN r ELSE None
    /\ torrents' = torrents \cup {r}
    /\ UNCHANGED <<stores, jellyfin, pass, removed, ghosts>>

HandRecords ==
    /\ Yielded /\ hand # None
    /\ library' = MarkGrabbed(MovieOf[hand], hand)
    /\ hand' = None
    /\ replaced' = [replaced EXCEPT ![MovieOf[hand]] = {}]
    /\ UNCHANGED <<blacklist, searched, world, pass, removed, edits, stayed, hunted>>

Forgotten(m) == hunted' = [hunted EXCEPT ![m] = None] /\ replaced' = [replaced EXCEPT ![m] = {}]

(* A movie added again has another added_at: its last search does not count. *)
Watch(m) ==
    /\ Yielded /\ Edits /\ ~Watched(m)
    /\ library' = [library EXCEPT ![m] = NewEntry]
    /\ searched' = [searched EXCEPT ![m] = None]
    /\ UNCHANGED <<blacklist, world, hand, pass, removed, ghosts>>

Unwatch(m) ==
    /\ Yielded /\ Edits /\ Watched(m)
    /\ library' = [library EXCEPT ![m] = None]
    /\ removed' = IF pc = "idle" THEN {} ELSE removed \cup {m}
    /\ Forgotten(m)
    /\ UNCHANGED <<blacklist, searched, world, hand, pass, stayed>>

(* "Regrab": the movie is wanted again.                                    *)
Regrab(m) ==
    /\ Yielded /\ Edits /\ Watched(m)
    /\ library' = [library EXCEPT ![m].release = None, ![m].since = 0]
    /\ Forgotten(m)
    /\ UNCHANGED <<blacklist, searched, world, hand, pass, removed, stayed>>

Pardon(r) ==
    /\ Yielded /\ Edits /\ r \in blacklist
    /\ blacklist' = blacklist \ {r}
    /\ UNCHANGED <<library, searched, world, hand, pass, removed, ghosts>>

(* TorrSearch stops anywhere; its stores are on disk.                      *)
Restart ==
    /\ pc # "idle"
    /\ hand' = None
    /\ PassOver
    /\ removed' = {}
    /\ stayed' = {}
    /\ UNCHANGED <<stores, world, edits, hunted, replaced>>

Older(age) == IF age < Horizon THEN age + 1 ELSE age

Tick ==
    /\ pc = "idle"
    /\ library' = [m \in Movie |->
         IF library[m] = None THEN None
         ELSE [library[m] EXCEPT !.added = Older(@),
                                 !.since = IF library[m].release = None THEN 0 ELSE Older(@)]]
    /\ searched' = [m \in Movie |-> IF searched[m] = None THEN None
                                    ELSE [searched[m] EXCEPT !.age = Older(@)]]
    /\ hunted' = [m \in Movie |-> IF hunted[m] = None THEN None ELSE Older(hunted[m])]
    /\ UNCHANGED <<blacklist, world, hand, pass, removed, edits, stayed, replaced>>

Step ==
    \/ PassStarts \/ OwnedAnswered \/ OwnedFails
    \/ \E m \in Movie : ListingAsked(m) \/ Skip(m) \/ TakeRepack(m) \/ Search(m)
    \/ ListingAnswered \/ ListingFails
    \/ \E results \in SUBSET Release :
         \/ \E reached \in BOOLEAN : SearchAnswered(results, reached)
         \/ FallbackAnswered(results)
    \/ MovieAdds \/ MovieAddFails \/ MovieRecords \/ Told \/ PassEnds

Environment ==
    \/ \E r \in Release : TorrentGoes(r) \/ Pardon(r)
    \/ \E r \in HandReleases : HandAdds(r)
    \/ \E m \in Movie : JellyfinGains(m) \/ JellyfinLoses(m) \/ Watch(m) \/ Unwatch(m) \/ Regrab(m)
    \/ HandRecords \/ Restart \/ Tick

Next == Step \/ Environment
Spec == Init /\ [][Next]_vars

(* The loop runs a pass after another, and time passes between two. The    *)
(* outside is not broken for ever: now and then a search finds what there  *)
(* is and an add succeeds; TorrSearch is not restarted without end, nor    *)
(* does Transmission fail to be listed without end (a listing that failed  *)
(* at each pass where a search is due, and only then, would have the movie *)
(* searched for an upgrade there, and put off until the next interval).    *)
Fairness ==
    /\ WF_vars(Step) /\ SF_vars(Tick)
    /\ \A m \in Movie : /\ SF_vars(current = m /\ SearchAnswered(Release, TRUE))
                        /\ SF_vars(current = m /\ MovieAdds)
    /\ <>[][~ListingFails /\ ~Restart]_vars

FairSpec == Spec /\ Fairness

(***************************************************************************)
(* Properties.                                                             *)
(***************************************************************************)

StoresTypeOK ==
    /\ library \in [Movie -> WantedMovie \cup {None}]
    /\ blacklist \subseteq Release
    /\ searched \in [Movie -> Mark \cup {None}]

WorldTypeOK ==
    /\ torrents \subseteq Release /\ jellyfin \subseteq Movie
    /\ hand \in HandReleases \cup {None}
    /\ removed \subseteq Movie /\ edits \in 0 .. MaxEdits

PassTypeOK ==
    /\ call \in Call \cup {None} /\ (call = None <=> pc = "idle")
    /\ snapshot \in [Movie -> WantedMovie \cup {None}]
    /\ todo \subseteq Movie /\ \A m \in todo : snapshot[m] # None
    /\ owned \subseteq Movie
    /\ listed \in {"no", "yes", "failed"} /\ listing \subseteq Release

TurnTypeOK ==
    /\ pc \in {"idle", "owned", "next", "listing", "searching", "topping up", "adding",
               "recording", "telling"}
    /\ current \in Movie \cup {None}
    /\ pc \in {"idle", "owned"} => current = None /\ todo = {}
    /\ pc \notin {"idle", "owned", "next"} => current \in todo
    /\ mode \in {"hunt", "upgrade", "repack", None} /\ pick \in Release \cup {None}
    /\ pc \in {"searching", "topping up"} => mode \in {"hunt", "upgrade"}
    /\ pc \in {"adding", "recording"} =>
         /\ mode \in {"hunt", "upgrade", "repack"}
         /\ pick # None /\ MovieOf[pick] = current

GhostTypeOK ==
    /\ stayed \subseteq torrents
    /\ hunted \in [Movie -> Age \cup {None}]
    /\ replaced \in [Movie -> SUBSET Release]

(* Every variable is of its type, and the pass holds a movie, a reason and *)
(* a release only where it uses them.                                      *)
TypeOK == StoresTypeOK /\ WorldTypeOK /\ PassTypeOK /\ TurnTypeOK /\ GhostTypeOK

(* "Still in Transmission (downloading or done) => not failed, never       *)
(* re-download it": a movie is not sent again as failed while a torrent of *)
(* it has been in Transmission since the pass began, although the listing  *)
(* is read once for all the movies and may fail.                           *)
RehuntOnlyAbsent ==
    pc = "adding" /\ mode = "hunt" /\ Grabbed(current) =>
        \A r \in stayed \cap Recognised : MovieOf[r] # current

(* Two hunts of a movie that were recorded are more than the cooldown      *)
(* apart, unless it was put back into active search or added again:        *)
(* upgrades, repacks and what people send in between, or during the pass,  *)
(* do not shorten it. (A hunt whose add was done and not answered leaves   *)
(* no record, hence no cooldown.)                                          *)
HuntsSpaced ==
    pc = "adding" /\ mode = "hunt" /\ hunted[current] # None => hunted[current] > Window

(* "Pas de boucle": an automatic replacement never brings back a release   *)
(* that automatic replacements took away since the movie was last hunted   *)
(* or sent by hand, nor the one that is there.                             *)
NoPingPong ==
    pc = "adding" /\ mode \in {"upgrade", "repack"} =>
        pick \notin replaced[current] \cup {snapshot[current].release}

(* "Upgrade: strictly better quality" than that of the release grabbed.    *)
UpgradesAreBetter ==
    pc = "adding" /\ mode = "upgrade" =>
        Quality[pick] < Quality[snapshot[current].release]

(* A watched movie with no torrent, not in Jellyfin, while a release that  *)
(* never failed exists.                                                    *)
Fillable(m) ==
    /\ Watched(m) /\ m \notin jellyfin
    /\ \A r \in torrents : MovieOf[r] # m
    /\ \E r \in Release \ blacklist : MovieOf[r] = m

(* A download that failed does not leave a silent gap while Jellyfin is    *)
(* configured: whatever was sent and lost, the movie is sent again as long *)
(* as a release is left to try.                                            *)
GapsAreFilled == \A m \in Movie : Fillable(m) ~> ~Fillable(m)

(* "When the item changes (regrab, ...), it is due again at once": the     *)
(* mark of the last search does not fit a movie put back into search.      *)
RegrabIsDue ==
    [][\A m \in Movie :
         Regrab(m) /\ library[m].release # None =>
            searched'[m] = None \/ searched'[m].sig # library'[m].release]_vars
=============================================================================
