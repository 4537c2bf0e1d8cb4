# TorrSearch: specifications, model checking and proofs

TLA+ modules of the parts of TorrSearch (Python, FastAPI, one asyncio loop) whose
correctness depends on the order in which things happen, TLC configurations that
check them on small instances, and TLAPS proofs of their main safety properties.
File names below are relative to `src/torsearch/`.

TorrSearch watches movies and series, searches trackers (Torznab) for releases,
sends the best one to Transmission, tells Jellyfin to scan when a torrent has
finished, purges torrents that died, and lets guests ask for works. Everything runs
in one process: web handlers, the tools of the Claude connector and one background
task (the surveillance) are coroutines of one event loop. So a handler is atomic
**between two awaits**, and every hazard of the program sits at an await: a call to
Transmission, to a tracker, to Jellyfin, to TMDB or to a notification channel.
The modules follow that rule: one action is what happens from one await to the next.
State that must survive is written, one document at a time, to SQLite
(`db/database.py`), without an await.

## 1. Inventory

| Part | Code | State | Operations | What makes it correct |
|---|---|---|---|---|
| Purge of dead torrents | `monitor/stalled.py`, `monitor/grabs.py` | registry of grabs (who sent which torrent, when), the breaker | one pass per cycle: list, judge, remove, write down | deletes only what the surveillance sent and what is past the grace period; no purge after a mass die-off; a failed removal frees nothing |
| Sending by hand | `library/sending.py`, `library/linking.py` | none of its own | plan, add, record | what a person picks stays theirs |
| Blacklist | `library/blacklist.py` | keys by infohash and by title | add, look up, remove | a purged release is not taken again |
| Libraries | `library/movies.py`, `library/series.py`, pages | watched works, grabbed title or episode keys | add, remove, mark, unmark, toggles | a work is marked exactly while a torrent was sent for it |
| History | `monitor/history.py` | `found`/`grabbed` records, capped | append, delete, seed the registry | the hunts do not send twice what they sent once |
| Hunts | `monitor/runner.py` (`run_cycle`, `run_movie_cycle`, `run_series_cycle`), `monitor/schedule.py` | schedule of checks | select, add, record, regrab, repack | no release twice, nothing blacklisted, everything due is checked |
| Surveillance loop | `monitor/runner.py` (`MonitorRunner`) | wake-up event, pending force, finished torrents seen | wake, run soon, pass, stop | no ask for a check is lost; one pass at a time |
| Requests | `requests/store.py`, `web/requests_routes.py`, `run_request_availability` | requests with a status | create, approve, reject, become available | one pending request per work; one message per approval |
| Jellyfin client | `jellyfin/client.py` | catalogue cached 30 s | catalogue, refresh | a failing Jellyfin delays, never decides |
| Tracker throttle and search | `indexers/throttle.py`, `search/service.py` | a lock, last request, pause, per tracker | search, pause on 429, cancel | one request at a time, spaced, none while paused, no lock kept |
| Transmission client | `transmission/client.py` | session id | list, add, remove, pause | outside: Transmission keeps the torrents |
| Application and settings | `context.py`, `main.py`, `config.py`, `settings/` | the configuration, the clients | save a section, start | a save replaces clients and keeps throttles |
| Claude connector | `claude/` | OAuth clients, codes, tokens; hourly limit | register, authorize, exchange, refresh, revoke, tools | an approval opens one access, which ends with its revocation and with its owner's rank or password |
| Users and sessions | `users/`, `web/auth.py`, `web/authz.py` | users, login attempts | create, remove, change role, log in | an admin is always left |
| Cleanup page | `library/cleanup.py`, `web/cleanup_routes.py` | none | list duplicates, remove copies | nothing its listing had complete is lost, and nothing else is deleted |
| Browser side | `web/static/app.js`, htmx attributes of the templates | tabs, panels, chips of a page | clicks, polls, swaps, navigation | what is highlighted is what is shown; a click on a chip is heard |
| Result cache | `search/result_cache.py` | ids of results shown, capped | put, get | an id shown means what was shown |
| Decision, parser, relevance | `search/`, `parser/` | none | pure functions | the best acceptable release |
| Metadata, calendar, notifications, logs, health, rendering | the rest | caches | reads, rendering | output only |

How they interact: pages and Claude call `send_release`, edit the libraries, the
requests and the settings, and **wake** the loop; the loop runs one pass after another
(purge, feed and hunts, then `run_jellyfin_refresh` and `run_request_availability`)
under a lock; the purge and the hunts share Transmission, the registry, the libraries,
the history and the blacklist with every page; all searches share one throttle per tracker.

The hard behaviours, each at its line, are the `hazards` of `PROJECT.json`: listings
that are stale when used, two senders of one release, removals that fail or whose
answer is lost, asks that arrive during a pass, a 429 while others wait, cancellations,
decisions taken while a check awaits, and restarts between any two of these.

## 2. How the project is built

| Module | What it is of | Status |
|---|---|---|
| `Purge` | purge, registry, seeding, blacklist, libraries, hand sends, Transmission | checked, proved |
| `Requests` | requests, availability check, catalogue cache | checked, proved |
| `RunnerLoop` over `Checks` | the surveillance loop and its abstract specification | checked, refinement proved |
| `TrackerThrottle` | lock, spacing and pause of a tracker, one search through them | checked, proved |
| `MovieHunt` | `run_movie_cycle`, the choice of a release, upgrades, repacks, schedule | checked, proved |
| `SeriesHunt` | `run_series_cycle`, the choice of releases for missing episodes, replacements, toggles of the series page | checked, proved |
| `Access` over `Accounts` | OAuth server of the Claude connector, and the accounts it depends on | checked, proved |
| `Cleanup` | duplicates, what is proposed, what is accepted, removals | checked, proved |
| `Front` | `web/static/app.js` with htmx | checked, proved |

Each has an `MC...` module with the values of its constants for TLC and one or two `.cfg` files; the proofs are in `...Proofs`
modules that extend it. `SchedulingProofs` is about both `RunnerLoop` and `TrackerThrottle`, which share no variable (hence the names `LoopInit`, `LoopNext`, `LoopSpec`
in `RunnerLoop`). A part of the program that two modules need is in each of them as far as that one needs it: `Purge` has
the hunts as *any* release the blacklist allows, `MovieHunt` and `SeriesHunt` have the purge as the removal it ends in.
`Access` extends `Accounts`: an account may change at any step of the server.

## 3. The modules and the code

### Purge (`MCPurge`, `PurgeProofs`)

| In the module | In the code |
|---|---|
| `torrent`, `nextId` | Transmission: at most one torrent per infohash, numbered as added |
| `registry` | `GrabRegistry`: origin and date of each infohash |
| `badHash`, `badTitle` | the two kinds of keys of `Blacklist` |
| `movie`, `series`, `history` | the libraries and the `grabbed` records |
| `pc`, `todo`, `current`, `pick`, `tripped` | where the surveillance coroutine stands, its listing or candidates, the torrent whose removal was confirmed, the release being added, `PurgeBreaker` |
| `sender` | the `send_release` handlers under way |
| `ListingAnswered` ... `PurgeEnds` | `handle_stalled_torrents`, cut at its awaits (listing, each removal) |
| `SurveillanceSelects`, `SavedSearchSelects`, `SurveillanceAdds`, `SurveillanceRecords` | the hunts as far as they reach Transmission: **any** release of a watched work that is not blacklisted, or any release a saved search matches, may be chosen |
| `SenderPlans`, `SenderAdds`, `SenderRecords` | `send_release` and `plan_manual_grab` |
| `Restart` | `build_app`: every coroutine is lost, the registry is seeded from the history if it is empty |

A call to Transmission is one action for what Transmission does; what the caller does with
the answer is another. A call that raises may have had its effect (`... \/ UNCHANGED client`).
A torrent's name (`NameOf`) and the tracker's title (`TitleOf`) are different functions: several
properties turn on that. Health is what `_purge_reason` reads: percentage, status, receiving, error.

### Requests (`MCRequests`, `RequestsProofs`)

Requests have a media and a status; ids are used in order of creation. `check` is where
`run_request_availability` stands; `approved` is the snapshot it took before its first await,
`owned` the catalogue it was answered, `telling` the request whose notification it awaits.
The 30-second cache belongs to a client object: saving the settings replaces the client, and a check
that awaits the old one (`"orphaned"`) does not fill the new cache.

### RunnerLoop over Checks (`MCRunnerLoop`, `SchedulingProofs`)

`Checks` is the promise of `wake` and `run_soon`: an ask is owed until a pass that starts after it takes
it, a forced ask is taken by a forced pass, passes run one at a time, and only the stop of the process
forgets what was owed (its `stops` is mapped to `restarts`, so that losing an ask is not mistaken for a stop).
`RunnerLoop` has the event, the pending force and the position of the loop; `owedNow` and `passNow` are the
refinement mapping. It also has the set of finished torrents `run_jellyfin_refresh` has already told of.

### TrackerThrottle (`MCTrackerThrottle`, `SchedulingProofs`)

One tracker; the lock with its queue, `_last_done`, `_blocked_until` and the searches that go through
`_search_one`: check the pause, take the lock, sleep what is left of the interval, check the pause again, ask.
Times are kept as what has elapsed or is left, so that the state space is finite with no bound on the clock. `TypeOK` says what `queue` is for:
it holds the searches that wait, each once. A search that is cancelled there must leave it and leave the others in it.

### MovieHunt (`MCMovieHunt`, `MovieHuntProofs`)

| In the module | In the code |
|---|---|
| `library`, `blacklist`, `searched` | `MovieLibrary`, `Blacklist` (titles), `SearchSchedule` with its signatures; dates are kept as ages up to `Horizon` |
| `torrents`, `jellyfin` | what Transmission and Jellyfin hold, which changes at any await |
| `call` | the arguments of `run_movie_cycle` and the settings of the pass: feed, `fallback`, `force`, Jellyfin configured, upgrades |
| `snapshot`, `todo`, `owned`, `listed`, `listing` | the list the loop runs over, and what was answered once for the pass |
| `current`, `mode`, `pick` | the movie of the loop, why it is looked for, the release chosen |
| `NeedsGrab`, `KnownAbsent`, `WantsRepack`, `WantsUpgrade`, `Due` | `_movie_needs_grab`, the listing test, `_movie_repack`, `upgrade`, `_targeted_due` |
| `Choices` (`Acceptable`, `Better`, `Best`) | `select_best_movie_release`: language, then quality; ties are any of them, since seeders and sizes change |
| `PassStarts` ... `PassEnds` | `run_movie_cycle` and `_grab_movie`, cut at their awaits (owned, listing, search, fallback search, add, notification) |
| `HandAdds`, `HandRecords`, `Watch`, `Unwatch`, `Regrab`, `Pardon` | the pages, between two awaits of the pass |

A release stands for its title: the failures are blacklisted by title only. What the profile rejects (words, sizes, languages) is
not a `Release`. `Quality` is what `parse_release` says of a title and `Detected` what `detect_quality` says: the code compares
one with the other. A movie removed and added again has another `added_at`, which the signature contains; the module drops
its mark instead. A pass is shorter than a tick of the clock. The catalogue of Jellyfin is read as it is (its 30-second cache is in
`Requests`). `Purge` has the same hunts from the other side, as any release the blacklist allows.

### SeriesHunt (`MCSeriesHunt`, `SeriesHuntProofs`)

| In the module | In the code |
|---|---|
| `marked` | `WantedSeries.grabbed`, `None` when the series is not watched; keys are episodes (`S01E02`) and seasons (`S01`) |
| `recorded`, `blacklist` | the age of the latest `grabbed` record of each release in `MonitorHistory`; `Blacklist` by title |
| `torrents`, `Recognised` | what Transmission holds, and the torrents whose name matches the series |
| `pc`, `call` | where the turn of the series stands in `run_series_cycle`; feed, Jellyfin configured, upgrades |
| `records`, `have`, `air`, `results` | what was read once: the history, `_series_have`, `air_dates`, `all_results` |
| `Recent`, `Marks`, `OnRecord` | `_history_episodes`, the legacy marks, `_series_have` without what is awaited |
| `Brings`, `Candidates`, `Worthwhile`, `Hunts` | `select_series_releases` and `_drop_redundant` |
| `Previous`, `Replaces`, `Eligible`, `Swaps` | `_series_previous`, `replacement_reason`, `select_series_replacements` |
| `todo`, `claimed`, `newly`, `pick`, `claim`, `mode` | the picks left, `claimed` of `_drop_redundant`, `newly`, the release being sent and its `covered`, the first or the second loop |
| `PassStarts` ... `TurnEnds` | `run_series_cycle` and `_grab_series_release`, cut at their awaits |
| `page`, `ToggleAsked`, `SeasonToggled`, `EpisodeToggled`, `SeasonUnknown`, `MarkAll`, `UnmarkAll`, `Unwatch` | `web/series_routes.py`: a toggle reads the marks, awaits the seasons of TMDB, writes |
| `Purged`, `HandAdds`, `HandRecords`, `HistoryCleared`, `Pardon`, `TorrentGoes` | the purge (before the hunts of a pass), a release sent by hand or by a saved search, the pages |

The choice is stated as a relation and not as the loop: language, then quality decide, then size per episode and seeders, which change
from one answer to the next and are left out. `Hunts` is every set of picks those may lead to: it covers all that can be covered,
only with candidates that bring something the strictly better ones do not, and none of them is redundant. `there`, `kept`, `sent` and
`hunted` exist for the properties. One series is modelled: the turns of a pass share only the history read at its start. The duration of a
pass is below a tick. The schedule of the targeted searches is `MovieHunt`'s and is left open here; the disk, Jellyfin and TMDB answer
anything of `Answers`; one toggle is under way at a time.

### Access over Accounts (`MCAccess`, `AccessProofs`)

| In the module | In the code |
|---|---|
| `role`, `hash` | `UserStore`: the accounts, with the hash of their password as a number no two share (it is salted) |
| `since`, `drawn` | the registered clients and `client_id_issued_at` |
| `pending`, `code`, `access`, `refresh` | the four kinds of documents, by their `expires_at` (0: none) |
| `asked`, `granted`, `pair` | what those documents say, which never changes: the client of a consent, who approved it with which fingerprint, whom a pair of tokens is for |
| `handler` | `/token` requests between `load_...` and `exchange_...` |
| `Registers`, `Authorizes`, `Approves`, `Denies`, `ExchangesCode`, `ExchangesRefresh`, `RevokesToken`, `RevokesClient`, `LookupsExpired` | the methods of `TorrSearchOAuthProvider`, each with the pruning and purging it does |
| `Add`, `Remove`, `SetRole`, `SetPassword` | the users card and a person's own password |

Scopes, URLs and PKCE belong to the MCP SDK. Its `/token` endpoint calls the provider twice; the module lets anything run between the two
calls, which is at least what the SDK allows. `revoke_token` is one action: the SDK looks the token up and revokes it without
awaiting anything else. Who sends a change of accounts is not tracked: the middleware read their role when the request arrived, and
they may have lost it since, so any change may come at any time.

### Cleanup (`MCCleanup`, `CleanupProofs`)

| In the module | In the code |
|---|---|
| `name`, `place`, `Within` | name and folder of each copy, and the paths of torrents such a folder is or lies in (cross-seeded episodes, or anything a person put there) |
| `id`, `nextId`, `ClientRestarts` | the numbers of Transmission, which it gives anew when it restarts |
| `stage`, `complete`, `error`, `data` | what Transmission says of a copy, and whether its files are whole |
| `Overlap`, `Cluster`, `Groups`, `Kept`, `Proposed` | `find_duplicates`, `_build_group`; copies are numbered from the best language, resolution and size, which makes the sort a comparison |
| `RemovalIsSafe` | `removal_is_safe` |
| `phase`, `job`, `targets`, `todo`, `seen` | the handlers `remove_duplicates` and `handle_errors`, which list, judge, and remove one copy per await, by the number in `seen`, their listing |
| `Removes`, `Bearing`, `Removed` | `transmission.remove(t.id, ...)`: whatever torrent bears that number when Transmission reads it, or none; with the files in the case of duplicates, those of every torrent that shares them |
| `Completes`, `ErrorChanges`, `Added`, `HandRemoves` | what goes on meanwhile |

Handlers, people, downloads and restarts of Transmission interleave freely, and Transmission may report missing files late or never. Two variables
are there for the properties. `stale` has the handlers whose listing is older than Transmission's process: their numbers may mean anything, and
`ContentKept` and `NoCollateral` are about the others. `counted` has what a listing had complete, except the copies of a group whose files something
shares without overlapping it (`Reliable`): `find_duplicates` groups by overlap and never sees such a pair. A torrent that is removed and added
again is another `Copy`. Stopping TorrSearch during a cleanup is the failure of the removals left.

### Front (`MCFront`, `FrontProofs`)

A browser tab: `page` and, for each page, what `app.js` and htmx change. Search: the filters of the `form`, the `chips` shown, the request
under way (`asked`) and the one that waits behind it (`queued`). Surveillance: the kinds of items rendered and `hidden`, the tabs `lit`, the answers
awaited. Settings: the `hash` of the URL, the panels `shown` and the tabs `selected`. An event handler is one action; answers, polls, swaps, navigation and reloads come in between. The requests of htmx 1.9.12 are
modelled from its attributes in the templates and are marked external.

## 4. What the runs check

| Run | Question | Bounds, and why they are enough |
|---|---|---|
| `purge_race` | Whatever users, Transmission and the surveillance do between the listing and the removal, does the purge touch only its own old torrents, book only what has gone, keep hand picks, and is a purged release never hunted again? | A release of a movie (infohash known, title different from the torrent's name) and one of a series (no infohash, same name): both ways to recognise a release. One sender, one tick for the grace period, tolerance 0, two torrents ever added (so a release can be removed and added again), one restart. Each hazard needs one release handled by two parties; the second release is the bystander. |
| `purge_live` | After a mass die-off, is nothing of it deleted before a clean listing; do dead grabs go in the end; does the breaker re-arm? | Two releases with `MaxPurges = 1`: two dead at once is a mass die-off, one of them recovering is the hazard. One restart, of TorrSearch or of Transmission (which renumbers ids). |
| `requests` | Is a work pending once; is an approval told once; does an approved request become available? | Three requests for two works (the third can repeat the first), two decisions (a decision reversed), one restart, one change of Jellyfin's content. |
| `loop` | Is any ask lost or downgraded; is it served; is every finished torrent told to Jellyfin? | Two torrents (one already told, one new), one restart, one change of settings; asks are unbounded. |
| `throttle` | One request at a time, spaced, none while paused, none waiting for ever? | Three searches: one inside, two in the queue. Intervals 1 and 3, pauses 0 and 2: shorter and longer than the interval. No other bound. |
| `movies` | Is nothing sent again while its torrent is there, and no recorded hunt repeated within the cooldown; does no replacement bring back what was replaced? | One movie; a release, its repack, and a better quality in a lesser language, which only an upgrade or a failure brings: every mode of the hunt, and chains of two replacements. Ages up to 2 with windows 0 and 1 and intervals 1 and 2: both sides of each comparison. One edit by hand, four kinds of pass (no RSS and no upgrades, a feed that brings nothing, a feed with replacements, a forced pass without Jellyfin); the movie is watched from the start or added later. The movies of a pass only share the listing, the blacklist and `now`; the theorems hold for any number of them. |
| `movies_live` | Does a download that failed leave a gap for ever? | Two releases that both fail in the end, the three kinds of pass that reach Jellyfin (without it, an absence is not known), ages up to 1. |
| `series` | Is no episode hunted within the cooldown, while a torrent or a mark stands for it, or twice in a pass? | A season of two episodes; a release of the first, a better one of the same, which replaces it, and the pack of the season: both kinds of keys, overlap, and a replacement. One release whose torrent bears an unrelated name. Jellyfin configured without feed, or a feed without Jellyfin. The disk, Jellyfin and TMDB each know nothing or both episodes; searches answer anything. Ages up to 2, windows 0 and 1. One thing done by people or the purge (`MaxEdits`), restarts and failures without bound. |
| `access` | Does an approval open one access at a time, never outlive its owner's rank and password or its revocation, and stay on the page that revokes it? Is an administrator left? | Two accounts, one password beyond the first, so that an account is added or a password changed and either account demoted or deleted (one deleted and created again is left to the theorem); two clients, of which one goes on to ask (`Asker`; the other is the stranger whose registration prunes), two consents, three pairs (a code's, and two rotations), two `/token` requests at once (`Handler`, interchangeable, hence the symmetry). `MAX_PENDING` and `MAX_IDLE_CLIENTS` are 1, so that both limits are met. Every lifetime passes within the horizon of 3. A `/token` request is read only while a pair is left to issue. |
| `cleanup` | Is what complete copies held still on the disk after each removal; do the files of other torrents stay; are proposals sound and final? | Three copies in five libraries (`MCLibraries`): two packs with an episode in the folder of one, one name twice, an episode of another season in a pack's folder, two episodes and a torrent of both, an episode twice and its pack. They may be complete or not; two of them may be in error (`Troubled`) or removed by hand (`Handled`), one may be added later (`Late`). Transmission restarts at any removal, any number of times, and numbers its torrents in another order (`Numbering`). Two removals with a bystander is the smallest case in which one removal can spoil what the other relied on. One handler, to which removals by hand are what another one does; the theorems hold for any number. |
| `front` | Does the page say what it shows, and is a click on a chip heard? | Two filters, three panels, two dropdowns and the one of the bar, every kind of item; no other bound. |

`access`, `cleanup`, `front` and `series` check safety only and assume no fairness. `CHECK_DEADLOCK` is left on everywhere: none of
these systems may stop. The type invariants of `Requests`, `RunnerLoop`, `Access`, `Cleanup` and `SeriesHunt` and `ToldWasAsked` of `RunnerLoop` are proved and not in a run. The bounds of the modules are the
constants named `Max...` that appear only in guards (`MaxClock`, `MaxId`, `MaxRestarts` in `Purge`;
`MaxRequests`, `MaxDecisions`, `MaxRestarts`, `MaxChanges` in `Requests`; `MaxRestarts`, `MaxToggles` in
`RunnerLoop`; `MaxEdits`, `Horizon` in `MovieHunt` and `SeriesHunt`; `MaxSalts`, `Horizon`, `Asker`, `Pair` in `Accounts` and `Access`; `Late`, `Troubled`, `Handled` in `Cleanup`) and, in `Purge`, the sets of what users touch (`SendReleases`, `HandReleases`, `SavedReleases`,
`PageWorks`, `PardonReleases`). `MaxPurges` is the code's `MAX_PURGES_PER_CYCLE`.

Every property of a passing run has a mutant: an operator `Bug...` next to the definition it replaces, that is
a plausible mistake in that code (the breaker forgets, a failed removal is booked, the asks are cleared
after the pass, a cancelled sleep keeps the lock, a rotation keeps the fingerprint it read before, a pack does not count as grabbed). TLC finds the property violated with it.

### Fairness

* `Purge`: weak fairness of each step of the coroutine (asyncio runs a task that can run, and calls are bounded
  by a timeout). Strong fairness of the listing, of the removal of each release and of the end of a
  cycle: Transmission may fail again and again but not always, and a cycle has finitely many releases to add.
  Nothing is assumed of people, of torrents or of the clock.
* `Requests`: weak fairness of the steps of the check and of the expiry of the cache; strong fairness of the answer of
  Jellyfin, which may fail but not every time.
* `RunnerLoop`: weak fairness of the loop; strong fairness of the end of the hunt and of the listing, which
  may raise but not every time. Nothing obliges Jellyfin's scan to succeed.
* `MovieHunt`: weak fairness of the pass; strong fairness of the clock, and for each movie of a search that finds what there is
  and of an add that succeeds. From some point on Transmission can be listed and TorrSearch is not restarted: a listing that
  failed exactly at the passes where a search is due would have the movie looked at for an upgrade there, and put off to the next
  interval, for ever. `GapsAreFilled` is for a configured Jellyfin: without it the code keeps a movie grabbed.
* `TrackerThrottle`: time passes, a free lock is handed on, sleeps and requests end. Nobody has to cancel.

### The run that ends in a violation

`movies_upgrade`: an upgrade is to be of a "strictly better quality" (`monitor/runner.py:478`). A candidate's quality is the
parser's, which takes `4KLight` for 2160p and `1080i` for 1080p; the quality of what is there is `detect_quality`'s, which knows
neither: such a release is better than itself, and is sent again at every pass that finds it.

### Known without a run of their own

Sentences of the code that the code does not keep, each stated by a definition that TLC finds violated under the `.cfg` named (add it
to the `INVARIANTS` or the `PROPERTIES`):

* `HandPickNeverDeleted` (`purge_race.cfg`): `monitor/grabs.py` says the purge never touches what was added by hand. The registry is read
  once, before the removals are awaited: a release sent by hand in between (a duplicate add of the torrent under judgement) is recorded as
  manual, and then deleted with its data.
* `PurgeFreesTheMovie` (`purge_race.cfg`): the movie to free is looked for by the torrent's name among titles given by the tracker. When they
  differ it stays marked as grabbed.
* `FinishedIsScanned` (`loop.cfg`): `refresh()` swallows its errors and its answer is not read, so finished torrents count as told after a
  call that failed.
* `RegrabIsDue` (`movies.cfg`): `monitor/schedule.py:20-21` says that a movie put back into search is due at once. The mark of the search
  that found its release was written before the grab: its signature is the one the movie has again.
* `SharedNeverProposed` (`cleanup.cfg`): `library/cleanup.py:119-120` says that a copy sharing its name with another is never proposed.
  `_build_group` compares a copy with the ones kept before it: two copies with the same files that a third one covers are both proposed. The first
  removal takes the files of both, and the second may fail: `RemainingIntact` is violated too.
* `OnlyChosenGo` (`cleanup.cfg`): the docstring of `remove_duplicates` (`web/cleanup_routes.py:41`) has copies designated by info hash because the ids
  of Transmission change when it restarts. The form does; the removals that follow are by id (`:64`, `:93`). After a restart between the listing and a
  removal, another torrent is removed, with its files.
* `CompleteKept` (`cleanup.cfg`): "Every group must keep covering what its complete copies covered" (`web/cleanup_routes.py:41-42`) is judged once.
  When a copy that is left is removed by hand or by another cleanup meanwhile, the removals go on and the last copy may go; two cleanups that are each
  safe do that together. A copy whose files are gone counts as complete until Transmission notices.
* `OthersUntouched` (`cleanup.cfg`): `removal_is_safe` says "why removing these copies would lose content, or None when it is safe"; but deleting a pack deletes what lies in its folder, were it of another season, or added after the listing: only what
  overlaps it, in the listing, is compared with it.
* `ProposalsAccepted` (`cleanup.cfg`): what the page proposes as a whole may be refused by `removal_is_safe`.
* `ChipsAlwaysHeard` (`front.cfg`): on a page opened by its query (`/?q=...`) the form has `hx-trigger="load"` only, and nothing hears the
  submit a chip asks for.
* `LegacyIsOlder` (`series.cfg`): "legacy grabs (recorded before timestamps existed)" (`monitor/runner.py:565`) are the marks that no record has
  the key of. The episodes of a pack are marked one by one and recorded as a season, so they are legacy for ever: an episode of it that
  disappears from Jellyfin is not hunted again.
* `OthersKept` (`series.cfg`, with `MaxEdits = 2`): "Keep other episodes in this season marked" (`web/series_routes.py:289`) fails when TMDB does, or its season has not
  loaded: the tag of the season goes, and its episodes have no mark of their own.

Others, each with the steps that reach it:

* A saved search looks at its history, which the purge erases, and not at the blacklist: a purged release is taken again.
* An approved request that is rejected while the check awaits is announced as available.
* A failing Jellyfin has movies it holds hunted again; a failing listing of Transmission counts as an empty one for a series
  (`monitor/runner.py:166`), so that what is there is sent again, while for the movies the same failure waits (`:423`).
* A release of a series whose add failed is tried again at each pass, since only the purge blacklists; one whose add was done and not answered
  is recognised by its torrent only, and is not in the history.
* Two releases of several episodes that overlap are both sent when each brings something: `OncePerPass` is about what they claim, the shared
  episode is downloaded twice all the same, whatever the docstring of `select_series_releases` says.
* A movie sent by hand during a pass is overwritten by the pass's own.
* With `Renumbers = TRUE`, `DeletesOnlyOwnOld` is violated within a few steps: Transmission restarts between the listing and a removal, its
  ids are dealt anew, and the removal by id hits another torrent.
* An account that becomes an administrator again, with the same password, has its old accesses open again before anything was dropped, though
  `claude/oauth.py:69` speaks of accesses that die with the rank. Strangers' consents push out one that waits for its answer (`:160`). The client that did not get the answer
  of a rotation has lost its access: the old refresh token opens nothing, and the new one stays on the page, unused.

## 5. What is proved

TLAPS proves these for all values of the constants: any number of releases, works, senders, requests, searches, any
grace period, any limits.

| Theorem | Statement | Argument |
|---|---|---|
| `PurgeProofs!TypeCorrect` | `Spec => []TypeOK` | inductive; `TypeOK` says when the coroutine holds a removal, a pick or a queue |
| `PurgeProofs!SuspensionCorrect` | `Spec => []SuspensionHolds` | `SuspendInv`: a suspect keeps the breaker tripped, and a tripped breaker keeps the coroutine out of the removals. `SuspensionHolds` alone is not inductive: it says nothing of the breaker. |
| `PurgeProofs!HandPickSafe` | `Spec => HandPickKept` | per action; `GrabRegistry.record` keeps a manual record, and seeding happens only on an empty registry |
| `PurgeProofs!NoSecondCopyCorrect` | `~Renumbers` implies `Spec => []NoSecondCopy` | `FreshInv = IdsInv /\ QueueFresh /\ Gone /\ NoSecondCopy`: ids are below `nextId` and distinct, a confirmed removal's id is no longer there, an id once buried is never given again |
| `PurgeProofs!DeletesOnlyOwnOldCorrect` | `~Renumbers` implies `Spec => DeletesOnlyOwnOld` | `OwnInv = AutoInv /\ JudgedInv`: an automatic record bears a date at which the surveillance sent that release, and what is queued was judged so; with `FreshInv`, an id still means the torrent that was judged |
| `PurgeProofs!NeverRegrabsPurgedCorrect` | `Spec => []NeverRegrabsPurged` | `BlacklistInv`: whatever was purged and not pardoned since has both its keys (infohash, name) in the blacklist. `NeverRegrabsPurged` alone is not inductive: it says nothing of a release that is not being added. A hunt chooses with the blacklist as it is, and nothing can be purged between that choice and its add, which are steps of one coroutine; a pardon gives up the promise for every release whose key it takes |
| `RequestsProofs!TypeCorrect`, `OnePendingCorrect` | `[]TypeOK`, `[]OnePendingPerMedia` | inductive |
| `RequestsProofs!ToldCorrect` | `[]ToldOncePerApproval` | `ToldInv`: messages sent, a message in flight and a request due (approved, or in the snapshot) add up to at most its approvals |
| `SchedulingProofs!LoopTypeCorrect` | `LoopSpec => []LoopTypeOK` | in particular a forced ask always comes with a wake-up |
| `SchedulingProofs!ChecksImplemented` | `LoopSpec => ChecksKept` | every step of the loop is a step of `Checks` or a stutter under the mapping |
| `SchedulingProofs!ToldWasAskedCorrect` | `LoopSpec => []ToldWasAsked` | `ToldInv`: what was listed as finished never loads again, so a torrent that finishes is in neither set. The safety part of `FinishedIsAsked`: no torrent counts as told that Jellyfin was not asked about; that the question is asked in the end is TLC's |
| `SchedulingProofs!ThrottleTypeCorrect` | `Spec => []TypeOK` | `ThrottleInv /\ QueueInv`: appending a search that does not wait, taking the head and taking any place out keep each waiting search once (`RemoveAtProperties`, `LeavesQueue`, `HeadLeavesQueue`, `JoinsQueue`) |
| `SchedulingProofs!OneAtATimeCorrect`, `SpacedCorrect`, `PauseRespectedCorrect` | the three safety properties | `ThrottleInv = ClockInv /\ OneAtATime /\ SleepInv`: what has elapsed and what is left of a sleep add up to some interval, whatever the settings became meanwhile |
| `MovieHuntProofs!TypeCorrect` | `[]TypeOK` | with `ReplacesGrabbed`: only what has been grabbed is replaced |
| `MovieHuntProofs!RehuntOnlyAbsentCorrect` | `[]RehuntOnlyAbsent` | `RehuntInv`: the listing of a pass holds whatever has been there since it began, and a movie grabbed before is hunted by what that listing says |
| `MovieHuntProofs!HuntsSpacedCorrect` | `[]HuntsSpaced` | `HuntInv`: the entry of a movie is never older than its last hunt, in the library and, until the pass has recorded a new one, in what the pass read. Without the second half a stale snapshot could shorten the cooldown. |
| `MovieHuntProofs!NoPingPongCorrect` | `Ranked` and `QualitiesAgree` imply `[]NoPingPong` | `PingPongInv`: replacements climb a strict order (better quality, then repack), in which each movie's release is over all it replaced. The two assumptions are what the code needs and does not ensure (`movies_upgrade`, and a profile with no list of qualities). |
| `SeriesHuntProofs!TypeCorrect` | `[]TypeOK` | in particular, a pass holds what it sends only where it sends something |
| `SeriesHuntProofs!SpacedForAll`, `NotOnHandForAll`, `OnceForAll` | `[]HuntsSpaced`, `[]NotOnHand`, `[]OncePerPass` | `IInv = TypeOK /\ Accounted /\ RecentOnHand /\ ToldOnHand /\ Claims`: a hunt that is remembered is one the history accounts for (by the episode or its season); what was hunted lately is on hand or was hunted in this turn; what the pass was told of is on hand; the claims of the hunts are apart, and what is left to swap shares nothing with what was sent but what `newly` holds back. None of the three properties is inductive: they say nothing of a turn before it sends. |
| `AccessProofs!TypeCorrect`, `AdminRemainsCorrect` | `[]TypeOK`, `[]AdminRemains` | inductive together |
| `AccessProofs!OnePairCorrect`, `RevokedIsGoneCorrect`, `DiesWithAccountCorrect`, `GrantsShownCorrect`, `HoldersKeptCorrect` | the safety properties of `access` | `IInv = TypeOK /\ AdminRemains /\ Linked`. `Linked` says what each stored document goes back to: the approval it was issued for, the client that asked, one renewable pair or one code per approval, none for a revoked one; what a `/token` request holds was stored once |
| `AccessProofs!PendingBoundedCorrect` | `[]PendingBounded` | `Bounded`: a cardinality, through each pruning |
| `CleanupProofs!TypeCorrect` | `[]TypeOK` | inductive |
| `CleanupProofs!ContentKeptCorrect`, `NoCollateralCorrect` | `Spec => ContentKept`, `Spec => NoCollateral` | no assumption on the world, any number of handlers. `IInv = TypeOK /\ Numbered`, and `Named /\ Sound` for each handler whose listing still counts. `Named`: a number in a listing means the copy it meant, or nothing, since new torrents get numbers no listing has. `Sound`: a judgement was right for its listing, so no later step can change it: what it leaves and overlaps a target shares no file with it, being of the same group, and what it leaves covers what was complete. Neither property is inductive: they say nothing of the listing |
| `CleanupProofs!ProposalsSoundCorrect` | `Spec => []ProposalsSound` | no assumption on the world; that nothing more is proposed is for listings in which only copies that overlap share files, as `ProposalsSettle` says. `Precedes` is a total order (`Ordered`, `FirstOf`). `kept_copies` has exactly one answer: `KeptOnce` looks at the first copy on which two answers differ, `KeptExists` takes the least rest of the group it could stop at, by the well-foundedness of proper subsets, since a finite set cannot be walked by induction here. Groups are apart and shrink with the listing (`ClusterSame`, `GroupShrinks`); what was kept of a group is kept of what is left of it (`KeptLeft`), so nothing more is proposed |
| `FrontProofs!TypeCorrect`, `TabHonestCorrect`, `HashNamesPanelCorrect`, `ChipsHeardCorrect` | `[]TypeOK`, `[]TabHonest`, `[]HashNamesPanel`, `[]ChipsHeard` | `FrontInv = WindowInv /\ SearchInv /\ WatchInv /\ SettingsInv`, one part per page. `ChipsHeard` needs that a filter owed is out of the form and, when nothing waits behind it, out of the request under way (`ChipsInv`) |

Assumptions used are those of the modules (`PurgeAssumption`, `RequestsAssumption`, `ThrottleAssumption`, `MovieHuntAssumption`,
`LoopAssumption`, `SeriesHuntAssumption`, `AccountAssumption`, `AccessAssumption`, `CleanupAssumption`, `FrontAssumption`): sets of the right kind,
`None` outside of them, numbers natural; TLC evaluates them on every run. Those that say something of the world: `SeriesHuntAssumption` takes a title's episodes to be of one
season, and a title to name episodes or seasons (`parse_episodes` returns one or the other). The theorems under `~Renumbers`, like the condition `stale` of the
cleanup's properties, say what the code relies on without saying so: Transmission not being restarted between a listing and the removals it led to.

Only model-checked: every liveness property (`DeadGrabsGo`, `BreakerRearms`, `ApprovedBecomesAvailable`, `AsksServed`,
`FinishedIsAsked`, `EverySearchEnds`, `GapsAreFilled`), because fairness and ENABLED are out of the prover's reach. Every other property of a passing run,
invariant or action property, is a theorem above.

## 6. What is not modelled, and why

* Saved searches in detail: `Purge` lets them choose any release they match, which is sound for what it states. The matching is text.
* The schedule of a series (`SeriesHunt` leaves it open), the size per episode and the seeders that decide ties, the trimming of the history to its last
  1000 records (a thousand grabs within the cooldown would be needed to forget a recent one).
* The tools of the Claude connector and their hourly limit, the result cache: read and written without an await. The cookies of sessions and the limit on
  login attempts: the same.
* Torznab, the caches of TMDB, calendar, notifications, logs, health: requests and rendering; where their answers matter they are nondeterministic.
* The SQLite layer: each document is written in one statement under a lock, so an upsert is one step.
* Parsing of release names: text processing. `WorkOf`, `Covers`, `Keys`, `UnitsOf` stand for what a name parses to.
* `web/static/tailwind.js` is a vendored library. In `app.js`, the copy button and the handler that hides a broken poster change nothing that lasts.
* Cross-process behaviour: TorrSearch runs as one process.
