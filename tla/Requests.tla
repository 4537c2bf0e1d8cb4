------------------------------ MODULE Requests ------------------------------
(***************************************************************************)
(* Guests ask for a movie or a series, an admin decides, and the           *)
(* surveillance tells the channels once Jellyfin has it: requests/store.py,*)
(* web/requests_routes.py, run_request_availability (monitor/runner.py) and*)
(* the catalogue cache of jellyfin/client.py that it reads through.        *)
(*                                                                         *)
(* The web handlers write their stores without an await. The check awaits  *)
(* twice: for the catalogue, and for each notification.                    *)
(***************************************************************************)
EXTENDS Naturals, FiniteSets

CONSTANTS
    Media,          \* works, each with its type and TMDB id
    MaxRequests,    \* bound: requests ever created
    MaxDecisions,   \* bound: clicks on approve or reject
    MaxRestarts,    \* bound: restarts of TorrSearch
    MaxChanges,     \* bound: works that reach or leave Jellyfin
    None

RequestId == 1 .. MaxRequests   \* uuids, in order of creation
Status == {"pending", "approved", "rejected", "available"}
MediaRequest == [media: Media, status: Status]

ASSUME RequestsAssumption ==
    /\ MaxRequests \in Nat /\ MaxDecisions \in Nat
    /\ MaxRestarts \in Nat /\ MaxChanges \in Nat
    /\ None \notin MediaRequest
    /\ None \notin RequestId

VARIABLES
    requests,   \* RequestStore: the request of each id, or None
    library,    \* the works watched (both libraries)
    jellyfin,   \* what Jellyfin really holds
    cached,     \* whether JellyfinClient._items_cache holds a fresh catalogue
    catalogue,  \* that catalogue
    enabled,    \* whether Jellyfin is configured
    check,      \* where run_request_availability stands
    approved,   \* its snapshot of the approved requests still to look at
    owned,      \* the catalogue it was answered
    telling,    \* the request whose notification is awaited, or None
    (* Counters: bounds, and what the properties remember *)
    decisions, restarts, changes,
    approvals,  \* approvals of each request so far
    told        \* "Disponible" messages sent for each request so far

cache == <<cached, catalogue>>
checker == <<check, approved, owned, telling>>
counters == <<decisions, restarts, changes, approvals, told>>
vars == <<requests, library, jellyfin, cache, enabled, checker, counters>>

Init ==
    /\ requests = [i \in RequestId |-> None]
    /\ library = {}
    /\ jellyfin \in SUBSET Media
    /\ cached = FALSE /\ catalogue = {}
    /\ enabled = TRUE
    /\ check = "idle" /\ approved = {} /\ owned = {} /\ telling = None
    /\ decisions = 0 /\ restarts = 0 /\ changes = 0
    /\ approvals = [i \in RequestId |-> 0]
    /\ told = [i \in RequestId |-> 0]

Exists(i) == requests[i] # None
HasStatus(i, s) == Exists(i) /\ requests[i].status = s

(***************************************************************************)
(* The pages.                                                              *)
(***************************************************************************)

(* Mutant: only a request of the newest id is recognised as a duplicate.   *)
BugNewestOnly(m) ==
    \E i \in RequestId : /\ HasStatus(i, "pending") /\ requests[i].media = m
                         /\ \A j \in RequestId : j > i => ~Exists(j)

AlreadyAsked(m) == \E i \in RequestId : HasStatus(i, "pending") /\ requests[i].media = m

(* create_request: a second request for a pending work answers the first.  *)
Create(m) ==
    /\ ~AlreadyAsked(m)
    /\ \E id \in RequestId :
         /\ ~Exists(id) /\ \A j \in RequestId : j < id => Exists(j)
         /\ requests' = [requests EXCEPT ![id] = [media |-> m, status |-> "pending"]]
    /\ UNCHANGED <<library, jellyfin, cache, enabled, checker, counters>>

(* approve_request: whatever the status was; the page may be an old one.   *)
Approve(i) ==
    /\ Exists(i)
    /\ decisions < MaxDecisions
    /\ library' = library \cup {requests[i].media}
    /\ requests' = [requests EXCEPT ![i].status = "approved"]
    /\ decisions' = decisions + 1
    /\ approvals' = [approvals EXCEPT ![i] = @ + 1]
    /\ UNCHANGED <<jellyfin, cache, enabled, checker, restarts, changes, told>>

Reject(i) ==
    /\ Exists(i)
    /\ decisions < MaxDecisions
    /\ requests' = [requests EXCEPT ![i].status = "rejected"]
    /\ decisions' = decisions + 1
    /\ UNCHANGED <<library, jellyfin, cache, enabled, checker, restarts, changes, approvals, told>>

LibraryRemove(m) ==
    /\ m \in library
    /\ library' = library \ {m}
    /\ UNCHANGED <<requests, jellyfin, cache, enabled, checker, counters>>

(***************************************************************************)
(* Jellyfin and the cache of its catalogue (get_items, 30 seconds).        *)
(***************************************************************************)

MediaChanges(m) ==
    /\ changes < MaxChanges
    /\ jellyfin' = IF m \in jellyfin THEN jellyfin \ {m} ELSE jellyfin \cup {m}
    /\ changes' = changes + 1
    /\ UNCHANGED <<requests, library, cache, enabled, checker, decisions, restarts, approvals, told>>

CacheEmptied == cached' = FALSE /\ catalogue' = {}

(* Another page (discover, search) read the catalogue. *)
CacheFills ==
    /\ enabled /\ ~cached
    /\ cached' = TRUE /\ catalogue' = jellyfin
    /\ UNCHANGED <<requests, library, jellyfin, enabled, checker, counters>>

CacheExpires ==
    /\ cached
    /\ CacheEmptied
    /\ UNCHANGED <<requests, library, jellyfin, enabled, checker, counters>>

(* The settings are saved: a new client, with an empty cache. A check that *)
(* awaits the catalogue goes on with the client it called.                 *)
SaveSettings ==
    /\ enabled' \in BOOLEAN
    /\ CacheEmptied
    /\ check' = IF check = "asking" THEN "orphaned" ELSE check
    /\ UNCHANGED <<requests, library, jellyfin, approved, owned, telling, counters>>

(***************************************************************************)
(* run_request_availability, at the end of every cycle.                    *)
(***************************************************************************)

(* Mutant: one request is looked at per cycle. *)
BugNewestApproved == {i \in RequestId : /\ HasStatus(i, "approved")
                                        /\ \A j \in RequestId : HasStatus(j, "approved") => j <= i}

(* Mutant: requests already available are looked at again. *)
BugAvailableAgain == {i \in RequestId : HasStatus(i, "approved") \/ HasStatus(i, "available")}

ApprovedRequests == {i \in RequestId : HasStatus(i, "approved")}

CheckStarts ==
    /\ check = "idle"
    /\ enabled
    /\ ApprovedRequests # {}
    /\ approved' = ApprovedRequests
    /\ IF cached THEN owned' = catalogue /\ check' = "sweeping"
                 ELSE owned' = {} /\ check' = "asking"
    /\ UNCHANGED <<requests, library, jellyfin, cache, enabled, telling, counters>>

(* Awaiting the catalogue, from the client in use or from one replaced. *)
Asking == {"asking", "orphaned"}

CatalogueAnswered ==
    /\ check \in Asking
    /\ owned' = jellyfin
    /\ IF check = "asking" THEN cached' = TRUE /\ catalogue' = jellyfin ELSE UNCHANGED cache
    /\ check' = "sweeping"
    /\ UNCHANGED <<requests, library, jellyfin, enabled, approved, telling, counters>>

(* get_items never raises: a failure is an empty catalogue, not cached. *)
CatalogueFails ==
    /\ check \in Asking
    /\ owned' = {}
    /\ check' = "sweeping"
    /\ UNCHANGED <<requests, library, jellyfin, cache, enabled, approved, telling, counters>>

Owned == {i \in approved : requests[i].media \in owned}

(* From one notification to the next, newest request first. *)
Sweep ==
    /\ check = "sweeping"
    /\ IF Owned = {}
       THEN /\ approved' = {} /\ owned' = {} /\ check' = "idle"
            /\ UNCHANGED <<requests, telling>>
       ELSE \E i \in Owned :
            /\ \A j \in Owned : j <= i
            /\ requests' = [requests EXCEPT ![i].status = "available"]
            /\ telling' = i
            /\ approved' = {j \in approved : j < i}
            /\ check' = "telling"
            /\ UNCHANGED owned
    /\ UNCHANGED <<library, jellyfin, cache, enabled, counters>>

(* The notification goes out, or fails and is only logged. *)
Tell ==
    /\ check = "telling"
    /\ \/ told' = [told EXCEPT ![telling] = @ + 1]
       \/ UNCHANGED told
    /\ telling' = None
    /\ check' = "sweeping"
    /\ UNCHANGED <<requests, library, jellyfin, cache, enabled, approved, owned,
                   decisions, restarts, changes, approvals>>

Restart ==
    /\ restarts < MaxRestarts
    /\ restarts' = restarts + 1
    /\ CacheEmptied
    /\ check' = "idle" /\ approved' = {} /\ owned' = {} /\ telling' = None
    /\ UNCHANGED <<requests, library, jellyfin, enabled, decisions, changes, approvals, told>>

Check == CheckStarts \/ CatalogueAnswered \/ CatalogueFails \/ Sweep \/ Tell

Next ==
    \/ \E m \in Media : Create(m) \/ LibraryRemove(m) \/ MediaChanges(m)
    \/ \E i \in RequestId : Approve(i) \/ Reject(i)
    \/ CacheFills \/ CacheExpires \/ SaveSettings
    \/ Check \/ Restart

Spec == Init /\ [][Next]_vars

(* The loop ends every cycle with a check, as long as the stages before it *)
(* do not always raise, and the event loop carries it to its end; Jellyfin *)
(* does not fail every time; the cache lasts 30 seconds.                   *)
Fairness ==
    /\ WF_vars(CheckStarts)
    /\ SF_vars(CatalogueAnswered)
    /\ WF_vars(CatalogueFails)
    /\ WF_vars(Sweep)
    /\ WF_vars(Tell)
    /\ WF_vars(CacheExpires)

FairSpec == Spec /\ Fairness

(***************************************************************************)
(* Properties.                                                             *)
(***************************************************************************)

(* Types, and what the check holds at each of its steps.                   *)
TypeOK ==
    /\ requests \in [RequestId -> MediaRequest \cup {None}]
    /\ library \subseteq Media
    /\ jellyfin \subseteq Media
    /\ cached \in BOOLEAN
    /\ catalogue \subseteq Media
    /\ enabled \in BOOLEAN
    /\ check \in {"idle", "asking", "orphaned", "sweeping", "telling"}
    /\ approved \subseteq {i \in RequestId : Exists(i)}
    /\ owned \subseteq Media
    /\ telling \in RequestId \cup {None}
    /\ (telling # None) <=> (check = "telling")
    /\ (approved # {}) => (check # "idle")
    /\ decisions \in Nat /\ restarts \in Nat /\ changes \in Nat
    /\ approvals \in [RequestId -> Nat]
    /\ told \in [RequestId -> Nat]

(* A work never waits twice for a decision, in whatever order requests are *)
(* created, decided and marked available (RequestStore.add).               *)
OnePendingPerMedia ==
    \A i, j \in RequestId :
        HasStatus(i, "pending") /\ HasStatus(j, "pending") /\ requests[i].media = requests[j].media
            => i = j

(* The channels hear of a request at most once per approval: decisions     *)
(* taken during the check, failures and restarts repeat no message.        *)
ToldOncePerApproval == \A i \in RequestId : told[i] <= approvals[i]

(* An approved request whose work stays in Jellyfin ends up available (or  *)
(* decided anew), even if Jellyfin fails now and then.                     *)
ApprovedBecomesAvailable ==
    \A i \in RequestId :
        HasStatus(i, "approved") ~>
            (HasStatus(i, "approved") => ~enabled \/ requests[i].media \notin jellyfin)
=============================================================================
