--------------------------- MODULE TrackerThrottle ---------------------------
(***************************************************************************)
(* The politeness towards one tracker: TrackerThrottle (indexers/          *)
(* throttle.py) and the searches that go through it (SearchService.        *)
(* _search_one). The throttles of two trackers share nothing.              *)
(*                                                                         *)
(* Time is kept relative, so that no bound on the clock is needed: what    *)
(* has elapsed since the last request ended (up to the longest interval),  *)
(* what is left of the sleep, what is left of the pause.                   *)
(***************************************************************************)
EXTENDS Naturals, SequencesExt

CONSTANTS
    Caller,         \* searches under way: pages, the surveillance, Claude
    Interval,       \* the values search.min_interval_seconds may take
    MaxInterval,    \* the longest of them
    RetryAfter,     \* the pauses a tracker may ask for (HTTP 429)
    None

ASSUME ThrottleAssumption ==
    /\ MaxInterval \in Nat
    /\ Interval \subseteq 0 .. MaxInterval
    /\ Interval # {}
    /\ RetryAfter \subseteq Nat
    /\ None \notin Caller

VARIABLES
    pc,         \* where each search stands
    holder,     \* who holds _lock, or None
    queue,      \* who waits for it, first come first served (asyncio.Lock)
    interval,   \* min_interval
    elapsed,    \* time since _last_done, capped (the cap before any request)
    sleepLeft,  \* what is left of the holder's sleep
    pauseLeft   \* what is left until _blocked_until

lock == <<holder, queue>>
time == <<elapsed, sleepLeft, pauseLeft>>
vars == <<pc, lock, interval, time>>

Init ==
    /\ pc = [c \in Caller |-> "idle"]
    /\ holder = None /\ queue = <<>>
    /\ interval \in Interval
    /\ elapsed = MaxInterval /\ sleepLeft = 0 /\ pauseLeft = 0

Blocked == pauseLeft > 0

Tick ==
    /\ elapsed' = IF elapsed < MaxInterval THEN elapsed + 1 ELSE elapsed
    /\ sleepLeft' = IF sleepLeft > 0 THEN sleepLeft - 1 ELSE 0
    /\ pauseLeft' = IF pauseLeft > 0 THEN pauseLeft - 1 ELSE 0
    /\ UNCHANGED <<pc, lock, interval>>

(* The settings are saved: the throttle survives, with the new interval. *)
SaveSettings ==
    /\ interval' \in Interval \ {interval}
    /\ UNCHANGED <<pc, lock, time>>

(* __aexit__: whatever ended, the spacing counts from now. *)
Released ==
    /\ holder' = None
    /\ elapsed' = 0 /\ sleepLeft' = 0

(* Mutant: not checked again once the lock is held. *)
BugNoRecheck(c) ==
    /\ pc' = [pc EXCEPT ![c] = "asking"]
    /\ holder' = c /\ sleepLeft' = 0
    /\ UNCHANGED elapsed

(* The lock is held and the wait is over: ask, unless paused meanwhile. *)
Proceeds(c) ==
    IF Blocked THEN pc' = [pc EXCEPT ![c] = "idle"] /\ Released
    ELSE /\ pc' = [pc EXCEPT ![c] = "asking"]
         /\ holder' = c /\ sleepLeft' = 0
         /\ UNCHANGED elapsed

(* Mutant: one never sleeps. *)
BugNoWait(c) == Proceeds(c)

(* __aenter__, from the moment the lock is obtained. *)
Enters(c) ==
    IF elapsed < interval
    THEN /\ pc' = [pc EXCEPT ![c] = "sleeping"]
         /\ holder' = c
         /\ sleepLeft' = interval - elapsed
         /\ UNCHANGED elapsed
    ELSE Proceeds(c)

(* Mutant: a free lock is taken past those who wait, a held one too. *)
BugBarges(c) ==
    /\ pc[c] = "idle"
    /\ ~Blocked
    /\ Enters(c)
    /\ UNCHANGED <<queue, interval, pauseLeft>>

(* Nobody waits and the lock is free: the search enters at once. *)
SearchEnters(c) ==
    /\ pc[c] = "idle"
    /\ ~Blocked
    /\ holder = None /\ queue = <<>>
    /\ Enters(c)
    /\ UNCHANGED <<queue, interval, pauseLeft>>

SearchQueues(c) ==
    /\ pc[c] = "idle"
    /\ ~Blocked
    /\ holder # None \/ queue # <<>>
    /\ pc' = [pc EXCEPT ![c] = "queued"]
    /\ queue' = Append(queue, c)
    /\ UNCHANGED <<holder, interval, time>>

LockObtained(c) ==
    /\ holder = None
    /\ queue # <<>> /\ Head(queue) = c
    /\ queue' = Tail(queue)
    /\ Enters(c)
    /\ UNCHANGED <<interval, pauseLeft>>

SleepEnds(c) ==
    /\ pc[c] = "sleeping"
    /\ sleepLeft = 0
    /\ Proceeds(c)
    /\ UNCHANGED <<queue, interval, pauseLeft>>

(* The tracker answered, failed, or the request ran out of time. *)
RequestEnds(c) ==
    /\ pc[c] = "asking"
    /\ pc' = [pc EXCEPT ![c] = "idle"]
    /\ Released
    /\ UNCHANGED <<queue, interval, pauseLeft>>

(* HTTP 429: the tracker is paused before the lock is released. *)
RequestLimited(c) ==
    /\ pc[c] = "asking"
    /\ pc' = [pc EXCEPT ![c] = "idle"]
    /\ Released
    /\ \E s \in RetryAfter : pauseLeft' = IF s > pauseLeft THEN s ELSE pauseLeft
    /\ UNCHANGED <<queue, interval>>

(* Mutant: who gives up in the queue stays in it. *)
BugQueueKept(c) ==
    /\ pc[c] = "queued"
    /\ pc' = [pc EXCEPT ![c] = "idle"]
    /\ UNCHANGED <<lock, interval, time>>

(* The search is cancelled in the queue: asyncio takes its place out of it. *)
CancelledQueued(c) ==
    /\ pc[c] = "queued"
    /\ pc' = [pc EXCEPT ![c] = "idle"]
    /\ \E i \in 1 .. Len(queue) : queue[i] = c /\ queue' = RemoveAt(queue, i)
    /\ UNCHANGED <<holder, interval, time>>

(* Mutant: a cancelled sleep leaves the tracker locked. *)
BugLockLeaked(c) ==
    /\ pc[c] = "sleeping"
    /\ pc' = [pc EXCEPT ![c] = "idle"]
    /\ sleepLeft' = 0
    /\ UNCHANGED <<lock, interval, elapsed, pauseLeft>>

(* "never leave the tracker locked"; no request was made, none is counted. *)
CancelledSleeping(c) ==
    /\ pc[c] = "sleeping"
    /\ pc' = [pc EXCEPT ![c] = "idle"]
    /\ holder' = None /\ sleepLeft' = 0
    /\ UNCHANGED <<queue, interval, elapsed, pauseLeft>>

CancelledAsking(c) == RequestEnds(c)

Cancelled(c) == CancelledQueued(c) \/ CancelledSleeping(c) \/ CancelledAsking(c)

Step(c) ==
    \/ SearchEnters(c) \/ SearchQueues(c) \/ LockObtained(c) \/ SleepEnds(c)
    \/ RequestEnds(c) \/ RequestLimited(c) \/ Cancelled(c)

Next == Tick \/ SaveSettings \/ \E c \in Caller : Step(c)

Spec == Init /\ [][Next]_vars

(* Time passes; the lock, the sleep and the request (bounded by its own    *)
(* timeout) end. No one is obliged to search or to cancel.                 *)
Fairness ==
    /\ WF_vars(Tick)
    /\ \A c \in Caller :
        /\ WF_vars(LockObtained(c))
        /\ WF_vars(SleepEnds(c))
        /\ WF_vars(RequestEnds(c) \/ RequestLimited(c))

FairSpec == Spec /\ Fairness

(***************************************************************************)
(* Properties.                                                             *)
(***************************************************************************)

(* Types; the queue holds those who wait, each once, and nobody else.      *)
TypeOK ==
    /\ pc \in [Caller -> {"idle", "queued", "sleeping", "asking"}]
    /\ holder \in Caller \cup {None}
    /\ queue \in Seq(Caller)
    /\ interval \in Interval
    /\ elapsed \in 0 .. MaxInterval
    /\ sleepLeft \in 0 .. MaxInterval
    /\ pauseLeft \in Nat
    /\ \A c \in Caller : pc[c] = "queued" <=> \E i \in 1 .. Len(queue) : queue[i] = c
    /\ \A i, j \in 1 .. Len(queue) : queue[i] = queue[j] => i = j

(* "One request at a time", and a tracker is locked only by a search that  *)
(* sleeps or asks, whoever was cancelled, paused or refused in between.    *)
OneAtATime ==
    \A c \in Caller : pc[c] \in {"sleeping", "asking"} <=> holder = c

Asks(c) == pc[c] # "asking" /\ pc'[c] = "asking"

(* "Spaced": a request starts no sooner after the end of the one before it *)
(* than the shortest interval set, whatever the settings do meanwhile.     *)
Spaced == [][\A c \in Caller : Asks(c) => \E i \in Interval : i <= elapsed]_vars

(* A paused tracker is left alone, also by the searches that were already  *)
(* queued or asleep when it answered 429.                                  *)
PauseRespected == [][\A c \in Caller : Asks(c) => ~Blocked]_vars

(* No search waits for ever: the lock is always handed on.                 *)
EverySearchEnds == \A c \in Caller : pc[c] # "idle" ~> pc[c] = "idle"

=============================================================================
