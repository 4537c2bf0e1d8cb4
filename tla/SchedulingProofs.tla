-------------------------- MODULE SchedulingProofs --------------------------
(***************************************************************************)
(* The two places where the program schedules what would run at the same   *)
(* time: the throttle every search of a tracker goes through, for any      *)
(* number of searches, intervals and pauses, and the loop of the           *)
(* surveillance, which implements Checks for any torrents, restarts and    *)
(* settings. They share no state.                                          *)
(***************************************************************************)
EXTENDS TrackerThrottle, RunnerLoop, SequenceTheorems, TLAPS

(***************************************************************************)
(* The queue of the lock, an asyncio.Lock.                                 *)
(***************************************************************************)

InQueue(s, c) == \E i \in 1 .. Len(s) : s[i] = c
EachOnce(s) == \A i, j \in 1 .. Len(s) : s[i] = s[j] => i = j

(* Taking one place out of a sequence shifts the places after it.          *)
LEMMA RemoveAtProperties ==
    ASSUME NEW S, NEW s \in Seq(S), NEW i \in 1 .. Len(s)
    PROVE  /\ RemoveAt(s, i) \in Seq(S)
           /\ Len(RemoveAt(s, i)) = Len(s) - 1
           /\ \A j \in 1 .. Len(s) - 1 : RemoveAt(s, i)[j] = IF j < i THEN s[j] ELSE s[j + 1]
  <1> DEFINE before == SubSeq(s, 1, i - 1)
             after == SubSeq(s, i + 1, Len(s))
  <1>1. Len(s) \in Nat /\ i \in Nat /\ 1 <= i /\ i <= Len(s)
    OBVIOUS
  <1>2. /\ before \in Seq(S) /\ Len(before) = i - 1
        /\ \A j \in 1 .. i - 1 : before[j] = s[j]
    BY <1>1, SubSeqProperties
  <1>3. /\ after \in Seq(S) /\ Len(after) = Len(s) - i
        /\ \A j \in 1 .. Len(s) - i : after[j] = s[i + j]
    BY <1>1, SubSeqProperties
  <1> HIDE DEF before, after
  <1>4. /\ before \o after \in Seq(S)
        /\ Len(before \o after) = Len(before) + Len(after)
        /\ \A j \in 1 .. Len(before) + Len(after) :
              (before \o after)[j] = IF j <= Len(before) THEN before[j]
                                     ELSE after[j - Len(before)]
    BY <1>2, <1>3, ConcatProperties
  <1>5. ASSUME NEW j \in 1 .. Len(s) - 1
        PROVE  (before \o after)[j] = IF j < i THEN s[j] ELSE s[j + 1]
    <2>1. j \in Nat /\ j \in 1 .. Len(before) + Len(after)
      BY <1>1, <1>2, <1>3
    <2>2. CASE j < i
      <3>1. j \in 1 .. i - 1 /\ j <= Len(before)
        BY <1>1, <1>2, <2>1, <2>2
      <3> QED
        BY <1>2, <1>4, <2>1, <2>2, <3>1
    <2>3. CASE ~(j < i)
      <3>1. /\ ~(j <= Len(before)) /\ j - Len(before) \in 1 .. Len(s) - i
            /\ i + (j - Len(before)) = j + 1
        BY <1>1, <1>2, <1>3, <2>1, <2>3
      <3> QED
        BY <1>3, <1>4, <2>1, <2>3, <3>1
    <2> QED
      BY <2>2, <2>3
  <1>6. Len(before) + Len(after) = Len(s) - 1
    BY <1>1, <1>2, <1>3
  <1> QED
    BY <1>4, <1>5, <1>6 DEF RemoveAt, before, after

(* Whoever leaves a queue in which each waits once leaves it for good, and *)
(* takes nobody else out: by cancelling anywhere in it.                    *)
LEMMA LeavesQueue ==
    ASSUME NEW S, NEW s \in Seq(S), EachOnce(s), NEW i \in 1 .. Len(s)
    PROVE  /\ EachOnce(RemoveAt(s, i))
           /\ \A c : InQueue(RemoveAt(s, i), c) <=> InQueue(s, c) /\ c # s[i]
  <1> DEFINE t == RemoveAt(s, i)
  <1> HIDE DEF t
  <1>0. /\ Len(t) = Len(s) - 1
        /\ \A j \in 1 .. Len(s) - 1 : t[j] = IF j < i THEN s[j] ELSE s[j + 1]
    BY RemoveAtProperties DEF t
  <1>1. /\ Len(t) = Len(s) - 1 /\ Len(s) \in Nat /\ i \in Nat
        /\ \A j \in 1 .. Len(s) - 1 : t[j] = IF j < i THEN s[j] ELSE s[j + 1]
    BY <1>0
  <1>2. EachOnce(t)
    BY <1>1 DEF EachOnce
  <1>3. ASSUME NEW c, InQueue(t, c) PROVE InQueue(s, c) /\ c # s[i]
    BY <1>1, <1>3 DEF EachOnce, InQueue
  <1>4. ASSUME NEW c, InQueue(s, c), c # s[i] PROVE InQueue(t, c)
    <2>1. PICK k \in 1 .. Len(s) : s[k] = c /\ k # i
      BY <1>4 DEF InQueue
    <2>2. CASE k < i
      BY <1>1, <2>1, <2>2 DEF InQueue
    <2>3. CASE i < k
      <3>1. k - 1 \in 1 .. Len(s) - 1 /\ ~(k - 1 < i) /\ (k - 1) + 1 = k
        BY <1>1, <2>3
      <3>2. t[k - 1] = c
        BY <1>1, <2>1, <3>1
      <3> QED
        BY <1>1, <3>1, <3>2 DEF InQueue
    <2> QED
      BY <1>1, <2>1, <2>2, <2>3
  <1> QED
    BY <1>2, <1>3, <1>4 DEF t

(* ... or by being the first, when the lock is free.                       *)
LEMMA HeadLeavesQueue ==
    ASSUME NEW S, NEW s \in Seq(S), EachOnce(s), s # <<>>
    PROVE  /\ Tail(s) \in Seq(S) /\ EachOnce(Tail(s)) /\ InQueue(s, Head(s))
           /\ \A c : InQueue(Tail(s), c) <=> InQueue(s, c) /\ c # Head(s)
  <1>1. /\ Tail(s) \in Seq(S) /\ Len(Tail(s)) = Len(s) - 1 /\ Head(s) = s[1]
        /\ Len(s) \in Nat /\ Len(s) # 0
        /\ \A j \in 1 .. Len(s) - 1 : Tail(s)[j] = s[j + 1]
    BY HeadTailProperties, EmptySeq
  <1>2. EachOnce(Tail(s)) /\ InQueue(s, Head(s))
    BY <1>1 DEF EachOnce, InQueue
  <1>3. ASSUME NEW c, InQueue(Tail(s), c) PROVE InQueue(s, c) /\ c # Head(s)
    BY <1>1, <1>3 DEF EachOnce, InQueue
  <1>4. ASSUME NEW c, InQueue(s, c), c # Head(s) PROVE InQueue(Tail(s), c)
    <2>1. PICK k \in 1 .. Len(s) : s[k] = c /\ k # 1
      BY <1>1, <1>4 DEF InQueue
    <2>2. k - 1 \in 1 .. Len(s) - 1 /\ (k - 1) + 1 = k
      BY <1>1, <2>1
    <2> QED
      BY <1>1, <2>1, <2>2 DEF InQueue
  <1> QED
    BY <1>1, <1>2, <1>3, <1>4

LEMMA JoinsQueue ==
    ASSUME NEW S, NEW s \in Seq(S), EachOnce(s), NEW d \in S, ~InQueue(s, d)
    PROVE  /\ Append(s, d) \in Seq(S) /\ EachOnce(Append(s, d))
           /\ \A c : InQueue(Append(s, d), c) <=> InQueue(s, c) \/ c = d
  <1> DEFINE t == Append(s, d)
  <1>1. /\ t \in Seq(S) /\ Len(t) = Len(s) + 1 /\ Len(s) \in Nat
        /\ t[Len(s) + 1] = d /\ \A j \in 1 .. Len(s) : t[j] = s[j]
    BY AppendProperties
  <1> HIDE DEF t
  <1>2. \A j \in 1 .. Len(t) : j \in 1 .. Len(s) \/ j = Len(s) + 1
    BY <1>1
  <1>3. EachOnce(t)
    BY <1>1, <1>2 DEF EachOnce, InQueue
  <1>4. \A c : InQueue(t, c) <=> InQueue(s, c) \/ c = d
    BY <1>1, <1>2 DEF InQueue
  <1> QED
    BY <1>1, <1>3, <1>4 DEF t

(***************************************************************************)
(* The lock, the spacing and the pause.                                    *)
(***************************************************************************)

(* The types the arguments on the lock and on time need.                   *)
ClockInv ==
    /\ pc \in [Caller -> {"idle", "queued", "sleeping", "asking"}]
    /\ holder \in Caller \cup {None}
    /\ interval \in Interval
    /\ elapsed \in 0 .. MaxInterval
    /\ sleepLeft \in 0 .. MaxInterval
    /\ pauseLeft \in Nat

(* A sleep lasts until some interval will have elapsed.                    *)
SleepInv ==
    (\E c \in Caller : pc[c] = "sleeping") => \E i \in Interval : i <= elapsed + sleepLeft

ThrottleInv == ClockInv /\ OneAtATime /\ SleepInv

(* The lock in the hands of c: what Enters and Proceeds preserve when      *)
(* nobody else sleeps or asks.                                             *)
Alone(c) == \A d \in Caller \ {c} : pc[d] \in {"idle", "queued"}

LEMMA ProceedsInv ==
    ASSUME ThrottleInv, NEW c \in Caller, Alone(c), Proceeds(c),
           interval' = interval, pauseLeft' = pauseLeft
    PROVE  ThrottleInv'
<1>1. ClockInv'
  <2>1. pc' \in [Caller -> {"idle", "queued", "sleeping", "asking"}]
      BY DEF ThrottleInv, ClockInv, Proceeds
  <2>2. CASE Blocked
      BY <2>1, <2>2, ThrottleAssumption DEF ThrottleInv, ClockInv, Proceeds, Released
  <2>3. CASE ~Blocked
      BY <2>1, <2>3, ThrottleAssumption DEF ThrottleInv, ClockInv, Proceeds
  <2> QED  BY <2>2, <2>3
<1>2. \A d \in Caller \ {c} : pc'[d] = pc[d]
    BY DEF ThrottleInv, ClockInv, Proceeds
<1>3. \/ pc'[c] = "asking" /\ holder' = c
      \/ pc'[c] = "idle" /\ holder' = None
  <2>1. \A x : pc' = [pc EXCEPT ![c] = x] => pc'[c] = x
      BY DEF ThrottleInv, ClockInv
  <2> QED  BY <2>1 DEF Proceeds, Released
<1>4. OneAtATime'
    BY <1>2, <1>3, ThrottleAssumption DEF OneAtATime, Alone
<1>5. SleepInv'
    BY <1>2, <1>3 DEF SleepInv, Alone
<1> QED  BY <1>1, <1>4, <1>5 DEF ThrottleInv

LEMMA EntersInv ==
    ASSUME ThrottleInv, NEW c \in Caller, Alone(c), Enters(c),
           interval' = interval, pauseLeft' = pauseLeft
    PROVE  ThrottleInv'
<1>1. CASE elapsed < interval
  <2>0. /\ pc' = [pc EXCEPT ![c] = "sleeping"] /\ holder' = c
        /\ sleepLeft' = interval - elapsed /\ elapsed' = elapsed
      BY <1>1 DEF Enters
  <2>1. ClockInv'
      BY <1>1, <2>0, ThrottleAssumption DEF ThrottleInv, ClockInv
  <2>2. \A d \in Caller \ {c} : pc'[d] = pc[d]
      BY <2>0 DEF ThrottleInv, ClockInv
  <2>3. pc'[c] = "sleeping"
      BY <2>0 DEF ThrottleInv, ClockInv
  <2>4. OneAtATime'
      BY <2>0, <2>2, <2>3, ThrottleAssumption DEF OneAtATime, Alone
  <2>5. SleepInv'
      BY <2>0, ThrottleAssumption DEF SleepInv, ThrottleInv, ClockInv
  <2> QED  BY <2>1, <2>4, <2>5 DEF ThrottleInv
<1>2. CASE ~(elapsed < interval)
    BY <1>2, ProceedsInv DEF Enters
<1> QED  BY <1>1, <1>2

(* Who leaves the lock while holding it leaves nobody behind.              *)
LEMMA LeavesInv ==
    ASSUME ThrottleInv, NEW c \in Caller, Alone(c),
           pc' = [pc EXCEPT ![c] = "idle"], holder' = None,
           sleepLeft' = 0, elapsed' \in 0 .. MaxInterval,
           pauseLeft' \in Nat, interval' = interval
    PROVE  ThrottleInv'
<1>1. ClockInv'
    BY ThrottleAssumption DEF ThrottleInv, ClockInv
<1>2. \A d \in Caller : pc'[d] \in {"idle", "queued"}
    BY DEF ThrottleInv, ClockInv, Alone
<1>3. OneAtATime' /\ SleepInv'
    BY <1>2, ThrottleAssumption DEF OneAtATime, SleepInv
<1> QED  BY <1>1, <1>3 DEF ThrottleInv

(* Two situations in which a search is alone with the lock.                *)
LEMMA AloneWhenFree ==
    ASSUME ThrottleInv, NEW c \in Caller, holder = None
    PROVE  Alone(c)
BY ThrottleAssumption DEF ThrottleInv, ClockInv, OneAtATime, Alone

LEMMA AloneWhenHolding ==
    ASSUME ThrottleInv, NEW c \in Caller, pc[c] \in {"sleeping", "asking"}
    PROVE  Alone(c)
BY DEF ThrottleInv, ClockInv, OneAtATime, Alone

LEMMA StepInv ==
    ASSUME ThrottleInv, NEW c \in Caller, Step(c)
    PROVE  ThrottleInv'
<1>1. CASE SearchEnters(c) \/ LockObtained(c)
  <2>1. holder = None /\ Enters(c) /\ interval' = interval /\ pauseLeft' = pauseLeft
      BY <1>1 DEF SearchEnters, LockObtained
  <2> QED  BY <2>1, AloneWhenFree, EntersInv
<1>2. CASE SearchQueues(c) \/ CancelledQueued(c)
  <2>1. /\ pc' = [pc EXCEPT ![c] = "queued"] \/ pc' = [pc EXCEPT ![c] = "idle"]
        /\ pc[c] \in {"idle", "queued"}
        /\ UNCHANGED <<holder, interval, elapsed, sleepLeft, pauseLeft>>
      BY <1>2 DEF SearchQueues, CancelledQueued, time
  <2>2. /\ pc' \in [Caller -> {"idle", "queued", "sleeping", "asking"}]
        /\ \A d \in Caller : \/ pc'[d] = pc[d]
                             \/ d = c /\ pc'[d] \in {"idle", "queued"}
      BY <2>1 DEF ThrottleInv, ClockInv
  <2>3. ClockInv' /\ OneAtATime' /\ SleepInv'
      BY <2>1, <2>2 DEF ThrottleInv, ClockInv, OneAtATime, SleepInv
  <2> QED  BY <2>3 DEF ThrottleInv
<1>3. CASE SleepEnds(c)
  <2>1. pc[c] = "sleeping" /\ Proceeds(c) /\ interval' = interval /\ pauseLeft' = pauseLeft
      BY <1>3 DEF SleepEnds
  <2> QED  BY <2>1, AloneWhenHolding, ProceedsInv
<1>4. CASE RequestEnds(c) \/ RequestLimited(c) \/ CancelledSleeping(c) \/ CancelledAsking(c)
  <2>1. /\ pc[c] \in {"sleeping", "asking"}
        /\ pc' = [pc EXCEPT ![c] = "idle"] /\ holder' = None
        /\ sleepLeft' = 0 /\ elapsed' \in {0, elapsed} /\ interval' = interval
      BY <1>4 DEF RequestEnds, RequestLimited, CancelledSleeping, CancelledAsking, Released
  <2>2. elapsed' \in 0 .. MaxInterval
      BY <2>1, ThrottleAssumption DEF ThrottleInv, ClockInv
  <2>3. pauseLeft' \in Nat
      BY <1>4, ThrottleAssumption
      DEF ThrottleInv, ClockInv, RequestEnds, RequestLimited, CancelledSleeping, CancelledAsking
  <2> QED  BY <2>1, <2>2, <2>3, AloneWhenHolding, LeavesInv
<1> QED  BY <1>1, <1>2, <1>3, <1>4 DEF Step, Cancelled

(* The arithmetic of a second that passes.                                 *)
LEMMA LeftLonger ==
    ASSUME NEW m \in Nat, NEW i \in Nat, i <= m,
           NEW e \in Nat, NEW l \in Nat, i <= e + l,
           NEW f \in Nat, NEW n \in Nat, e + l <= f + n \/ f = m
    PROVE  i <= f + n
OBVIOUS

LEMMA NextInv ==
    ASSUME ThrottleInv, [Next]_vars
    PROVE  ThrottleInv'
<1>1. CASE Tick
  <2>1. /\ elapsed' \in 0 .. MaxInterval /\ sleepLeft' \in 0 .. MaxInterval /\ pauseLeft' \in Nat
        /\ \/ elapsed + sleepLeft <= elapsed' + sleepLeft'
           \/ elapsed' = MaxInterval
      BY <1>1, ThrottleAssumption DEF Tick, ThrottleInv, ClockInv
  <2>2. pc' = pc /\ holder' = holder /\ interval' = interval
      BY <1>1 DEF Tick, lock
  <2>3. ClockInv' /\ OneAtATime'
      BY <2>1, <2>2 DEF ThrottleInv, ClockInv, OneAtATime
  <2>4. SleepInv'
    <3> SUFFICES ASSUME \E c \in Caller : pc[c] = "sleeping"
                 PROVE  \E i \in Interval : i <= elapsed' + sleepLeft'
        BY <2>2 DEF SleepInv
    <3>1. PICK i \in Interval : i <= elapsed + sleepLeft
        BY DEF ThrottleInv, SleepInv
    <3>2. i \in Nat /\ i <= MaxInterval /\ MaxInterval \in Nat
        BY ThrottleAssumption
    <3>3. elapsed \in Nat /\ sleepLeft \in Nat /\ elapsed' \in Nat /\ sleepLeft' \in Nat
        BY <2>1, ThrottleAssumption DEF ThrottleInv, ClockInv
    <3>4. i <= elapsed' + sleepLeft'
        BY <2>1, <3>1, <3>2, <3>3, LeftLonger
    <3> QED  BY <3>4
  <2> QED  BY <2>3, <2>4 DEF ThrottleInv
<1>2. CASE SaveSettings
    BY <1>2 DEF SaveSettings, lock, time, ThrottleInv, ClockInv, OneAtATime, SleepInv
<1>3. CASE \E c \in Caller : Step(c)
    BY <1>3, StepInv
<1>4. CASE UNCHANGED vars
  <2>1. ClockInv'
      BY <1>4 DEF vars, lock, time, ThrottleInv, ClockInv
  <2>2. OneAtATime' /\ SleepInv'
      BY <1>4 DEF vars, lock, time, ThrottleInv, OneAtATime, SleepInv
  <2> QED  BY <2>1, <2>2 DEF ThrottleInv
<1> QED  BY <1>1, <1>2, <1>3, <1>4 DEF Next

LEMMA InitInv == Init => ThrottleInv
BY ThrottleAssumption DEF Init, ThrottleInv, ClockInv, OneAtATime, SleepInv

(* One search at a time holds the tracker (TrackerThrottle's lock), and    *)
(* none holds it once it is over: cancelled, paused or refused.            *)
THEOREM OneAtATimeCorrect == Spec => []OneAtATime
<1>1. ThrottleInv => OneAtATime
    BY DEF ThrottleInv
<1> QED  BY InitInv, NextInv, <1>1, PTL DEF Spec

(* Who starts a request: an entering search, or one whose sleep is over.   *)
LEMMA WhoAsks ==
    ASSUME ThrottleInv, Next, NEW c \in Caller, Asks(c)
    PROVE  /\ ~Blocked
           /\ \/ elapsed >= interval
              \/ pc[c] = "sleeping" /\ sleepLeft = 0
<1>1. pc' # pc
    BY DEF Asks
<1>2. PICK d \in Caller : Step(d)
    BY <1>1 DEF Next, Tick, SaveSettings
<1>3. \A x : pc' = [pc EXCEPT ![d] = x] => pc'[c] = (IF c = d THEN x ELSE pc[c])
    BY DEF ThrottleInv, ClockInv
<1>4. CASE SearchEnters(d) \/ LockObtained(d)
  <2>1. Enters(d)
      BY <1>4 DEF SearchEnters, LockObtained
  <2>2. ~(elapsed < interval)
      BY <2>1, <1>3 DEF Enters, Asks
  <2>3. ~Blocked
      BY <2>1, <2>2, <1>3 DEF Enters, Proceeds, Asks
  <2>4. elapsed >= interval
      BY <2>2, ThrottleAssumption DEF ThrottleInv, ClockInv
  <2> QED  BY <2>3, <2>4
<1>5. CASE SleepEnds(d)
  <2>1. pc[d] = "sleeping" /\ sleepLeft = 0 /\ Proceeds(d)
      BY <1>5 DEF SleepEnds
  <2>2. ~Blocked /\ c = d
      BY <2>1, <1>3 DEF Proceeds, Asks
  <2> QED  BY <2>1, <2>2
<1>6. CASE SearchQueues(d) \/ RequestEnds(d) \/ RequestLimited(d) \/ Cancelled(d)
    BY <1>6, <1>3
    DEF Asks, SearchQueues, RequestEnds, RequestLimited, Cancelled, CancelledQueued,
        CancelledSleeping, CancelledAsking
<1> QED  BY <1>2, <1>4, <1>5, <1>6 DEF Step

LEMMA AsksStep ==
    ASSUME ThrottleInv, [Next]_vars, NEW c \in Caller, Asks(c)
    PROVE  ~Blocked /\ \E i \in Interval : i <= elapsed
<1>1. Next
    BY DEF Asks, vars
<1>2. ~Blocked /\ (elapsed >= interval \/ (pc[c] = "sleeping" /\ sleepLeft = 0))
    BY <1>1, WhoAsks
<1>3. CASE elapsed >= interval
    BY <1>2, <1>3, ThrottleAssumption DEF ThrottleInv, ClockInv
<1>4. CASE pc[c] = "sleeping" /\ sleepLeft = 0
  <2>1. PICK i \in Interval : i <= elapsed + sleepLeft
      BY <1>4 DEF ThrottleInv, SleepInv
  <2>2. i <= elapsed
      BY <1>4, <2>1, ThrottleAssumption DEF ThrottleInv, ClockInv
  <2> QED  BY <1>2, <2>2
<1> QED  BY <1>2, <1>3, <1>4

(* Requests to one tracker are spaced by the shortest interval set, even   *)
(* when the settings change while a search sleeps.                         *)
THEOREM SpacedCorrect == Spec => Spaced
<1>1. ThrottleInv /\ [Next]_vars => [\A c \in Caller : Asks(c) => \E i \in Interval : i <= elapsed]_vars
    BY AsksStep
<1> QED  BY InitInv, NextInv, <1>1, PTL DEF Spec, Spaced

(* No request leaves for a tracker that is paused after HTTP 429, also     *)
(* from a search that was waiting when it answered.                        *)
THEOREM PauseRespectedCorrect == Spec => PauseRespected
<1>1. ThrottleInv /\ [Next]_vars => [\A c \in Caller : Asks(c) => ~Blocked]_vars
    BY AsksStep
<1> QED  BY InitInv, NextInv, <1>1, PTL DEF Spec, PauseRespected

(***************************************************************************)
(* Types, with the queue: it holds those who wait, each once. Who takes    *)
(* the lock, waits or gives up must leave the others where they are.       *)
(***************************************************************************)

QueueInv ==
    /\ queue \in Seq(Caller)
    /\ \A c \in Caller : pc[c] = "queued" <=> InQueue(queue, c)
    /\ EachOnce(queue)

(* Where Enters and Proceeds lead: never back to the queue.                *)
LEMMA EntersLeads ==
    ASSUME ThrottleInv, NEW c \in Caller, Enters(c) \/ Proceeds(c)
    PROVE  \A d \in Caller : IF d = c THEN pc'[d] # "queued" ELSE pc'[d] = pc[d]
  <1>1. PICK x \in {"idle", "sleeping", "asking"} : pc' = [pc EXCEPT ![c] = x]
    BY DEF Enters, Proceeds
  <1> QED
    BY <1>1 DEF ThrottleInv, ClockInv

(* A step that leaves the queue alone, and those who wait in it.           *)
LEMMA QueueKeeps ==
    ASSUME QueueInv, UNCHANGED queue,
           \A c \in Caller : pc'[c] = "queued" <=> pc[c] = "queued"
    PROVE  QueueInv'
  BY DEF QueueInv, InQueue, EachOnce

LEMMA QueueStep ==
    ASSUME ThrottleInv, QueueInv, NEW c \in Caller, Step(c)
    PROVE  QueueInv'
  <1>0. \A x : pc' = [pc EXCEPT ![c] = x] =>
                  \A d \in Caller : pc'[d] = IF d = c THEN x ELSE pc[d]
    BY DEF ThrottleInv, ClockInv
  <1>1. CASE SearchEnters(c)
    <2>1. pc[c] = "idle" /\ UNCHANGED queue /\ Enters(c)
      BY <1>1 DEF SearchEnters
    <2> QED
      BY <2>1, EntersLeads, QueueKeeps
  <1>2. CASE SearchQueues(c)
    <2>1. /\ pc[c] = "idle" /\ queue' = Append(queue, c)
          /\ \A d \in Caller : pc'[d] = IF d = c THEN "queued" ELSE pc[d]
      BY <1>0, <1>2 DEF SearchQueues
    <2>2. ~InQueue(queue, c) /\ queue \in Seq(Caller) /\ EachOnce(queue)
      BY <2>1 DEF QueueInv
    <2>3. /\ queue' \in Seq(Caller) /\ EachOnce(queue')
          /\ \A d : InQueue(queue', d) <=> InQueue(queue, d) \/ d = c
      BY <2>1, <2>2, JoinsQueue
    <2>4. \A d \in Caller : pc'[d] = "queued" <=> InQueue(queue', d)
      BY <2>1, <2>3 DEF QueueInv
    <2> QED
      BY <2>3, <2>4 DEF QueueInv, EachOnce, InQueue
  <1>3. CASE LockObtained(c)
    <2>1. queue # <<>> /\ Head(queue) = c /\ queue' = Tail(queue) /\ Enters(c)
      BY <1>3 DEF LockObtained
    <2>2. queue \in Seq(Caller) /\ EachOnce(queue)
      BY DEF QueueInv
    <2>3. /\ queue' \in Seq(Caller) /\ EachOnce(queue')
          /\ \A d : InQueue(queue', d) <=> InQueue(queue, d) /\ d # c
      BY <2>1, <2>2, HeadLeavesQueue
    <2>4. \A d \in Caller : IF d = c THEN pc'[d] # "queued" ELSE pc'[d] = pc[d]
      BY <2>1, EntersLeads
    <2>5. \A d \in Caller : pc'[d] = "queued" <=> InQueue(queue', d)
      BY <2>3, <2>4 DEF QueueInv
    <2> QED
      BY <2>3, <2>5 DEF QueueInv, EachOnce, InQueue
  <1>4. CASE CancelledQueued(c)
    <2>1. PICK i \in 1 .. Len(queue) : queue[i] = c /\ queue' = RemoveAt(queue, i)
      BY <1>4 DEF CancelledQueued
    <2>2. queue \in Seq(Caller) /\ EachOnce(queue)
      BY DEF QueueInv
    <2>3. /\ queue' \in Seq(Caller) /\ EachOnce(queue')
          /\ \A d : InQueue(queue', d) <=> InQueue(queue, d) /\ d # c
      BY <2>1, <2>2, LeavesQueue, RemoveAtProperties
    <2>4. \A d \in Caller : pc'[d] = IF d = c THEN "idle" ELSE pc[d]
      BY <1>0, <1>4 DEF CancelledQueued
    <2>5. \A d \in Caller : pc'[d] = "queued" <=> InQueue(queue', d)
      BY <2>3, <2>4 DEF QueueInv
    <2> QED
      BY <2>3, <2>5 DEF QueueInv, EachOnce, InQueue
  <1>5. CASE SleepEnds(c)
    <2>1. pc[c] = "sleeping" /\ UNCHANGED queue /\ Proceeds(c)
      BY <1>5 DEF SleepEnds
    <2> QED
      BY <2>1, EntersLeads, QueueKeeps
  <1>6. CASE RequestEnds(c) \/ RequestLimited(c) \/ CancelledSleeping(c) \/ CancelledAsking(c)
    <2>1. /\ pc[c] \in {"sleeping", "asking"} /\ UNCHANGED queue
          /\ \A d \in Caller : pc'[d] = IF d = c THEN "idle" ELSE pc[d]
      BY <1>0, <1>6 DEF RequestEnds, RequestLimited, CancelledSleeping, CancelledAsking
    <2> QED
      BY <2>1, QueueKeeps
  <1> QED
    BY <1>1, <1>2, <1>3, <1>4, <1>5, <1>6 DEF Step, Cancelled

(* Every reachable state is well typed, and the queue of the lock is the   *)
(* searches that wait, each once: whoever is cancelled in it leaves it,    *)
(* and takes nobody along (asyncio.Lock under TrackerThrottle.__aenter__). *)
THEOREM ThrottleTypeCorrect == Spec => []TypeOK
  <1>1. Init => QueueInv
    BY DEF Init, QueueInv, InQueue, EachOnce
  <1>2. ThrottleInv /\ QueueInv /\ [Next]_vars => QueueInv'
    <2> SUFFICES ASSUME ThrottleInv, QueueInv, [Next]_vars PROVE QueueInv'
      OBVIOUS
    <2>1. CASE \E c \in Caller : Step(c)
      BY <2>1, QueueStep
    <2>2. CASE Tick \/ SaveSettings \/ UNCHANGED vars
      BY <2>2, QueueKeeps DEF Tick, SaveSettings, vars, lock
    <2> QED
      BY <2>1, <2>2 DEF Next
  <1>3. ThrottleInv /\ QueueInv => TypeOK
    BY DEF ThrottleInv, ClockInv, QueueInv, InQueue, EachOnce, TypeOK
  <1> QED
    BY <1>1, <1>2, <1>3, InitInv, NextInv, PTL DEF Spec

(***************************************************************************)
(* The loop of the surveillance.                                           *)
(***************************************************************************)

LEMMA LoopTypeInit == LoopInit => LoopTypeOK
  <1> SUFFICES ASSUME LoopInit PROVE LoopTypeOK
    OBVIOUS
  <1>1. /\ wake \in BOOLEAN /\ ~forceNext /\ forceNext \in BOOLEAN
        /\ ~forced /\ forced \in BOOLEAN
        /\ monitorOn \in BOOLEAN /\ jellyfinOn \in BOOLEAN
    BY DEF LoopInit
  <1> QED
    BY <1>1 DEF LoopInit, LoopTypeOK, Stage

LEMMA LoopTypeStep == LoopTypeOK /\ [LoopNext]_loopVars => LoopTypeOK'
  <1> SUFFICES ASSUME LoopTypeOK, [LoopNext]_loopVars PROVE LoopTypeOK'
    OBVIOUS
  <1> USE DEF LoopTypeOK, Stage, Done, asks, refresh, world
  <1>1. CASE Wake \/ RunNow \/ SaveMonitor \/ SaveJellyfin
    <2>1. /\ UNCHANGED <<stage, forced, refresh, torrent, restarts>>
          /\ toggles' \in Nat
      BY <1>1 DEF Wake, RunNow, SaveMonitor, SaveJellyfin
    <2>2. (wake' = TRUE \/ UNCHANGED wake) /\ (forceNext' = TRUE \/ UNCHANGED forceNext)
      BY <1>1 DEF Wake, RunNow, SaveMonitor, SaveJellyfin
    <2>3. UNCHANGED <<wake, forceNext>> \/ wake' = TRUE
      BY <1>1 DEF Wake, RunNow, SaveMonitor, SaveJellyfin
    <2>4. /\ monitorOn' = ~monitorOn \/ UNCHANGED monitorOn
          /\ jellyfinOn' = ~jellyfinOn \/ UNCHANGED jellyfinOn
      BY <1>1 DEF Wake, RunNow, SaveMonitor, SaveJellyfin
    <2>5. /\ wake' \in BOOLEAN /\ forceNext' \in BOOLEAN
          /\ monitorOn' \in BOOLEAN /\ jellyfinOn' \in BOOLEAN
      BY <2>2, <2>4
    <2>6. forceNext' => wake'
      BY <2>3
    <2> QED
      BY <2>1, <2>5, <2>6
  <1>2. CASE \E t \in Torrent : TorrentFinishes(t) \/ TorrentRemoved(t)
    BY <1>2 DEF TorrentFinishes, TorrentRemoved
  <1>3. CASE PassBegins
    BY <1>3 DEF PassBegins
  <1>4. CASE HuntEnds
    BY <1>4 DEF HuntEnds
  <1>5. CASE TorrentsListed
    BY <1>5 DEF TorrentsListed
  <1>6. CASE TorrentsUnknown
    BY <1>6 DEF TorrentsUnknown
  <1>7. CASE JellyfinScans
    BY <1>7 DEF JellyfinScans
  <1>8. CASE ScanFails
    BY <1>8 DEF ScanFails
  <1>9. CASE PassEnds \/ PassRaises
    <2>1. ~forced' /\ forced' \in BOOLEAN
      BY <1>9 DEF PassEnds, PassRaises
    <2> QED
      BY <1>9, <2>1 DEF PassEnds, PassRaises
  <1>10. CASE WokenUp \/ IntervalOver
    BY <1>10 DEF WokenUp, IntervalOver
  <1>11. CASE Restart
    <2>1. /\ ~wake' /\ wake' \in BOOLEAN
          /\ ~forceNext' /\ forceNext' \in BOOLEAN
          /\ ~forced' /\ forced' \in BOOLEAN
      BY <1>11 DEF Restart
    <2> QED
      BY <1>11, <2>1 DEF Restart
  <1>12. CASE UNCHANGED loopVars
    BY <1>12 DEF loopVars
  <1> QED
    BY <1>1, <1>2, <1>3, <1>4, <1>5, <1>6, <1>7, <1>8, <1>9, <1>10, <1>11, <1>12
    DEF LoopNext, Loop

(* Every reachable state has its types; in particular a forced ask always  *)
(* comes with the event that wakes the loop up.                            *)
THEOREM LoopTypeCorrect == LoopSpec => []LoopTypeOK
  BY LoopTypeInit, LoopTypeStep, PTL DEF LoopSpec

(***************************************************************************)
(* Refinement: each step of the loop is a step of Checks or leaves what is *)
(* owed and what runs as they are.                                         *)
(***************************************************************************)

LEMMA ChecksInit == LoopInit => C!Init
  BY DEF LoopInit, C!Init, owedNow, passNow, Stage

LEMMA ChecksStep ==
    LoopTypeOK /\ [LoopNext]_loopVars => [C!Next]_<<owedNow, passNow, restarts>>
  <1> SUFFICES ASSUME LoopTypeOK, [LoopNext]_loopVars
               PROVE  [C!Next]_<<owedNow, passNow, restarts>>
    OBVIOUS
  <1> USE DEF LoopTypeOK, owedNow, passNow, Stage, asks, world, refresh
  <1>1. CASE Wake \/ RunNow \/ SaveMonitor
    <2>1. UNCHANGED <<stage, forced, restarts>> /\ wake' = TRUE /\ forceNext' \in {forceNext, TRUE}
      BY <1>1 DEF Wake, RunNow, SaveMonitor
    <2>2. C!Ask \/ UNCHANGED <<owedNow, passNow, restarts>>
      BY <2>1 DEF C!Ask
    <2> QED
      BY <2>2 DEF C!Next
  <1>2. CASE UNCHANGED <<wake, forceNext, stage, forced, restarts>>
    BY <1>2
  <1>3. CASE SaveJellyfin \/ \E t \in Torrent : TorrentFinishes(t) \/ TorrentRemoved(t)
    BY <1>2, <1>3 DEF SaveJellyfin, TorrentFinishes, TorrentRemoved
  <1>4. CASE PassBegins
    BY <1>4 DEF PassBegins, C!Next, C!Begin
  <1>5. CASE HuntEnds \/ TorrentsListed \/ TorrentsUnknown \/ JellyfinScans \/ ScanFails
    <2>1. UNCHANGED <<wake, forceNext, forced, restarts>> /\ stage \in Stage /\ stage' \in Stage
      BY <1>5 DEF HuntEnds, TorrentsListed, TorrentsUnknown, JellyfinScans,
                 ScanFails
    <2> QED
      BY <2>1
  <1>6. CASE PassEnds \/ PassRaises
    BY <1>6 DEF PassEnds, PassRaises, C!Next, C!End
  <1>7. CASE WokenUp \/ IntervalOver
    BY <1>7 DEF WokenUp, IntervalOver
  <1>8. CASE Restart
    BY <1>8 DEF Restart, C!Next, C!Stop
  <1>9. CASE UNCHANGED loopVars
    BY <1>2, <1>9 DEF loopVars
  <1> QED
    BY <1>1, <1>3, <1>4, <1>5, <1>6, <1>7, <1>8, <1>9 DEF LoopNext, Loop

(* The loop implements Checks: no ask of a check is lost between two       *)
(* passes, none is downgraded, and passes run one at a time.               *)
THEOREM ChecksImplemented == LoopSpec => ChecksKept
  <1>1. LoopTypeOK /\ [LoopNext]_loopVars => [C!Next]_C!vars
    BY ChecksStep DEF C!vars
  <1> QED
    BY <1>1, ChecksInit, LoopTypeCorrect, PTL DEF LoopSpec, ChecksKept, C!Spec
(***************************************************************************)
(* The finished torrents the loop has told of.                             *)
(***************************************************************************)

(* What was once listed as finished never loads again.                     *)
ToldInv ==
    /\ ToldWasAsked
    /\ \A t \in seen \cup listing : torrent[t] # "loading"

LEMMA ToldInit == LoopInit => ToldInv
  BY DEF LoopInit, ToldInv, ToldWasAsked

LEMMA ToldStep == LoopTypeOK /\ ToldInv /\ [LoopNext]_loopVars => ToldInv'
  <1> SUFFICES ASSUME LoopTypeOK, ToldInv, [LoopNext]_loopVars PROVE ToldInv'
    OBVIOUS
  <1> USE DEF LoopTypeOK, ToldInv, ToldWasAsked, Done, asks, refresh, world
  <1>1. CASE UNCHANGED <<seen, listing, asked, torrent>>
    BY <1>1
  <1>2. CASE Wake \/ RunNow \/ SaveMonitor \/ SaveJellyfin
    BY <1>1, <1>2 DEF Wake, RunNow, SaveMonitor, SaveJellyfin
  <1>3. ASSUME NEW t \in Torrent, TorrentFinishes(t) \/ TorrentRemoved(t)
        PROVE  ToldInv'
    <2>1. /\ UNCHANGED <<seen, listing, asked>>
          /\ \E to \in {"done", "gone"} : torrent' = [torrent EXCEPT ![t] = to]
          /\ torrent'[t] = "done" => torrent[t] = "loading"
      BY <1>3 DEF TorrentFinishes, TorrentRemoved
    <2>2. \A u \in Torrent \ {t} : torrent'[u] = torrent[u]
      BY <2>1
    <2>3. torrent'[t] # "loading"
      BY <2>1
    <2> QED
      BY <2>1, <2>2, <2>3
  <1>4. CASE TorrentsListed
    <2>1. UNCHANGED <<asked, torrent>>
      BY <1>4 DEF TorrentsListed
    <2>2. CASE Done \ seen # {}
      <3>1. listing' = Done /\ UNCHANGED seen
        BY <1>4, <2>2 DEF TorrentsListed
      <3> QED
        BY <2>1, <3>1
    <2>3. CASE Done \subseteq seen
      <3>1. seen' = Done /\ UNCHANGED listing
        BY <1>4, <2>3 DEF TorrentsListed
      <3> QED
        BY <2>1, <2>3, <3>1
    <2> QED
      BY <2>2, <2>3
  <1>5. CASE JellyfinScans \/ ScanFails
    <2>1. asked' = Done /\ seen' = listing /\ listing' = {} /\ UNCHANGED torrent
      BY <1>5 DEF JellyfinScans, ScanFails
    <2> QED
      BY <2>1
  <1>6. CASE PassBegins \/ HuntEnds \/ TorrentsUnknown \/ PassEnds \/ PassRaises
             \/ WokenUp \/ IntervalOver
    BY <1>1, <1>6
    DEF PassBegins, HuntEnds, TorrentsUnknown, PassEnds, PassRaises, WokenUp, IntervalOver
  <1>7. CASE Restart
    BY <1>7 DEF Restart
  <1>8. CASE UNCHANGED loopVars
    BY <1>1, <1>8 DEF loopVars
  <1> QED
    BY <1>2, <1>3, <1>4, <1>5, <1>6, <1>7, <1>8 DEF LoopNext, Loop

(* No finished torrent counts as told unless Jellyfin was asked after it   *)
(* had finished: the safety part of FinishedIsAsked, for any torrents.     *)
THEOREM ToldWasAskedCorrect == LoopSpec => []ToldWasAsked
  <1>1. ToldInv => ToldWasAsked
    BY DEF ToldInv
  <1> QED
    BY <1>1, ToldInit, ToldStep, LoopTypeCorrect, PTL DEF LoopSpec
=============================================================================
