----------------------------- MODULE PurgeProofs -----------------------------
(***************************************************************************)
(* What Purge promises for every set of releases, works, senders and every *)
(* bound: types, the suspension, and what the purge may delete.            *)
(***************************************************************************)
EXTENDS Purge, FiniteSetTheorems, WellFoundedInduction, TLAPS

(***************************************************************************)
(* Lemmas on the operators of Purge.                                       *)
(***************************************************************************)

(* A non-empty set of naturals has a least element.                        *)
LEMMA LeastNatural ==
    ASSUME NEW T, T \subseteq Nat, T # {}
    PROVE  \E a \in T : \A b \in T : a <= b
  <1> DEFINE R == OpToRel(<, Nat)
  <1>1. IsWellFoundedOn(R, Nat)
    BY NatLessThanWellFounded
  <1>2. \A x, y \in Nat : x < y => <<x, y>> \in R
    BY DEF OpToRel
  <1> HIDE DEF R
  <1>3. PICK x \in T : \A y \in T : ~(<<y, x>> \in R)
    BY <1>1, WFMin
  <1>4. ASSUME NEW b \in T PROVE x <= b
    <2>1. x \in Nat /\ b \in Nat
      OBVIOUS
    <2>2. ~(b < x)
      BY <1>2, <1>3, <2>1
    <2> QED
      BY <2>1, <2>2
  <1> QED
    BY <1>4

(* Transmission's two calls keep its types.                                *)
LEMMA ClientAddsTyped ==
    ASSUME ClientTypeOK, NEW r \in Release, ClientAdds(r)
    PROVE  torrent' \in [Release -> Torrent \cup {None}] /\ nextId' \in Nat
  BY PurgeAssumption DEF ClientTypeOK, ClientAdds, client, Torrent

LEMMA ClientRemovesTyped ==
    ASSUME ClientTypeOK, NEW id, ClientRemoves(id)
    PROVE  torrent' \in [Release -> Torrent \cup {None}] /\ nextId' \in Nat
  BY DEF ClientTypeOK, ClientRemoves

(* mark_grabbed keeps the types of both libraries.                         *)
LEMMA MarkGrabbedTyped ==
    ASSUME StoresTypeOK, NEW w, NEW r \in Release, MarkGrabbed(w, r)
    PROVE  /\ movie' \in [Movie -> Title \cup {Wanted, None}]
           /\ series' \in [Series -> (SUBSET Episode) \cup {None}]
  <1>1. movie' \in [Movie -> Title \cup {Wanted, None}]
    BY PurgeAssumption DEF StoresTypeOK, MarkGrabbed
  <1>2. series' \in [Series -> (SUBSET Episode) \cup {None}]
    <2>1. CASE w \in Series /\ Watched(w)
      <3>1. w \notin Movie
        BY <2>1, PurgeAssumption
      <3>2. series[w] \in SUBSET Episode
        BY <2>1, <3>1 DEF StoresTypeOK, Watched
      <3>3. series[w] \cup Covers[r] \in SUBSET Episode
        BY <3>2, PurgeAssumption
      <3> QED
        BY <2>1, <3>3 DEF StoresTypeOK, MarkGrabbed
    <2>2. CASE ~(w \in Series /\ Watched(w))
      BY <2>2 DEF StoresTypeOK, MarkGrabbed
    <2> QED
      BY <2>1, <2>2
  <1> QED
    BY <1>1, <1>2

(* Recording a grab keeps the type of the registry.                        *)
LEMMA RecordedTyped ==
    ASSUME StoresTypeOK, NEW r \in Release, NEW o \in {AUTO, MANUAL}, clock \in Nat
    PROVE  Recorded(registry, r, o, clock) \in [Release -> GrabRecord \cup {None}]
  <1>1. [origin |-> o, added_at |-> clock] \in GrabRecord
    BY DEF GrabRecord
  <1> QED
    BY <1>1 DEF StoresTypeOK, Recorded

(* Each seeded record is automatic, at a time the history names.           *)
LEMMA SeededTimes ==
    ASSUME StoresTypeOK, NEW r \in Release, Seeded[r] # None
    PROVE  /\ Seeded[r].origin = AUTO /\ Seeded[r].added_at \in GrabTimes(r)
           /\ Seeded[r] \in GrabRecord
  <1>1. GrabTimes(r) # {} /\ Seeded[r] = [origin |-> AUTO, added_at |-> Oldest(GrabTimes(r))]
    BY DEF Seeded
  <1>2. GrabTimes(r) \subseteq Nat
    BY DEF StoresTypeOK, HistoryRecord, GrabTimes
  <1>3. \E a \in GrabTimes(r) : \A b \in GrabTimes(r) : a <= b
    BY <1>1, <1>2, LeastNatural
  <1>4. Oldest(GrabTimes(r)) \in GrabTimes(r)
    BY <1>3 DEF Oldest
  <1> QED
    BY <1>1, <1>2, <1>4 DEF GrabRecord

LEMMA SeedTyped ==
    ASSUME StoresTypeOK
    PROVE  SeedFromHistory \in [Release -> GrabRecord \cup {None}]
  <1>1. ASSUME NEW r \in Release PROVE Seeded[r] \in GrabRecord \cup {None}
    BY SeededTimes
  <1>2. Seeded \in [Release -> GrabRecord \cup {None}]
    BY <1>1 DEF Seeded
  <1> QED
    BY <1>2 DEF StoresTypeOK, SeedFromHistory

(***************************************************************************)
(* Types.                                                                  *)
(***************************************************************************)

LEMMA TypeInit == Init => TypeOK
  <1> SUFFICES ASSUME Init PROVE TypeOK
    OBVIOUS
  <1>1. ClientTypeOK /\ GhostTypeOK
    BY DEF Init, ClientTypeOK, GhostTypeOK
  <1>2. StoresTypeOK
    BY DEF Init, StoresTypeOK
  <1>3. RunnerTypeOK
    BY DEF Init, RunnerTypeOK
  <1>4. SenderTypeOK
    BY PurgeAssumption DEF Init, SenderTypeOK, Idle
  <1> QED
    BY <1>1, <1>2, <1>3, <1>4 DEF TypeOK

(* The purge's own steps.                                                  *)
LEMMA TypePurge ==
    ASSUME TypeOK, PurgeSteps \/ CycleStarts
    PROVE  TypeOK'
  <1> USE PurgeAssumption
  <1> USE DEF TypeOK, ClientTypeOK, StoresTypeOK, RunnerTypeOK, SenderTypeOK, GhostTypeOK,
              client, stores, runner, ghosts
  <1>1. CASE CycleStarts
    BY <1>1 DEF CycleStarts
  <1>2. CASE ListingFails
    BY <1>2 DEF ListingFails
  <1>3. CASE ListingAnswered
    <2>1. {AsListed(r) : r \in {q \in Release : Present(q)}} \subseteq Listed
      BY DEF AsListed, Present, Torrent, Listed
    <2> QED
      BY <1>3, <2>1 DEF ListingAnswered
  <1>4. CASE Judge
    <2>1. Candidates \subseteq todo
      BY DEF Candidates
    <2>2. /\ todo' \subseteq Listed
          /\ pc' \in {"hunting", "purging"}
          /\ tripped' \in BOOLEAN
          /\ (todo' # {}) => pc' = "purging"
      BY <1>4, <2>1 DEF Judge, NothingDead, PurgeSuspended, PurgeBegins
    <2>3. suspects' \subseteq Release
      BY <1>4, <2>1 DEF Judge, Listed
    <2> QED
      BY <1>4, <2>2, <2>3 DEF Judge
  <1>5. ASSUME NEW t \in todo, PurgeRemoves(t) PROVE TypeOK'
    <2>1. torrent' \in [Release -> Torrent \cup {None}] /\ nextId' \in Nat
      BY <1>5, ClientRemovesTyped DEF PurgeRemoves
    <2> QED
      BY <1>5, <2>1 DEF PurgeRemoves
  <1>6. ASSUME NEW t \in todo, PurgeRemovalFails(t) PROVE TypeOK'
    <2>1. torrent' \in [Release -> Torrent \cup {None}] /\ nextId' \in Nat
      BY <1>6, ClientRemovesTyped DEF PurgeRemovalFails
    <2> QED
      BY <1>6, <2>1 DEF PurgeRemovalFails
  <1>7. CASE PurgeWrittenDown
    <2>1. current \in Listed /\ current.release \in Release /\ current.id \in Nat
      BY <1>7 DEF PurgeWrittenDown, Listed
    <2>2. movie' \in [Movie -> Title \cup {Wanted, None}]
      BY <1>7 DEF PurgeWrittenDown, ResetMovies
    <2>3. series' \in [Series -> (SUBSET Episode) \cup {None}]
      BY <1>7 DEF PurgeWrittenDown, ResetSeries
    <2>4. StoresTypeOK'
      BY <1>7, <2>1, <2>2, <2>3 DEF PurgeWrittenDown
    <2> QED
      BY <1>7, <2>1, <2>4 DEF PurgeWrittenDown
  <1>8. CASE PurgeEnds
    BY <1>8 DEF PurgeEnds
  <1> QED
    BY <1>1, <1>2, <1>3, <1>4, <1>5, <1>6, <1>7, <1>8 DEF PurgeSteps

(* The grabs of the surveillance.                                          *)
LEMMA TypeHunt ==
    ASSUME TypeOK, HuntSteps
    PROVE  TypeOK'
  <1> USE PurgeAssumption
  <1> USE DEF TypeOK, ClientTypeOK, StoresTypeOK, RunnerTypeOK, SenderTypeOK, GhostTypeOK,
              client, stores, runner, ghosts
  <1>1. ASSUME NEW r \in Release, SurveillanceSelects(r) PROVE TypeOK'
    BY <1>1 DEF SurveillanceSelects
  <1>6. ASSUME NEW r \in SavedReleases, SavedSearchSelects(r) PROVE TypeOK'
    BY <1>6 DEF SavedSearchSelects
  <1>2. CASE SurveillanceAdds
    <2>1. torrent' \in [Release -> Torrent \cup {None}] /\ nextId' \in Nat
      BY <1>2, ClientAddsTyped DEF SurveillanceAdds
    <2> QED
      BY <1>2, <2>1 DEF SurveillanceAdds
  <1>3. CASE SurveillanceAddFails
    <2>1. torrent' \in [Release -> Torrent \cup {None}] /\ nextId' \in Nat
      BY <1>3, ClientAddsTyped DEF SurveillanceAddFails
    <2> QED
      BY <1>3, <2>1 DEF SurveillanceAddFails
  <1>4. CASE SurveillanceRecords
    <2>1. pick \in Release
      BY <1>4 DEF SurveillanceRecords
    <2>2. registry' \in [Release -> GrabRecord \cup {None}]
      BY <1>4, <2>1, RecordedTyped DEF SurveillanceRecords
    <2>3. /\ movie' \in [Movie -> Title \cup {Wanted, None}]
          /\ series' \in [Series -> (SUBSET Episode) \cup {None}]
      BY <1>4, <2>1, MarkGrabbedTyped DEF SurveillanceRecords
    <2>4. history' \subseteq HistoryRecord
      BY <1>4, <2>1 DEF SurveillanceRecords, HistoryRecord
    <2>5. StoresTypeOK'
      BY <1>4, <2>2, <2>3, <2>4 DEF SurveillanceRecords
    <2> QED
      BY <1>4, <2>5 DEF SurveillanceRecords
  <1>5. CASE CycleEnds
    BY <1>5 DEF CycleEnds
  <1> QED
    BY <1>1, <1>2, <1>3, <1>4, <1>5, <1>6 DEF HuntSteps

(* The handlers that send a release by hand.                               *)
LEMMA TypeSender ==
    ASSUME TypeOK, SenderSteps
    PROVE  TypeOK'
  <1> USE PurgeAssumption
  <1> USE DEF TypeOK, ClientTypeOK, StoresTypeOK, RunnerTypeOK, SenderTypeOK, GhostTypeOK,
              client, stores, runner, ghosts
  <1>1. ASSUME NEW s \in Sender, NEW r \in SendReleases, SenderPlans(s, r) PROVE TypeOK'
    <2>1. r \in Release /\ r # None /\ WorkOf[r] \in Work
      OBVIOUS
    <2> QED
      BY <1>1, <2>1 DEF SenderPlans
  <1>2. ASSUME NEW s \in Sender, SenderAdds(s) PROVE TypeOK'
    <2>1. sender[s].release \in Release
      BY <1>2 DEF SenderAdds
    <2>2. torrent' \in [Release -> Torrent \cup {None}] /\ nextId' \in Nat
      BY <1>2, <2>1, ClientAddsTyped DEF SenderAdds
    <2> QED
      BY <1>2, <2>2 DEF SenderAdds
  <1>3. ASSUME NEW s \in Sender, SenderAddFails(s) PROVE TypeOK'
    <2>1. sender[s].release \in Release
      BY <1>3 DEF SenderAddFails
    <2>2. torrent' \in [Release -> Torrent \cup {None}] /\ nextId' \in Nat
      BY <1>3, <2>1, ClientAddsTyped DEF SenderAddFails
    <2> QED
      BY <1>3, <2>2 DEF SenderAddFails, Idle
  <1>4. ASSUME NEW s \in Sender, SenderRecords(s) PROVE TypeOK'
    <2> DEFINE r == sender[s].release
               w == sender[s].work
    <2>1. r \in Release
      BY <1>4 DEF SenderRecords
    <2>2. registry' \in [Release -> GrabRecord \cup {None}]
      BY <1>4, <2>1, RecordedTyped DEF SenderRecords
    <2>3. /\ movie' \in [Movie -> Title \cup {Wanted, None}]
          /\ series' \in [Series -> (SUBSET Episode) \cup {None}]
      <3>1. CASE w = None
        BY <1>4, <3>1 DEF SenderRecords
      <3>2. CASE w # None
        <4>1. MarkGrabbed(w, r)
          BY <1>4, <3>2 DEF SenderRecords
        <4> QED
          BY <4>1, <2>1, MarkGrabbedTyped
      <3> QED
        BY <3>1, <3>2
    <2>4. history' \subseteq HistoryRecord
      BY <1>4, <2>1 DEF SenderRecords, HistoryRecord
    <2>5. StoresTypeOK'
      BY <1>4, <2>2, <2>3, <2>4 DEF SenderRecords
    <2> QED
      BY <1>4, <2>5 DEF SenderRecords, Idle
  <1> QED
    BY <1>1, <1>2, <1>3, <1>4 DEF SenderSteps

(* Transmission and the hands that use it.                                 *)
LEMMA TypeClient ==
    ASSUME TypeOK, ClientSteps
    PROVE  TypeOK'
  <1> USE PurgeAssumption
  <1> USE DEF TypeOK, ClientTypeOK, StoresTypeOK, RunnerTypeOK, SenderTypeOK, GhostTypeOK,
              client, stores, runner, ghosts
  <1>1. ASSUME NEW r \in Release, HealthChanges(r) PROVE TypeOK'
    <2>1. torrent' \in [Release -> Torrent \cup {None}]
      BY <1>1 DEF HealthChanges, Present, Torrent
    <2> QED
      BY <1>1, <2>1 DEF HealthChanges
  <1>2. ASSUME NEW r \in HandReleases, HandAdds(r) PROVE TypeOK'
    <2>1. torrent' \in [Release -> Torrent \cup {None}] /\ nextId' \in Nat
      BY <1>2, ClientAddsTyped DEF HandAdds
    <2> QED
      BY <1>2, <2>1 DEF HandAdds
  <1>3. ASSUME NEW r \in HandReleases, HandRemoves(r) PROVE TypeOK'
    <2>1. torrent' \in [Release -> Torrent \cup {None}] /\ nextId' \in Nat
      BY <1>3, ClientRemovesTyped DEF HandRemoves
    <2> QED
      BY <1>3, <2>1 DEF HandRemoves
  <1>4. CASE ClientRestarts
    <2> DEFINE kept == {r \in Release : Present(r)}
    <2>1. kept \subseteq Release /\ IsFiniteSet(kept) /\ Cardinality(kept) \in Nat
      BY FS_Subset, FS_CardinalityType
    <2>2. PICK number \in [kept -> 1 .. Cardinality(kept)] :
             torrent' = [r \in Release |-> IF r \in kept
                                           THEN [torrent[r] EXCEPT !.id = number[r]]
                                           ELSE None]
      BY <1>4 DEF ClientRestarts
    <2>3. ASSUME NEW r \in kept PROVE [torrent[r] EXCEPT !.id = number[r]] \in Torrent
      <3>1. torrent[r] \in Torrent
        BY DEF Present
      <3>2. number[r] \in Nat
        BY <2>1
      <3> QED
        BY <3>1, <3>2 DEF Torrent
    <2>4. torrent' \in [Release -> Torrent \cup {None}]
      BY <2>2, <2>3
    <2>5. nextId' \in Nat
      BY <1>4, <2>1 DEF ClientRestarts
    <2> QED
      BY <1>4, <2>4, <2>5 DEF ClientRestarts
  <1> QED
    BY <1>1, <1>2, <1>3, <1>4 DEF ClientSteps

(* The pages, time and a restart.                                          *)
LEMMA TypePages ==
    ASSUME TypeOK, PageSteps \/ Tick \/ Restart
    PROVE  TypeOK'
  <1> USE PurgeAssumption
  <1> USE DEF TypeOK, ClientTypeOK, StoresTypeOK, RunnerTypeOK, SenderTypeOK, GhostTypeOK,
              client, stores, runner, ghosts
  <1>1. ASSUME NEW w \in PageWorks, Watch(w) PROVE TypeOK'
    <2>1. w \in Movie \/ w \in Series
      BY DEF Work
    <2> QED
      BY <1>1, <2>1 DEF Watch
  <1>2. ASSUME NEW w \in PageWorks, Unwatch(w) PROVE TypeOK'
    <2>1. w \in Movie \/ w \in Series
      BY DEF Work
    <2> QED
      BY <1>2, <2>1 DEF Unwatch
  <1>3. ASSUME NEW r \in PardonReleases, Unblacklist(r) PROVE TypeOK'
    BY <1>3 DEF Unblacklist
  <1>4. CASE ToggleMonitor
    BY <1>4 DEF ToggleMonitor
  <1>5. CASE Tick
    BY <1>5 DEF Tick
  <1>6. CASE Restart
    <2>1. registry' \in [Release -> GrabRecord \cup {None}]
      BY <1>6, SeedTyped DEF Restart
    <2>2. SenderTypeOK'
      BY <1>6 DEF Restart, Idle
    <2> QED
      BY <1>6, <2>1, <2>2 DEF Restart
  <1> QED
    BY <1>1, <1>2, <1>3, <1>4, <1>5, <1>6 DEF PageSteps

(* Every reachable state has its types, and the surveillance coroutine     *)
(* holds a queue, a confirmed removal or a pick only where it uses them.   *)
THEOREM TypeCorrect == Spec => []TypeOK
  <1>1. TypeOK /\ [Next]_vars => TypeOK'
    <2>1. TypeOK /\ UNCHANGED vars => TypeOK'
      BY DEF vars, client, stores, runner, ghosts, TypeOK, ClientTypeOK, StoresTypeOK,
             RunnerTypeOK, SenderTypeOK, GhostTypeOK
    <2> QED
      BY <2>1, TypePurge, TypeHunt, TypeSender, TypeClient, TypePages DEF Next
  <1> QED
    BY <1>1, TypeInit, PTL DEF Spec

(***************************************************************************)
(* The suspension. SuspensionHolds is not inductive by itself: one must    *)
(* know that a suspect keeps the breaker tripped, and that a tripped       *)
(* breaker keeps the coroutine out of the removals.                        *)
(***************************************************************************)

SuspendInv ==
    /\ suspects # {} => tripped
    /\ tripped => pc \notin {"purging", "removed"}

LEMMA SuspendStep == SuspendInv /\ [Next]_vars => SuspendInv'
  <1> SUFFICES ASSUME SuspendInv, [Next]_vars PROVE SuspendInv'
    OBVIOUS
  <1> USE DEF SuspendInv, client, stores, runner, ghosts
  <1>1. CASE Judge
    <2>1. CASE NothingDead
      BY <1>1, <2>1 DEF Judge, NothingDead
    <2>2. CASE PurgeSuspended
      BY <1>1, <2>2 DEF Judge, PurgeSuspended
    <2>3. CASE PurgeBegins
      BY <1>1, <2>3 DEF Judge, PurgeBegins
    <2> QED
      BY <1>1, <2>1, <2>2, <2>3 DEF Judge
  <1>2. CASE PurgeSteps /\ ~Judge
    BY <1>2 DEF PurgeSteps, ListingAnswered, ListingFails, PurgeRemoves, PurgeRemovalFails,
                PurgeWrittenDown, PurgeEnds
  <1>3. CASE HuntSteps \/ CycleStarts
    BY <1>3 DEF HuntSteps, CycleStarts, SurveillanceSelects, SavedSearchSelects,
                          SurveillanceAdds,
                SurveillanceAddFails, SurveillanceRecords, CycleEnds
  <1>4. CASE SenderSteps
    BY <1>4 DEF SenderSteps, SenderPlans, SenderAdds, SenderAddFails, SenderRecords
  <1>5. CASE ClientSteps \/ PageSteps \/ Tick
    BY <1>5 DEF ClientSteps, HealthChanges, HandAdds, HandRemoves, ClientRestarts, PageSteps,
                Watch, Unwatch, Unblacklist, ToggleMonitor, Tick
  <1>6. CASE Restart
    BY <1>6 DEF Restart
  <1>7. CASE UNCHANGED vars
    BY <1>7 DEF vars
  <1> QED
    BY <1>1, <1>2, <1>3, <1>4, <1>5, <1>6, <1>7 DEF Next

(* No torrent of a mass die-off is queued for deletion before a listing    *)
(* showed no candidate, whatever the cap, the torrents and the clock.      *)
THEOREM SuspensionCorrect == Spec => []SuspensionHolds
  <1>1. Init => SuspendInv
    BY DEF Init, SuspendInv
  <1>2. SuspendInv => SuspensionHolds
    BY DEF SuspendInv, SuspensionHolds, Queue
  <1> QED
    BY <1>1, <1>2, SuspendStep, PTL DEF Spec

(***************************************************************************)
(* What users picked by hand.                                              *)
(***************************************************************************)

(* Recording a grab leaves every manual record as it is.                   *)
LEMMA RecordedKeepsManual ==
    ASSUME StoresTypeOK, NEW q, NEW o, NEW at, NEW r \in Release,
           registry[r] # None, registry[r].origin = MANUAL
    PROVE  Recorded(registry, q, o, at)[r] = registry[r]
  BY DEF Recorded, StoresTypeOK

(* A manual record goes only with the purge of its own release, judged     *)
(* before the pick; grabs, restarts and seeding leave it.                  *)
THEOREM HandPickSafe == Spec => HandPickKept
  <1> DEFINE Kept == \A r \in Release :
                registry[r] # None /\ registry[r].origin = MANUAL =>
                  \/ registry'[r] = registry[r]
                  \/ registry'[r] = None /\ current # None /\ current.release = r
  <1>1. TypeOK /\ [Next]_vars => Kept
    <2> SUFFICES ASSUME TypeOK, [Next]_vars,
                        NEW r \in Release, registry[r] # None, registry[r].origin = MANUAL
                 PROVE  \/ registry'[r] = registry[r]
                        \/ registry'[r] = None /\ current # None /\ current.release = r
      OBVIOUS
    <2>0. StoresTypeOK
      BY DEF TypeOK
    <2>1. CASE SurveillanceRecords
      BY <2>0, <2>1, RecordedKeepsManual DEF SurveillanceRecords
    <2>2. CASE \E s \in Sender : SenderRecords(s)
      BY <2>0, <2>2, RecordedKeepsManual DEF SenderRecords
    <2>3. CASE PurgeWrittenDown
      <3>1. current # None
        BY <2>3 DEF PurgeWrittenDown, TypeOK, RunnerTypeOK
      <3> QED
        BY <2>0, <2>3, <3>1 DEF PurgeWrittenDown, StoresTypeOK
    <2>4. CASE Restart
      BY <2>4 DEF Restart, SeedFromHistory
    <2>5. CASE UNCHANGED registry
      BY <2>5
    <2>6. \/ UNCHANGED registry \/ SurveillanceRecords \/ PurgeWrittenDown \/ Restart
          \/ \E s \in Sender : SenderRecords(s)
      <3> USE DEF stores
      <3>1. CASE Tick \/ CycleStarts \/ PurgeSteps \/ HuntSteps
        BY <3>1 DEF Tick, CycleStarts, PurgeSteps, ListingAnswered, ListingFails, Judge,
                    PurgeRemoves, PurgeRemovalFails, PurgeEnds, HuntSteps,
                    SurveillanceSelects, SavedSearchSelects,
                    SurveillanceAdds, SurveillanceAddFails, CycleEnds
      <3>2. CASE SenderSteps \/ ClientSteps \/ PageSteps
        BY <3>2 DEF SenderSteps, SenderPlans, SenderAdds, SenderAddFails, ClientSteps,
                    HealthChanges, HandAdds, HandRemoves, ClientRestarts, PageSteps, Watch,
                    Unwatch, Unblacklist, ToggleMonitor
      <3> QED
        BY <3>1, <3>2 DEF Next, vars
    <2> QED
      BY <2>1, <2>2, <2>3, <2>4, <2>5, <2>6
  <1>2. TypeOK /\ [Next]_vars => [Kept]_vars
    BY <1>1
  <1> QED
    BY <1>2, TypeCorrect, PTL DEF Spec, HandPickKept

(***************************************************************************)
(* What the purge deletes. A removal names an id read one await earlier:   *)
(* the argument is that ids are given once (Transmission does not restart, *)
(* ~Renumbers), so that the id still means the torrent that was judged, or *)
(* nothing.                                                                *)
(***************************************************************************)

(* Ids given so far, and who may bear them.                                *)
IdsInv ==
    /\ \A r \in Release : Present(r) => torrent[r].id < nextId
    /\ \A r, q \in Release : Present(r) /\ Present(q) /\ torrent[r].id = torrent[q].id => r = q
    /\ \A t \in todo : t.id < nextId
    /\ current # None => current.id < nextId
    /\ \A i \in buried : i < nextId

(* An id in the queue still means what was listed under it.                *)
QueueFresh ==
    \A t \in todo : \A r \in Release :
        Present(r) /\ torrent[r].id = t.id => r = t.release /\ t.added = torrent[r].added

Gone == current # None => \A r \in Release : Present(r) => torrent[r].id # current.id

FreshInv == IdsInv /\ QueueFresh /\ Gone /\ NoSecondCopy

(* Adding a torrent, removing one, or moving on without touching any.      *)
LEMMA FreshAdds ==
    ASSUME TypeOK, FreshInv, NEW r \in Release, ClientAdds(r), UNCHANGED <<todo, current, buried>>
    PROVE  FreshInv'
  <1>1. CASE UNCHANGED client
    BY <1>1 DEF client, FreshInv, IdsInv, QueueFresh, Gone, NoSecondCopy, Present
  <1>2. CASE ~UNCHANGED client
    <2>1. PICK h \in Health :
             torrent' = [torrent EXCEPT ![r] = [id |-> nextId, added |-> clock, health |-> h]]
      BY <1>2 DEF ClientAdds
    <2>2. nextId' = nextId + 1 /\ nextId \in Nat
      BY <1>2 DEF ClientAdds, TypeOK, ClientTypeOK
    <2>3. /\ torrent'[r].id = nextId
          /\ \A q \in Release : q # r => torrent'[q] = torrent[q]
      BY <2>1 DEF TypeOK, ClientTypeOK
    <2>4. \A q \in Release : Present(q) => torrent[q].id \in Nat
      BY DEF TypeOK, ClientTypeOK, Torrent, Present
    <2>5. /\ \A t \in todo : t.id \in Nat
          /\ \A i \in buried : i \in Nat
          /\ current # None => current.id \in Nat
      BY DEF TypeOK, RunnerTypeOK, GhostTypeOK, Listed
    <2>6. IdsInv'
      BY <2>2, <2>3, <2>4, <2>5 DEF FreshInv, IdsInv, Present
    <2>7. QueueFresh' /\ Gone' /\ NoSecondCopy'
      BY <2>2, <2>3, <2>4, <2>5 DEF FreshInv, IdsInv, QueueFresh, Gone, NoSecondCopy, Present
    <2> QED
      BY <2>6, <2>7 DEF FreshInv
  <1> QED
    BY <1>1, <1>2

LEMMA FreshRemoves ==
    ASSUME TypeOK, FreshInv, NEW id, ClientRemoves(id),
           todo' \subseteq todo, UNCHANGED buried,
           \/ UNCHANGED current
           \/ current' \in todo /\ current'.id = id
    PROVE  FreshInv'
  <1>1. \A r \in Release : Present(r)' => Present(r) /\ torrent'[r] = torrent[r] /\ torrent[r].id # id
    BY DEF ClientRemoves, Present, TypeOK, ClientTypeOK
  <1> QED
    BY <1>1 DEF FreshInv, IdsInv, QueueFresh, Gone, NoSecondCopy, ClientRemoves

LEMMA FreshKeeps ==
    ASSUME TypeOK, FreshInv, UNCHANGED client,
           todo' \subseteq todo, current' \in {current, None},
           \/ UNCHANGED buried
           \/ current # None /\ buried' = buried \cup {current.id}
    PROVE  FreshInv'
  BY DEF FreshInv, IdsInv, QueueFresh, Gone, NoSecondCopy, Present, client

LEMMA FreshHealth ==
    ASSUME TypeOK, FreshInv, NEW r \in Release, HealthChanges(r)
    PROVE  FreshInv'
  <1>1. /\ UNCHANGED <<nextId, todo, current, buried>>
        /\ \A q \in Release : Present(q)' <=> Present(q)
        /\ \A q \in Release : Present(q) =>
              torrent'[q].id = torrent[q].id /\ torrent'[q].added = torrent[q].added
    BY PurgeAssumption DEF HealthChanges, Present, TypeOK, ClientTypeOK, Torrent, runner, ghosts
  <1> QED
    BY <1>1 DEF FreshInv, IdsInv, QueueFresh, Gone, NoSecondCopy

LEMMA FreshInit == Init => FreshInv
  BY DEF Init, FreshInv, IdsInv, QueueFresh, Gone, NoSecondCopy, Present

LEMMA FreshStep == ~Renumbers /\ TypeOK /\ FreshInv /\ [Next]_vars => FreshInv'
  <1> SUFFICES ASSUME ~Renumbers, TypeOK, FreshInv, [Next]_vars PROVE FreshInv'
    OBVIOUS
  <1> USE DEF runner, ghosts
  <1>1. CASE ListingAnswered
    <2>1. UNCHANGED <<client, current, buried>>
      BY <1>1 DEF ListingAnswered
    <2>2. \A t \in todo' : Present(t.release) /\ t.release \in Release
                           /\ t.id = torrent[t.release].id /\ t.added = torrent[t.release].added
      BY <1>1 DEF ListingAnswered, AsListed
    <2> QED
      BY <2>1, <2>2 DEF FreshInv, IdsInv, QueueFresh, Gone, NoSecondCopy, Present, client
  <1>2. CASE Judge
    <2>1. todo' \subseteq todo
      BY <1>2 DEF Judge, NothingDead, PurgeSuspended, PurgeBegins, Candidates
    <2> QED
      BY <1>2, <2>1, FreshKeeps DEF Judge
  <1>3. ASSUME NEW t \in todo, PurgeRemoves(t) PROVE FreshInv'
    BY <1>3, FreshRemoves DEF PurgeRemoves
  <1>4. ASSUME NEW t \in todo, PurgeRemovalFails(t) PROVE FreshInv'
    <2>1. CASE ClientRemoves(t.id)
      BY <1>4, <2>1, FreshRemoves DEF PurgeRemovalFails
    <2>2. CASE UNCHANGED client
      BY <1>4, <2>2, FreshKeeps DEF PurgeRemovalFails
    <2> QED
      BY <1>4, <2>1, <2>2 DEF PurgeRemovalFails
  <1>5. CASE PurgeWrittenDown
    <2>1. current # None
      BY <1>5 DEF PurgeWrittenDown, TypeOK, RunnerTypeOK
    <2> QED
      BY <1>5, <2>1, FreshKeeps DEF PurgeWrittenDown
  <1>6. CASE SurveillanceAdds \/ SurveillanceAddFails
    <2>1. pick \in Release /\ UNCHANGED <<todo, current, buried>>
      BY <1>6 DEF SurveillanceAdds, SurveillanceAddFails, TypeOK, RunnerTypeOK
    <2>2. CASE ClientAdds(pick)
      BY <2>1, <2>2, FreshAdds
    <2>3. CASE UNCHANGED client
      BY <2>1, <2>3, FreshKeeps
    <2> QED
      BY <1>6, <2>2, <2>3 DEF SurveillanceAdds, SurveillanceAddFails
  <1>7. ASSUME NEW s \in Sender, SenderAdds(s) \/ SenderAddFails(s) PROVE FreshInv'
    <2>1. sender[s].release \in Release /\ UNCHANGED <<todo, current, buried>>
      BY <1>7 DEF SenderAdds, SenderAddFails, TypeOK, SenderTypeOK
    <2>2. CASE ClientAdds(sender[s].release)
      BY <2>1, <2>2, FreshAdds
    <2>3. CASE UNCHANGED client
      BY <2>1, <2>3, FreshKeeps
    <2> QED
      BY <1>7, <2>2, <2>3 DEF SenderAdds, SenderAddFails
  <1>8. CASE ClientSteps
    <2>1. ASSUME NEW r \in Release, HealthChanges(r) PROVE FreshInv'
      BY <2>1, FreshHealth
    <2>2. ASSUME NEW r \in HandReleases, HandAdds(r) PROVE FreshInv'
      BY <2>2, FreshAdds, PurgeAssumption DEF HandAdds
    <2>3. ASSUME NEW r \in HandReleases, HandRemoves(r) PROVE FreshInv'
      BY <2>3, FreshRemoves DEF HandRemoves
    <2> QED
      BY <1>8, <2>1, <2>2, <2>3 DEF ClientSteps, ClientRestarts
  <1>9. CASE Restart
    BY <1>9, FreshKeeps DEF Restart
  <1>10. CASE UNCHANGED <<client, todo, current, buried>>
    BY <1>10, FreshKeeps
  <1>11. CASE Tick \/ CycleStarts \/ ListingFails \/ PurgeEnds
    BY <1>10, <1>11 DEF Tick, CycleStarts, ListingFails, PurgeEnds
  <1>12. CASE HuntSteps
    BY <1>6, <1>10, <1>12 DEF HuntSteps, SurveillanceSelects, SavedSearchSelects,
                                SurveillanceRecords, CycleEnds
  <1>13. CASE SenderSteps
    BY <1>7, <1>10, <1>13 DEF SenderSteps, SenderPlans, SenderRecords
  <1>14. CASE PageSteps
    BY <1>10, <1>14 DEF PageSteps, Watch, Unwatch, Unblacklist, ToggleMonitor
  <1>15. CASE UNCHANGED vars
    BY <1>10, <1>15 DEF vars
  <1> QED
    BY <1>1, <1>2, <1>3, <1>4, <1>5, <1>8, <1>9, <1>11, <1>12, <1>13, <1>14, <1>15
    DEF Next, PurgeSteps

(* The library is freed for a new hunt only when the dead torrent has left *)
(* Transmission: a failed removal never ends in a second copy.             *)
THEOREM NoSecondCopyCorrect ==
    ASSUME ~Renumbers
    PROVE  Spec => []NoSecondCopy
  <1>1. FreshInv => NoSecondCopy
    BY DEF FreshInv
  <1>2. TypeOK /\ FreshInv /\ [Next]_vars => FreshInv'
    BY FreshStep
  <1> QED
    BY <1>1, <1>2, FreshInit, TypeCorrect, PTL DEF Spec

(* An automatic record, and the history a restart would rebuild it from,   *)
(* carry a moment the surveillance sent that very release.                 *)
AutoInv ==
    /\ \A r \in Release : registry[r] # None /\ registry[r].origin = AUTO
                            => registry[r].added_at \in sentAt[r]
    /\ \A h \in history : Hashed(h) => h.at \in sentAt[h.release]

(* What is queued for removal was judged old enough and the surveillance's *)
JudgedInv ==
    pc \in {"purging", "removed"} =>
        \A t \in todo : /\ t.added + Grace <= clock
                        /\ \E a \in sentAt[t.release] : Near(t.added, a)

OwnInv == AutoInv /\ JudgedInv

LEMMA OwnInit == Init => OwnInv
  BY DEF Init, OwnInv, AutoInv, JudgedInv

(* Time passes, records only grow and the queue only shrinks.              *)
LEMMA JudgedKeeps ==
    ASSUME TypeOK, JudgedInv, clock' \in {clock, clock + 1},
           \A r \in Release : sentAt[r] \subseteq sentAt'[r],
           todo' \subseteq todo,
           pc' \in {"purging", "removed"} => pc \in {"purging", "removed"} \/ todo' = {}
    PROVE  JudgedInv'
  <1> SUFFICES ASSUME pc' \in {"purging", "removed"}, NEW t \in todo'
               PROVE  /\ t.added + Grace <= clock'
                      /\ \E a \in sentAt'[t.release] : Near(t.added, a)
    BY DEF JudgedInv, Near
  <1>1. t \in todo /\ pc \in {"purging", "removed"}
    OBVIOUS
  <1>2. t.release \in Release /\ t.added \in Nat /\ clock \in Nat
    BY <1>1 DEF TypeOK, RunnerTypeOK, ClientTypeOK, Listed
  <1>3. t.added + Grace <= clock /\ \E a \in sentAt[t.release] : Near(t.added, a)
    BY <1>1 DEF JudgedInv
  <1> QED
    BY <1>2, <1>3, PurgeAssumption

(* A record the surveillance writes is one it sent at that very moment.    *)
LEMMA AutoRecords ==
    ASSUME TypeOK, AutoInv, SurveillanceRecords
    PROVE  AutoInv'
  <1>1. pick \in Release
    BY DEF SurveillanceRecords, TypeOK, RunnerTypeOK
  <1>2. sentAt \in [Release -> SUBSET Nat]
    BY DEF TypeOK, GhostTypeOK
  <1>3. sentAt' = [sentAt EXCEPT ![pick] = @ \cup {clock}]
    BY DEF SurveillanceRecords
  <1>4. (\A r \in Release : sentAt[r] \subseteq sentAt'[r]) /\ clock \in sentAt'[pick]
    BY <1>1, <1>2, <1>3
  <1>5. \A r \in Release :
           \/ registry'[r] = registry[r]
           \/ r = pick /\ registry'[r] = [origin |-> AUTO, added_at |-> clock]
    BY <1>1 DEF SurveillanceRecords, Recorded, TypeOK, StoresTypeOK
  <1>6. \A h \in history' : h \in history \/ (h.release = pick /\ h.at = clock)
    BY DEF SurveillanceRecords
  <1>7. \A h \in history : h.release \in Release
    BY DEF TypeOK, StoresTypeOK, HistoryRecord
  <1> QED
    BY <1>4, <1>5, <1>6, <1>7 DEF AutoInv, Hashed

(* A manual send writes no automatic record and no tracker's history.      *)
LEMMA AutoSender ==
    ASSUME TypeOK, AutoInv, NEW s \in Sender, SenderRecords(s)
    PROVE  AutoInv'
  <1>1. sender[s].release \in Release
    BY DEF SenderRecords, TypeOK, SenderTypeOK
  <1>2. \A r \in Release : registry'[r] = registry[r] \/ registry'[r].origin = MANUAL
    BY <1>1 DEF SenderRecords, Recorded, TypeOK, StoresTypeOK
  <1>3. \A h \in history' : h \in history \/ h.source = "manuel"
    BY DEF SenderRecords
  <1>4. UNCHANGED sentAt
    BY DEF SenderRecords, ghosts
  <1> QED
    BY <1>2, <1>3, <1>4 DEF AutoInv, Hashed, AUTO, MANUAL

LEMMA AutoRestart ==
    ASSUME TypeOK, AutoInv, Restart
    PROVE  AutoInv'
  <1>1. \A r \in Release : registry'[r] = registry[r] \/ registry'[r] = Seeded[r]
    BY DEF Restart, SeedFromHistory
  <1>2. ASSUME NEW r \in Release, Seeded[r] # None
        PROVE  Seeded[r].added_at \in sentAt[r]
    <2>1. Seeded[r].added_at \in GrabTimes(r)
      BY <1>2, SeededTimes DEF TypeOK
    <2> QED
      BY <2>1 DEF GrabTimes, AutoInv
  <1> QED
    BY <1>1, <1>2 DEF AutoInv, Restart, Hashed

LEMMA AutoKeeps ==
    ASSUME TypeOK, AutoInv, UNCHANGED sentAt, history' \subseteq history,
           \A r \in Release : registry'[r] \in {registry[r], None}
    PROVE  AutoInv'
  BY DEF AutoInv, Hashed

LEMMA OwnStep == TypeOK /\ OwnInv /\ [Next]_vars => OwnInv'
  <1> SUFFICES ASSUME TypeOK, OwnInv, [Next]_vars PROVE OwnInv'
    OBVIOUS
  <1> USE DEF stores, runner, ghosts
  <1>1. CASE Judge
    <2>1. UNCHANGED <<clock, registry, history, sentAt>> /\ todo' \subseteq Candidates
      BY <1>1 DEF Judge, NothingDead, PurgeSuspended, PurgeBegins
    <2>2. ASSUME NEW t \in Candidates
          PROVE  t.added + Grace <= clock /\ \E a \in sentAt[t.release] : Near(t.added, a)
      <3>1. SentBySurveillance(t) /\ Judgeable(t, clock) /\ t.release \in Release
        BY <2>2 DEF Candidates, PurgeReason, TypeOK, RunnerTypeOK, Listed
      <3>2. registry[t.release].added_at \in sentAt[t.release]
        BY <3>1 DEF SentBySurveillance, OwnInv, AutoInv
      <3> QED
        BY <3>1, <3>2 DEF SentBySurveillance, Judgeable
    <2> QED
      BY <2>1, <2>2, AutoKeeps DEF OwnInv, JudgedInv, Near
  <1>2. CASE SurveillanceRecords
    <2>1. AutoInv'
      BY <1>2, AutoRecords DEF OwnInv
    <2>2. pick \in Release
      BY <1>2 DEF SurveillanceRecords, TypeOK, RunnerTypeOK
    <2>3. JudgedInv'
      BY <1>2, <2>2, JudgedKeeps DEF OwnInv, SurveillanceRecords, TypeOK, GhostTypeOK
    <2> QED
      BY <2>1, <2>3 DEF OwnInv
  <1>3. CASE \E s \in Sender : SenderRecords(s)
    <2>1. AutoInv'
      BY <1>3, AutoSender DEF OwnInv
    <2>2. JudgedInv'
      BY <1>3, JudgedKeeps DEF OwnInv, SenderRecords
    <2> QED
      BY <2>1, <2>2 DEF OwnInv
  <1>4. CASE Restart
    <2>1. AutoInv'
      BY <1>4, AutoRestart DEF OwnInv
    <2>2. JudgedInv'
      BY <1>4 DEF Restart, JudgedInv
    <2> QED
      BY <2>1, <2>2 DEF OwnInv
  <1>5. CASE /\ UNCHANGED sentAt
             /\ history' \subseteq history
             /\ \A r \in Release : registry'[r] \in {registry[r], None}
             /\ clock' \in {clock, clock + 1}
             /\ todo' \subseteq todo \/ pc' = "listed"
             /\ pc' \in {"purging", "removed"} => pc \in {"purging", "removed"}
    <2>1. AutoInv'
      BY <1>5, AutoKeeps DEF OwnInv
    <2>2. CASE pc' = "listed"
      BY <2>1, <2>2 DEF OwnInv, JudgedInv
    <2>3. CASE pc' # "listed"
      BY <1>5, <2>1, <2>3, JudgedKeeps DEF OwnInv
    <2> QED
      BY <2>2, <2>3
  <1>6. CASE PurgeSteps /\ ~Judge
    <2>1. CASE PurgeWrittenDown
      <3>1. \A r \in Release : registry'[r] \in {registry[r], None}
        BY <2>1 DEF PurgeWrittenDown, TypeOK, StoresTypeOK
      <3> QED
        BY <1>5, <2>1, <3>1 DEF PurgeWrittenDown
    <2>2. CASE ~PurgeWrittenDown
      BY <1>5, <1>6, <2>2 DEF PurgeSteps, ListingAnswered, ListingFails, PurgeRemoves,
                              PurgeRemovalFails, PurgeEnds
    <2> QED
      BY <2>1, <2>2
  <1>7. CASE Tick \/ CycleStarts \/ HuntSteps
    BY <1>2, <1>5, <1>7 DEF Tick, CycleStarts, HuntSteps, SurveillanceSelects, SavedSearchSelects,
                          SurveillanceAdds,
                            SurveillanceAddFails, CycleEnds
  <1>8. CASE SenderSteps
    BY <1>3, <1>5, <1>8 DEF SenderSteps, SenderPlans, SenderAdds, SenderAddFails
  <1>9. CASE ClientSteps \/ PageSteps
    BY <1>5, <1>9 DEF ClientSteps, HealthChanges, HandAdds, HandRemoves, ClientRestarts,
                      PageSteps, Watch, Unwatch, Unblacklist, ToggleMonitor
  <1>10. CASE UNCHANGED vars
    BY <1>5, <1>10 DEF vars
  <1> QED
    BY <1>1, <1>4, <1>6, <1>7, <1>8, <1>9, <1>10 DEF Next

(* While ids are given once, whatever users remove, add again or send      *)
(* between the listing and the removal, the purge deletes only torrents    *)
(* past the grace period, added when the surveillance sent that release.   *)
THEOREM DeletesOnlyOwnOldCorrect ==
    ASSUME ~Renumbers
    PROVE  Spec => DeletesOnlyOwnOld
  <1> DEFINE Own == \A r \in Release : PurgeDeletion(r) =>
                      /\ torrent[r].added + Grace <= clock
                      /\ \E a \in sentAt[r] : Near(torrent[r].added, a)
  <1>1. TypeOK /\ FreshInv /\ OwnInv /\ [Next]_vars => Own
    <2> SUFFICES ASSUME TypeOK, FreshInv, OwnInv, [Next]_vars,
                        NEW r \in Release, PurgeDeletion(r)
                 PROVE  /\ torrent[r].added + Grace <= clock
                        /\ \E a \in sentAt[r] : Near(torrent[r].added, a)
      OBVIOUS
    <2>1. Present(r) /\ torrent'[r] = None /\ todo' # todo
      BY DEF PurgeDeletion
    <2>2. \E t \in todo : pc = "purging" /\ ClientRemoves(t.id)
      <3> USE DEF client, runner, Present
      <3>1. CASE PurgeSteps
        BY <2>1, <3>1 DEF PurgeSteps, ListingAnswered, ListingFails, Judge, PurgeRemoves,
                          PurgeRemovalFails, PurgeWrittenDown, PurgeEnds
      <3>2. CASE Tick \/ CycleStarts \/ HuntSteps \/ SenderSteps
        BY <2>1, <3>2 DEF Tick, CycleStarts, HuntSteps, SurveillanceSelects, SavedSearchSelects,
                          SurveillanceAdds,
                          SurveillanceAddFails, SurveillanceRecords, CycleEnds, SenderSteps,
                          SenderPlans, SenderAdds, SenderAddFails, SenderRecords
      <3>3. CASE ClientSteps \/ PageSteps \/ Restart
        BY <2>1, <3>3 DEF ClientSteps, HealthChanges, HandAdds, HandRemoves, ClientRestarts,
                          PageSteps, Watch, Unwatch, Unblacklist, ToggleMonitor, Restart
      <3> QED
        BY <2>1, <3>1, <3>2, <3>3 DEF Next, vars
    <2>3. PICK t \in todo : pc = "purging" /\ ClientRemoves(t.id)
      BY <2>2
    <2>4. torrent[r].id = t.id
      BY <2>1, <2>3 DEF ClientRemoves, Present
    <2>5. r = t.release /\ t.added = torrent[r].added
      BY <2>1, <2>4 DEF FreshInv, QueueFresh
    <2> QED
      BY <2>3, <2>5 DEF OwnInv, JudgedInv
  <1>2. TypeOK /\ FreshInv /\ OwnInv /\ [Next]_vars => [Own]_vars
    BY <1>1
  <1>3. TypeOK /\ FreshInv /\ [Next]_vars => FreshInv'
    BY FreshStep
  <1> QED
    BY <1>2, <1>3, FreshInit, OwnInit, OwnStep, TypeCorrect, PTL DEF Spec, DeletesOnlyOwnOld

(***************************************************************************)
(* The blacklist. What keeps a purged release out of a hunt is the pair of *)
(* keys the purge writes: they must outlive everything but a pardon.       *)
(***************************************************************************)

KeysKept == \A r \in condemned : r \in badHash /\ NameOf[r] \in badTitle

BlacklistInv == KeysKept /\ NeverRegrabsPurged

LEMMA BlacklistInit == Init => BlacklistInv
  BY DEF Init, BlacklistInv, KeysKept, NeverRegrabsPurged

(* Steps that write nothing in the blacklist and take no release up.       *)
LEMMA BlacklistKeeps ==
    ASSUME BlacklistInv, UNCHANGED <<badHash, badTitle, condemned>>,
           pc' \in {"adding", "added"} => pc \in {"adding", "added"} /\ pick' = pick
    PROVE  BlacklistInv'
  BY DEF BlacklistInv, KeysKept, NeverRegrabsPurged, Recognisable

(* A purged release the tracker lets one recognise is blacklisted.         *)
LEMMA CondemnedBlacklisted ==
    ASSUME KeysKept, NEW r \in condemned, Recognisable(r)
    PROVE  IsBlacklisted(r)
  BY DEF KeysKept, Recognisable, IsBlacklisted

LEMMA BlacklistStep == TypeOK /\ BlacklistInv /\ [Next]_vars => BlacklistInv'
  <1> SUFFICES ASSUME TypeOK, BlacklistInv, [Next]_vars PROVE BlacklistInv'
    OBVIOUS
  <1> USE DEF stores, runner, ghosts
  <1>1. CASE PurgeWrittenDown
    <2>1. KeysKept'
      BY <1>1 DEF PurgeWrittenDown, BlacklistInv, KeysKept
    <2>2. pc' = "purging"
      BY <1>1 DEF PurgeWrittenDown
    <2> QED
      BY <2>1, <2>2 DEF BlacklistInv, NeverRegrabsPurged
  <1>2. ASSUME NEW r \in PardonReleases, Unblacklist(r) PROVE BlacklistInv'
    <2>1. KeysKept'
      BY <1>2 DEF Unblacklist, BlacklistInv, KeysKept
    <2>2. condemned' \subseteq condemned /\ pc' = pc /\ pick' = pick
      BY <1>2 DEF Unblacklist
    <2> QED
      BY <2>1, <2>2 DEF BlacklistInv, NeverRegrabsPurged, Recognisable
  <1>3. ASSUME NEW r \in Release, SurveillanceSelects(r) PROVE BlacklistInv'
    <2>1. ~IsBlacklisted(r) /\ pick' = r /\ UNCHANGED <<badHash, badTitle, condemned>>
      BY <1>3 DEF SurveillanceSelects
    <2>2. r \in condemned => ~Recognisable(r)
      BY <2>1, CondemnedBlacklisted DEF BlacklistInv
    <2>3. Recognisable(pick)' <=> Recognisable(r)
      BY <2>1 DEF Recognisable
    <2> QED
      BY <2>1, <2>2, <2>3 DEF BlacklistInv, KeysKept, NeverRegrabsPurged
  <1>4. CASE PurgeSteps /\ ~PurgeWrittenDown
    BY <1>4, BlacklistKeeps
    DEF PurgeSteps, ListingAnswered, ListingFails, Judge, NothingDead, PurgeSuspended,
        PurgeBegins, PurgeRemoves, PurgeRemovalFails, PurgeEnds
  <1>5. CASE Tick \/ CycleStarts
    BY <1>5, BlacklistKeeps DEF Tick, CycleStarts
  <1>6. CASE HuntSteps
    BY <1>3, <1>6, BlacklistKeeps
    DEF HuntSteps, SavedSearchSelects, SurveillanceAdds, SurveillanceAddFails,
        SurveillanceRecords, CycleEnds
  <1>7. CASE SenderSteps
    BY <1>7, BlacklistKeeps
    DEF SenderSteps, SenderPlans, SenderAdds, SenderAddFails, SenderRecords
  <1>8. CASE ClientSteps
    BY <1>8, BlacklistKeeps DEF ClientSteps, HealthChanges, HandAdds, HandRemoves, ClientRestarts
  <1>9. CASE PageSteps
    BY <1>2, <1>9, BlacklistKeeps DEF PageSteps, Watch, Unwatch, ToggleMonitor
  <1>10. CASE Restart
    BY <1>10, BlacklistKeeps DEF Restart
  <1>11. CASE UNCHANGED vars
    BY <1>11, BlacklistKeeps DEF vars
  <1> QED
    BY <1>1, <1>4, <1>5, <1>6, <1>7, <1>8, <1>9, <1>10, <1>11 DEF Next

(* The surveillance never adds again what it purged and nobody pardoned,   *)
(* when the tracker gives the infohash or the title of the torrent: across *)
(* restarts, manual sends and pardons of other releases.                   *)
THEOREM NeverRegrabsPurgedCorrect == Spec => []NeverRegrabsPurged
  <1>1. BlacklistInv => NeverRegrabsPurged
    BY DEF BlacklistInv
  <1> QED
    BY <1>1, BlacklistInit, BlacklistStep, TypeCorrect, PTL DEF Spec

=============================================================================
