--------------------------- MODULE MovieHuntProofs ---------------------------
(***************************************************************************)
(* What the hunt for movies promises for every set of movies and releases, *)
(* every profile, interval and bound.                                      *)
(***************************************************************************)
EXTENDS MovieHunt, TLAPS

(* What the assumption says of the constants the types mention.            *)
LEMMA Constants ==
    /\ MovieOf \in [Release -> Movie] /\ HandReleases \subseteq Release /\ Calls \subseteq Call
    /\ MaxEdits \in Nat /\ Horizon \in Nat /\ 0 \in Age
    /\ None \notin Movie /\ None \notin Release /\ None \notin WantedMovie
    /\ None \notin Mark /\ None \notin Call
  BY MovieHuntAssumption DEF Age

Choosing == {"searching", "topping up", "adding", "recording"}

(***************************************************************************)
(* Types.                                                                  *)
(***************************************************************************)

(* Only what has been grabbed is replaced.                                 *)
ReplacesGrabbed == pc \in Choosing /\ mode # "hunt" => Grabbed(current)

TypeInv == TypeOK /\ ReplacesGrabbed

(* What mark_grabbed does, the type of the library being kept.             *)
LEMMA MarkGrabbedTyped ==
    ASSUME library \in [Movie -> WantedMovie \cup {None}], NEW m \in Movie, NEW r \in Release
    PROVE  /\ MarkGrabbed(m, r) \in [Movie -> WantedMovie \cup {None}]
           /\ library[m] = None => MarkGrabbed(m, r)[m] = None
           /\ library[m] # None => /\ MarkGrabbed(m, r)[m] # None
                                  /\ MarkGrabbed(m, r)[m].release = r
                                  /\ MarkGrabbed(m, r)[m].since = 0
           /\ \A n \in Movie \ {m} : MarkGrabbed(m, r)[n] = library[n]
  <1> DEFINE marked == IF library[m] = None THEN None
                       ELSE [library[m] EXCEPT !.release = r, !.since = 0]
  <1>1. MarkGrabbed(m, r) = [library EXCEPT ![m] = marked]
    BY DEF MarkGrabbed
  <1>2. library[m] # None => /\ marked \in WantedMovie
                            /\ marked.release = r /\ marked.since = 0
    <2> SUFFICES ASSUME library[m] # None
                 PROVE  /\ marked \in WantedMovie
                        /\ marked.release = r /\ marked.since = 0
      OBVIOUS
    <2>1. library[m] \in WantedMovie /\ 0 \in Age
      BY MovieHuntAssumption DEF Age
    <2>2. marked = [library[m] EXCEPT !.release = r, !.since = 0]
      OBVIOUS
    <2>3. marked = [release |-> r, since |-> 0, added |-> library[m].added]
      BY <2>1, <2>2 DEF WantedMovie
    <2> QED
      BY <2>1, <2>3 DEF WantedMovie
  <1>3. WantedMovie \cap {None} = {}
    BY MovieHuntAssumption
  <1> QED
    BY <1>1, <1>2, <1>3

(* What is chosen is for the movie, and better than what it replaces.      *)
LEMMA ChoicesSound ==
    ASSUME NEW m \in Movie, NEW why, NEW results \in SUBSET Release, NEW banned,
           NEW r \in Choices(m, why, results, banned)
    PROVE  /\ r \in Release /\ MovieOf[r] = m
           /\ why = "upgrade" => Better(r, snapshot[m].release)
  BY DEF Choices, Best, Acceptable

(* A decision leaves the movie, or goes on to add what is chosen.          *)
LEMMA DecideCases ==
    ASSUME NEW m \in Movie, NEW why, NEW results \in SUBSET Release, NEW banned,
           Decide(m, why, results, banned)
    PROVE  \/ Leaves(m)
           \/ /\ pc' = "adding" /\ current' = m /\ mode' = why
              /\ todo' = todo /\ snapshot' = snapshot
              /\ pick' \in Release /\ MovieOf[pick'] = m
              /\ why = "upgrade" => Better(pick', snapshot[m].release)
  BY ChoicesSound DEF Decide

LEMMA TypeInit == Init => TypeInv
  <1>1. 0 \in Age
    BY Constants DEF Age
  <1> QED
    BY <1>1, Constants
    DEF Init, TypeInv, TypeOK, StoresTypeOK, WorldTypeOK, PassTypeOK, TurnTypeOK, GhostTypeOK, ReplacesGrabbed, Choosing, NewEntry, WantedMovie, Call

(* Getting older stays within the horizon, and keeps the order.            *)
LEMMA OlderTyped ==
    /\ \A a \in Age : Older(a) \in Age
    /\ \A a, b \in Age : a <= b => Older(a) <= Older(b)
  BY Constants DEF Age, Older

(* The type facts a step on m may rely on.                                 *)
LEMMA TurnTyped ==
    ASSUME TypeInv, NEW m \in Movie, Turn(m)
    PROVE  snapshot[m] \in WantedMovie
  BY DEF TypeInv, TypeOK, StoresTypeOK, WorldTypeOK, PassTypeOK, TurnTypeOK, GhostTypeOK, Turn

(* What a step on a movie leaves alone, or writes in its type.             *)
StepTyped ==
    /\ UNCHANGED <<library, hand, world, call, owned, names, removed, edits, stayed, hunted, replaced>>
    /\ blacklist' \subseteq Release /\ searched' \in [Movie -> Mark \cup {None}]

LEMMA StepTypedKeeps ==
    ASSUME TypeInv, StepTyped
    PROVE  StoresTypeOK' /\ WorldTypeOK' /\ GhostTypeOK'
  BY DEF StepTyped, TypeInv, TypeOK, StoresTypeOK, WorldTypeOK, GhostTypeOK, world

(* Leaving a movie keeps the types.                                        *)
LEMMA LeavesTyped ==
    ASSUME TypeInv, NEW m \in Movie, Leaves(m), call # None, StepTyped
    PROVE  TypeInv'
  <1>1. PassTypeOK'
    BY Constants DEF StepTyped, Leaves, TypeInv, TypeOK, PassTypeOK, TurnTypeOK, names
  <1>2. TurnTypeOK' /\ ReplacesGrabbed'
    BY DEF Leaves, TurnTypeOK, ReplacesGrabbed, Choosing
  <1> QED
    BY <1>1, <1>2, StepTypedKeeps DEF TypeInv, TypeOK

(* Going on with a movie keeps them too.                                   *)
LEMMA GoesOnTyped ==
    ASSUME TypeInv, NEW m \in Movie, m \in todo, call # None, StepTyped,
           pc' \in {"searching", "topping up", "adding"}, current' = m,
           UNCHANGED <<todo, snapshot>>,
           mode' \in {"hunt", "upgrade", "repack"}, mode' = "repack" => pc' = "adding",
           mode' # "hunt" => snapshot[m].release # None,
           pick' \in Release \cup {None},
           pc' = "adding" => pick' \in Release /\ MovieOf[pick'] = m
    PROVE  TypeInv'
  <1>1. PassTypeOK'
    BY Constants DEF StepTyped, TypeInv, TypeOK, PassTypeOK, TurnTypeOK, names
  <1>2. TurnTypeOK'
    <2>1. pick' \in Release => pick' # None
      BY Constants
    <2> QED
      BY <2>1 DEF TurnTypeOK, StepTyped
  <1>3. ReplacesGrabbed'
    BY DEF ReplacesGrabbed, Choosing, Grabbed
  <1> QED
    BY <1>1, <1>2, <1>3, StepTypedKeeps DEF TypeInv, TypeOK

(* The steps of a pass up to a decision.                                   *)
LEMMA TypePass ==
    ASSUME TypeInv,
           PassStarts \/ OwnedAnswered \/ OwnedFails \/ ListingAnswered \/ ListingFails \/ PassEnds
    PROVE  TypeInv'
  <1> USE Constants
  <1> USE DEF TypeInv, TypeOK, StoresTypeOK, WorldTypeOK, PassTypeOK, TurnTypeOK, GhostTypeOK, ReplacesGrabbed, Choosing, Grabbed, stores, world, names, ghosts
  <1>1. CASE PassStarts
    BY <1>1 DEF PassStarts
  <1>2. CASE OwnedAnswered \/ OwnedFails
    BY <1>2 DEF OwnedAnswered, OwnedFails, MoviesListed, ToLookAt, Watched
  <1>3. CASE ListingAnswered \/ ListingFails
    BY <1>3 DEF ListingAnswered, ListingFails, Listed
  <1>4. CASE PassEnds
    BY <1>4 DEF PassEnds, PassOver
  <1> QED
    BY <1>1, <1>2, <1>3, <1>4

LEMMA TypeTurn ==
    ASSUME TypeInv, NEW m \in Movie, ListingAsked(m) \/ Skip(m) \/ TakeRepack(m)
    PROVE  TypeInv'
  <1> USE Constants
  <1> USE DEF TypeInv, TypeOK, StoresTypeOK, WorldTypeOK, PassTypeOK, TurnTypeOK, GhostTypeOK, ReplacesGrabbed, Choosing, Grabbed, stores, world, names, ghosts
  <1>1. CASE ListingAsked(m)
    BY <1>1 DEF ListingAsked, Turn
  <1>2. CASE Skip(m)
    BY <1>2 DEF Skip, Judged, Turn, Leaves
  <1>3. CASE TakeRepack(m)
    <2>1. pc = "next" /\ m \in todo /\ call # None /\ call \in Call
      BY <1>3 DEF TakeRepack, Judged, Turn
    <2>2. pick' \in Release /\ MovieOf[pick'] = m
      BY <1>3, <2>1 DEF TakeRepack, Repacks, Acceptable, Call
    <2>3. snapshot[m].release # None /\ StepTyped
      BY <1>3 DEF TakeRepack, WantsRepack, StepTyped
    <2>4. pc' = "adding" /\ mode' = "repack" /\ current' = m /\ UNCHANGED <<todo, snapshot>>
      BY <1>3 DEF TakeRepack
    <2> HIDE DEF TypeInv
    <2> QED
      BY <2>1, <2>2, <2>3, <2>4, GoesOnTyped
  <1> QED
    BY <1>1, <1>2, <1>3

LEMMA TypeSearch ==
    ASSUME TypeInv, NEW m \in Movie, Search(m)
    PROVE  TypeInv'
  <1> USE Constants
  <1> DEFINE why == IF Needs(m) THEN "hunt" ELSE "upgrade"
             banned == IF Needs(m) /\ Grabbed(m) THEN blacklist \cup {snapshot[m].release}
                                                 ELSE blacklist
  <1>1. /\ Judged(m) /\ (Needs(m) \/ WantsUpgrade(m))
        /\ blacklist' = banned
        /\ \/ /\ pc' \in {"searching", "topping up"} /\ current' = m /\ mode' = why
              /\ UNCHANGED <<todo, snapshot, pick>>
           \/ Decide(m, why, call.feed, banned)
        /\ UNCHANGED <<library, searched, world, hand, call, owned, names, removed, edits, ghosts>>
    BY DEF Search
  <1>2. /\ m \in todo /\ snapshot[m] \in WantedMovie /\ call # None /\ call \in Call
    BY <1>1, TurnTyped DEF Judged, Turn, TypeInv, TypeOK, StoresTypeOK, WorldTypeOK, PassTypeOK, TurnTypeOK, GhostTypeOK
  <1>3. banned \subseteq Release
    BY <1>2 DEF Grabbed, WantedMovie, TypeInv, TypeOK, StoresTypeOK, WorldTypeOK, PassTypeOK, TurnTypeOK, GhostTypeOK
  <1>4. why # "hunt" => snapshot[m].release # None
    BY <1>1 DEF WantsUpgrade, Grabbed
  <1>5. call.feed \in SUBSET Release
    BY <1>2 DEF Call
  <1> HIDE DEF why, banned
  <1>6. why \in {"hunt", "upgrade"}
    BY DEF why
  <1>9. StepTyped
    BY <1>1, <1>3 DEF StepTyped, TypeInv, TypeOK, StoresTypeOK, names, ghosts
  <1>7. CASE Leaves(m)
    BY <1>2, <1>7, <1>9, LeavesTyped
  <1>8. CASE ~Leaves(m)
    <2>1. /\ pc' \in {"searching", "topping up", "adding"} /\ current' = m /\ mode' = why
          /\ todo' = todo /\ snapshot' = snapshot
          /\ pick' \in Release \cup {None}
          /\ pc' = "adding" => pick' \in Release /\ MovieOf[pick'] = m
      BY <1>1, <1>5, <1>8, DecideCases DEF TypeInv, TypeOK, TurnTypeOK
    <2> QED
      BY <1>2, <1>4, <1>6, <1>9, <2>1, GoesOnTyped
  <1> QED
    BY <1>7, <1>8

(* A search answered: the mark is of its type, and so is the decision.     *)
LEMMA TypeAnswers ==
    ASSUME TypeInv, NEW results \in SUBSET Release, NEW reached \in BOOLEAN,
           SearchAnswered(results, reached) \/ FallbackAnswered(results)
    PROVE  TypeInv'
  <1> USE Constants
  <1>1. /\ pc \in {"searching", "topping up"}
        /\ current \in Movie /\ current \in todo /\ snapshot[current] \in WantedMovie
        /\ call # None /\ call \in Call
        /\ mode \in {"hunt", "upgrade"} /\ (mode # "hunt" => snapshot[current].release # None)
    BY DEF SearchAnswered, FallbackAnswered, TypeInv, TypeOK, StoresTypeOK, WorldTypeOK, PassTypeOK, TurnTypeOK, GhostTypeOK, ReplacesGrabbed, Choosing, Grabbed
  <1>2. searched' \in [Movie -> Mark \cup {None}]
    <2>1. CASE SearchAnswered(results, reached)
      <3>1. [age |-> 0, sig |-> snapshot[current].release] \in Mark
        BY <1>1 DEF Mark, Age, WantedMovie
      <3> QED
        BY <2>1, <3>1 DEF SearchAnswered, TypeInv, TypeOK, StoresTypeOK, WorldTypeOK, PassTypeOK, TurnTypeOK, GhostTypeOK
    <2>2. CASE FallbackAnswered(results)
      BY <2>2 DEF FallbackAnswered, stores, TypeInv, TypeOK, StoresTypeOK, WorldTypeOK, PassTypeOK, TurnTypeOK, GhostTypeOK
    <2> QED
      BY <2>1, <2>2
  <1>3. /\ \E found \in SUBSET Release : Decide(current, mode, found, blacklist)
        /\ UNCHANGED <<library, blacklist, world, hand, call, owned, names, removed, edits, ghosts>>
    <2>1. call.feed \cup results \in SUBSET Release
      BY <1>1 DEF Call
    <2> QED
      BY <2>1 DEF SearchAnswered, FallbackAnswered, stores
  <1>6. StepTyped
    BY <1>2, <1>3 DEF StepTyped, TypeInv, TypeOK, StoresTypeOK, names, ghosts
  <1>4. CASE Leaves(current)
    BY <1>1, <1>4, <1>6, LeavesTyped
  <1>5. CASE ~Leaves(current)
    <2>1. /\ pc' = "adding" /\ current' = current /\ mode' = mode
          /\ todo' = todo /\ snapshot' = snapshot
          /\ pick' \in Release /\ MovieOf[pick'] = current
      BY <1>1, <1>3, <1>5, DecideCases
    <2> QED
      BY <1>1, <1>6, <2>1, GoesOnTyped
  <1> QED
    BY <1>4, <1>5

(* The add and what is written of it.                                      *)
LEMMA TypeAdds ==
    ASSUME TypeInv, MovieAdds \/ MovieAddFails \/ MovieRecords \/ Told
    PROVE  TypeInv'
  <1> USE Constants
  <1>1. CASE MovieAdds
    BY <1>1 DEF MovieAdds, TypeInv, TypeOK, StoresTypeOK, WorldTypeOK, PassTypeOK, TurnTypeOK, GhostTypeOK, ReplacesGrabbed, Choosing, Grabbed, stores, names, ghosts
  <1>2. CASE MovieAddFails
    BY <1>2 DEF MovieAddFails, Leaves, TypeInv, TypeOK, StoresTypeOK, WorldTypeOK, PassTypeOK, TurnTypeOK, GhostTypeOK, ReplacesGrabbed, Choosing, stores, names, ghosts
  <1>3. CASE MovieRecords
    <2>1. current \in Movie /\ pick \in Release /\ snapshot[current] \in WantedMovie
      BY <1>3 DEF MovieRecords, TypeInv, TypeOK, StoresTypeOK, WorldTypeOK, PassTypeOK, TurnTypeOK, GhostTypeOK
    <2>2. library' \in [Movie -> WantedMovie \cup {None}]
      BY <1>3, <2>1, MarkGrabbedTyped DEF MovieRecords, TypeInv, TypeOK, StoresTypeOK, WorldTypeOK, PassTypeOK, TurnTypeOK, GhostTypeOK
    <2>3. mode # "hunt" => snapshot[current].release \in Release
      BY <1>3, <2>1 DEF MovieRecords, TypeInv, ReplacesGrabbed, Choosing, Grabbed, WantedMovie
    <2>4. replaced' \in [Movie -> SUBSET Release]
      BY <1>3, <2>1, <2>3 DEF MovieRecords, TypeInv, TypeOK, StoresTypeOK, WorldTypeOK, PassTypeOK, TurnTypeOK, GhostTypeOK
    <2>5. hunted' \in [Movie -> Age \cup {None}]
      <3>1. 0 \in Age
        BY DEF Age
      <3> QED
        BY <1>3, <2>1, <3>1 DEF MovieRecords, TypeInv, TypeOK, StoresTypeOK, WorldTypeOK, PassTypeOK, TurnTypeOK, GhostTypeOK
    <2> QED
      BY <1>3, <2>2, <2>4, <2>5
      DEF MovieRecords, TypeInv, TypeOK, StoresTypeOK, WorldTypeOK, PassTypeOK, TurnTypeOK, GhostTypeOK, ReplacesGrabbed, Choosing, world, names
  <1>4. CASE Told
    <2>1. current \in Movie /\ call # None /\ Leaves(current)
      BY <1>4 DEF Told, TypeInv, TypeOK, TurnTypeOK, PassTypeOK
    <2>2. StepTyped
      BY <1>4 DEF Told, StepTyped, TypeInv, TypeOK, StoresTypeOK, stores, names, ghosts
    <2> QED
      BY <2>1, <2>2, LeavesTyped
  <1> QED
    BY <1>1, <1>2, <1>3, <1>4

(* A stop, and time.                                                       *)
LEMMA TypeClock ==
    ASSUME TypeInv, Restart \/ Tick
    PROVE  TypeInv'
  <1> USE Constants
  <1>1. CASE Restart
    BY <1>1 DEF Restart, PassOver, TypeInv, TypeOK, StoresTypeOK, WorldTypeOK, PassTypeOK, TurnTypeOK, GhostTypeOK, ReplacesGrabbed, Choosing, stores, world
  <1>2. CASE Tick
    <2>1. library' \in [Movie -> WantedMovie \cup {None}]
      <3> DEFINE older(m) == [library[m] EXCEPT !.added = Older(@),
                               !.since = IF library[m].release = None THEN 0 ELSE Older(@)]
      <3>1. ASSUME NEW m \in Movie, library[m] # None
            PROVE  older(m) \in WantedMovie
        <4>1. library[m] \in WantedMovie
          BY <3>1 DEF TypeInv, TypeOK, StoresTypeOK, WorldTypeOK, PassTypeOK, TurnTypeOK, GhostTypeOK
        <4>2. /\ Older(library[m].added) \in Age
              /\ (IF library[m].release = None THEN 0 ELSE Older(library[m].since)) \in Age
          BY <4>1, OlderTyped DEF WantedMovie, Age
        <4> QED
          BY <4>1, <4>2 DEF WantedMovie
      <3>2. library' = [m \in Movie |-> IF library[m] = None THEN None ELSE older(m)]
        BY <1>2 DEF Tick
      <3> HIDE DEF older
      <3> QED
        BY <3>1, <3>2
    <2>2. searched' \in [Movie -> Mark \cup {None}]
      <3>1. ASSUME NEW m \in Movie, searched[m] # None
            PROVE  [searched[m] EXCEPT !.age = Older(@)] \in Mark
        <4>1. searched[m] \in Mark /\ Older(searched[m].age) \in Age
          BY <3>1, OlderTyped DEF TypeInv, TypeOK, StoresTypeOK, WorldTypeOK, PassTypeOK, TurnTypeOK, GhostTypeOK, Mark
        <4> QED
          BY <4>1 DEF Mark
      <3> QED
        BY <1>2, <3>1 DEF Tick
    <2>3. hunted' \in [Movie -> Age \cup {None}]
      BY <1>2, OlderTyped DEF Tick, TypeInv, TypeOK, StoresTypeOK, WorldTypeOK, PassTypeOK, TurnTypeOK, GhostTypeOK
    <2> QED
      BY <1>2, <2>1, <2>2, <2>3
      DEF Tick, TypeInv, TypeOK, StoresTypeOK, WorldTypeOK, PassTypeOK, TurnTypeOK, GhostTypeOK, ReplacesGrabbed, Choosing, Grabbed, world, pass, names
  <1> QED
    BY <1>1, <1>2

(* What leaves the pass alone keeps its types.                             *)
LEMMA PassKept ==
    ASSUME TypeInv, UNCHANGED pass
    PROVE  PassTypeOK' /\ TurnTypeOK' /\ ReplacesGrabbed'
  BY DEF pass, names, TypeInv, TypeOK, PassTypeOK, TurnTypeOK, ReplacesGrabbed, Grabbed

LEMMA EditsTyped ==
    ASSUME TypeInv, Edits
    PROVE  edits' \in 0 .. MaxEdits
  <1>1. edits \in 0 .. MaxEdits
    BY DEF TypeInv, TypeOK, WorldTypeOK
  <1>2. MaxEdits \in Nat
    BY Constants
  <1> QED
    BY <1>1, <1>2 DEF Edits

(* What happens to the releases, in Transmission or by hand.               *)
LEMMA TypeReleases ==
    ASSUME TypeInv, NEW r \in Release,
           TorrentGoes(r) \/ Pardon(r) \/ (r \in HandReleases /\ HandAdds(r))
    PROVE  TypeInv'
  <1>1. UNCHANGED pass
    BY DEF TorrentGoes, Pardon, HandAdds
  <1>2. StoresTypeOK'
    BY DEF TorrentGoes, Pardon, HandAdds, stores, TypeInv, TypeOK, StoresTypeOK
  <1>3. WorldTypeOK' /\ GhostTypeOK'
    BY EditsTyped DEF TorrentGoes, Pardon, HandAdds, world, ghosts,
                      TypeInv, TypeOK, WorldTypeOK, GhostTypeOK
  <1> QED
    BY <1>1, <1>2, <1>3, PassKept DEF TypeInv, TypeOK

LEMMA TypeHandRecords ==
    ASSUME TypeInv, HandRecords
    PROVE  TypeInv'
  <1>1. hand \in Release /\ MovieOf[hand] \in Movie
    BY Constants DEF HandRecords, TypeInv, TypeOK, WorldTypeOK
  <1>2. StoresTypeOK'
    <2>1. library' \in [Movie -> WantedMovie \cup {None}]
      BY <1>1, MarkGrabbedTyped DEF HandRecords, TypeInv, TypeOK, StoresTypeOK
    <2> QED
      BY <2>1 DEF HandRecords, TypeInv, TypeOK, StoresTypeOK
  <1>3. WorldTypeOK' /\ GhostTypeOK'
    BY <1>1 DEF HandRecords, world, TypeInv, TypeOK, WorldTypeOK, GhostTypeOK
  <1> QED
    BY <1>2, <1>3, PassKept DEF HandRecords, TypeInv, TypeOK

(* What people do to a movie, and Jellyfin.                                *)
LEMMA TypeEdits ==
    ASSUME TypeInv, NEW m \in Movie,
           JellyfinGains(m) \/ JellyfinLoses(m) \/ Watch(m) \/ Unwatch(m) \/ Regrab(m)
    PROVE  TypeInv'
  <1>1. UNCHANGED pass
    BY DEF JellyfinGains, JellyfinLoses, Watch, Unwatch, Regrab
  <1>2. library' \in [Movie -> WantedMovie \cup {None}]
    <2>1. CASE Watch(m)
      <3>1. NewEntry \in WantedMovie
        BY Constants DEF NewEntry, WantedMovie
      <3> QED
        BY <2>1, <3>1 DEF Watch, TypeInv, TypeOK, StoresTypeOK
    <2>2. CASE Unwatch(m)
      BY <2>2 DEF Unwatch, TypeInv, TypeOK, StoresTypeOK
    <2>3. CASE Regrab(m)
      <3>1. library \in [Movie -> WantedMovie \cup {None}] /\ library[m] # None
        BY <2>3 DEF Regrab, Watched, TypeInv, TypeOK, StoresTypeOK
      <3>2. [library[m] EXCEPT !.release = None, !.since = 0] \in WantedMovie
        BY <3>1, Constants DEF WantedMovie
      <3>3. library' = [library EXCEPT ![m] = [library[m] EXCEPT !.release = None, !.since = 0]]
        BY <2>3, <3>1 DEF Regrab
      <3> QED
        BY <3>1, <3>2, <3>3
    <2>4. CASE JellyfinGains(m) \/ JellyfinLoses(m)
      BY <2>4 DEF JellyfinGains, JellyfinLoses, stores, TypeInv, TypeOK, StoresTypeOK
    <2> QED
      BY <2>1, <2>2, <2>3, <2>4
  <1>3. StoresTypeOK'
    BY <1>2 DEF JellyfinGains, JellyfinLoses, Watch, Unwatch, Regrab, stores,
                TypeInv, TypeOK, StoresTypeOK
  <1>4. WorldTypeOK'
    BY EditsTyped DEF JellyfinGains, JellyfinLoses, Watch, Unwatch, Regrab, world,
                      TypeInv, TypeOK, WorldTypeOK
  <1>5. GhostTypeOK'
    BY DEF JellyfinGains, JellyfinLoses, Watch, Unwatch, Regrab, Forgotten, world, ghosts,
           TypeInv, TypeOK, GhostTypeOK
  <1> QED
    BY <1>1, <1>3, <1>4, <1>5, PassKept DEF TypeInv, TypeOK

LEMMA TypeStep == TypeInv /\ [Next]_vars => TypeInv'
  <1> SUFFICES ASSUME TypeInv, [Next]_vars PROVE TypeInv'
    OBVIOUS
  <1>1. CASE Step
    BY <1>1, TypePass, TypeTurn, TypeSearch, TypeAnswers, TypeAdds DEF Step
  <1>2. CASE Environment
    <2>1. \A r \in HandReleases : HandAdds(r) => TypeInv'
      BY TypeReleases, Constants
    <2> QED
      BY <1>2, <2>1, TypeReleases, TypeHandRecords, TypeEdits, TypeClock DEF Environment
  <1>3. CASE UNCHANGED vars
    <2>1. UNCHANGED <<pass, stores, world, hand, removed, edits, ghosts>>
      BY <1>3 DEF vars
    <2>2. StoresTypeOK' /\ WorldTypeOK' /\ GhostTypeOK'
      BY <2>1 DEF stores, world, ghosts, TypeInv, TypeOK, StoresTypeOK, WorldTypeOK, GhostTypeOK
    <2> QED
      BY <2>1, <2>2, PassKept DEF TypeInv, TypeOK
  <1> QED
    BY <1>1, <1>2, <1>3 DEF Next

(* Every reachable state is well typed, for every library, whatever is     *)
(* found, refused, lost or edited during a pass.                           *)
THEOREM TypeCorrect == Spec => []TypeOK
  <1>1. Spec => []TypeInv
    BY TypeInit, TypeStep, PTL DEF Spec
  <1>2. TypeInv => TypeOK
    BY DEF TypeInv
  <1> QED
    BY <1>1, <1>2, PTL

(***************************************************************************)
(* A movie is sent again only when its torrent is gone.                    *)
(***************************************************************************)

(* The listing of a pass holds what has been there since it began, and a   *)
(* movie grabbed before is hunted by what the listing says of it.          *)
RehuntInv ==
    /\ pc \in {"idle", "owned"} => listed = "no"
    /\ listed = "yes" => stayed \subseteq listing
    /\ pc \in Choosing /\ mode = "hunt" /\ Grabbed(current) => listed # "no" /\ KnownAbsent(current)


LEMMA RehuntInit == Init => RehuntInv
  BY DEF Init, RehuntInv, Choosing

(* What leaves the pass alone, and adds nothing to stayed.                 *)
LEMMA RehuntKept ==
    ASSUME RehuntInv, UNCHANGED pass, stayed' \subseteq stayed
    PROVE  RehuntInv'
  BY DEF RehuntInv, pass, names, Grabbed, KnownAbsent

(* What leaves the movie looked at, or goes on to hunt it as it was.       *)
LEMMA RehuntNext ==
    ASSUME RehuntInv, UNCHANGED names, stayed' \subseteq stayed, pc \notin {"idle", "owned"},
           \/ pc' \in {"next", "telling"}
           \/ pc' \in Choosing /\ mode' # "hunt"
    PROVE  RehuntInv'
  BY DEF RehuntInv, names, Choosing

LEMMA RehuntDecide ==
    ASSUME NEW m \in Movie, NEW why, NEW results \in SUBSET Release, NEW banned,
           Decide(m, why, results, banned)
    PROVE  \/ pc' = "next"
           \/ pc' = "adding" /\ current' = m /\ mode' = why /\ snapshot' = snapshot
  BY DecideCases DEF Leaves

LEMMA RehuntStep == TypeInv /\ RehuntInv /\ [Next]_vars => RehuntInv'
  <1> SUFFICES ASSUME TypeInv, RehuntInv, [Next]_vars PROVE RehuntInv'
    OBVIOUS
  <1>1. CASE PassStarts \/ OwnedAnswered \/ OwnedFails \/ PassEnds \/ Restart
    <2>1. pc \in {"idle", "owned"} \/ pc' = "idle"
      BY <1>1 DEF PassStarts, OwnedAnswered, OwnedFails, MoviesListed, PassEnds, PassOver, Restart
    <2> QED
      BY <1>1, <2>1 DEF PassStarts, OwnedAnswered, OwnedFails, MoviesListed, PassEnds, PassOver,
                        Restart, RehuntInv, Choosing, names
  <1>2. CASE ListingAnswered \/ ListingFails
    BY <1>2 DEF ListingAnswered, ListingFails, Listed, RehuntInv, Choosing, ghosts,
                TypeInv, TypeOK, GhostTypeOK
  <1>3. ASSUME NEW m \in Movie, ListingAsked(m) \/ Skip(m) \/ TakeRepack(m)
        PROVE  RehuntInv'
    <2>1. CASE ListingAsked(m)
      BY <2>1 DEF ListingAsked, Turn, RehuntInv, Choosing, names, ghosts
    <2>2. CASE Skip(m) \/ TakeRepack(m)
      BY <2>2, RehuntNext DEF Skip, TakeRepack, Judged, Turn, Leaves, names, ghosts, Choosing
    <2> QED
      BY <1>3, <2>1, <2>2
  <1>4. ASSUME NEW m \in Movie, Search(m)
        PROVE  RehuntInv'
    <2> DEFINE why == IF Needs(m) THEN "hunt" ELSE "upgrade"
    <2>1. pc = "next" /\ UNCHANGED <<names, stayed>> /\ (MustList(m) => listed # "no")
      BY <1>4 DEF Search, Judged, Turn, names, ghosts
    <2>2. call.feed \in SUBSET Release
      BY <2>1 DEF TypeInv, TypeOK, PassTypeOK, Call
    <2>3. \/ pc' = "next"
          \/ pc' \in Choosing /\ current' = m /\ mode' = why /\ snapshot' = snapshot
      BY <1>4, <2>2, RehuntDecide DEF Search, Choosing
    <2>4. Needs(m) /\ Grabbed(m) => listed # "no" /\ KnownAbsent(m)
      BY <2>1 DEF Needs, MustList
    <2>5. CASE Needs(m)
      BY <2>1, <2>3, <2>4, <2>5 DEF RehuntInv, Choosing, Grabbed, KnownAbsent, names
    <2>6. CASE ~Needs(m)
      BY <2>1, <2>3, <2>6, RehuntNext
    <2> QED
      BY <2>5, <2>6
  <1>5. ASSUME NEW results \in SUBSET Release, NEW reached \in BOOLEAN,
               SearchAnswered(results, reached) \/ FallbackAnswered(results)
        PROVE  RehuntInv'
    <2>1. /\ pc \in {"searching", "topping up"} /\ current \in Movie /\ call \in Call
          /\ UNCHANGED <<names, stayed>>
      BY <1>5 DEF SearchAnswered, FallbackAnswered, names, ghosts,
                  TypeInv, TypeOK, TurnTypeOK, PassTypeOK
    <2>2. call.feed \cup results \in SUBSET Release
      BY <2>1 DEF Call
    <2>3. \/ pc' = "next"
          \/ pc' = "adding" /\ current' = current /\ mode' = mode /\ snapshot' = snapshot
      BY <1>5, <2>1, <2>2, RehuntDecide DEF SearchAnswered, FallbackAnswered
    <2> QED
      BY <2>1, <2>3 DEF RehuntInv, Choosing, Grabbed, KnownAbsent, names
  <1>6. CASE MovieAdds
    BY <1>6 DEF MovieAdds, RehuntInv, Choosing, Grabbed, KnownAbsent, names, ghosts
  <1>7. CASE MovieAddFails \/ MovieRecords \/ Told
    BY <1>7, RehuntNext DEF MovieAddFails, MovieRecords, Told, Leaves, names, ghosts
  <1>8. CASE Environment /\ ~Restart
    <2>1. UNCHANGED pass /\ stayed' \subseteq stayed
      BY <1>8 DEF Environment, TorrentGoes, Pardon, HandAdds, JellyfinGains, JellyfinLoses, Watch,
                  Unwatch, Regrab, HandRecords, Tick, Forgotten, ghosts
    <2> QED
      BY <2>1, RehuntKept
  <1>9. CASE UNCHANGED vars
    BY <1>9, RehuntKept DEF vars, ghosts
  <1> QED
    BY <1>1, <1>2, <1>3, <1>4, <1>5, <1>6, <1>7, <1>8, <1>9 DEF Next, Step

(* For any number of movies judged on one listing, whatever goes from      *)
(* Transmission meanwhile, and whether the listing fails: no movie is sent *)
(* again as failed while a torrent of it is there.                         *)
THEOREM RehuntOnlyAbsentCorrect == Spec => []RehuntOnlyAbsent
  <1>1. TypeInv /\ RehuntInv => RehuntOnlyAbsent
    <2> SUFFICES ASSUME TypeInv, RehuntInv, pc = "adding", mode = "hunt", Grabbed(current)
                 PROVE  \A r \in stayed \cap Recognised : MovieOf[r] # current
      BY DEF RehuntOnlyAbsent
    <2>1. listed # "no" /\ KnownAbsent(current)
      BY DEF RehuntInv, Choosing
    <2>2. stayed \subseteq listing
      BY <2>1 DEF RehuntInv, KnownAbsent, TypeInv, TypeOK, PassTypeOK
    <2> QED
      BY <2>1, <2>2 DEF KnownAbsent
  <1> QED
    BY <1>1, TypeInit, TypeStep, RehuntInit, RehuntStep, PTL DEF Spec

(***************************************************************************)
(* Hunts are spaced by the cooldown.                                       *)
(***************************************************************************)

(* The entry of a movie hunted is not older than the hunt, in the library  *)
(* or as the pass read it, until the pass has recorded a new one.          *)
Since(entry, age) == entry # None /\ entry.release # None /\ entry.since <= age

Pending == IF pc = "telling" THEN todo \ {current} ELSE todo

HuntInv ==
    /\ \A m \in Movie : hunted[m] # None => Since(library[m], hunted[m])
    /\ \A m \in Pending : hunted[m] # None => Since(snapshot[m], hunted[m])
    /\ pc \in Choosing /\ mode = "hunt" /\ Grabbed(current) => snapshot[current].since > Window


LEMMA HuntInit == Init => HuntInv
  BY DEF Init, HuntInv, Choosing, Pending

(* Decisions are taken by the entry the pass read.                         *)
LEMMA HuntDecided ==
    ASSUME TypeInv, HuntInv, NEW m \in Movie, UNCHANGED <<library, hunted>>,
           pc # "telling", pc' # "telling",
           \/ Leaves(m)
           \/ /\ UNCHANGED <<todo, snapshot>> /\ current' = m
              /\ mode' = "hunt" /\ snapshot[m].release # None => snapshot[m].since > Window
    PROVE  HuntInv'
  <1>1. \A n \in Pending' : n \in Pending /\ snapshot'[n] = snapshot[n]
    BY DEF Leaves, Pending, TypeInv, TypeOK, PassTypeOK
  <1>2. pc' \in Choosing /\ mode' = "hunt" /\ Grabbed(current)' => snapshot'[current'].since > Window
    BY DEF Leaves, Choosing, Grabbed
  <1> QED
    BY <1>1, <1>2 DEF HuntInv

(* What leaves the pass alone, and each movie hunted with a later entry.   *)
LEMMA HuntKept ==
    ASSUME TypeInv, HuntInv, UNCHANGED pass,
           \A n \in Movie : hunted'[n] # None =>
              hunted'[n] = hunted[n] /\ (library'[n] = library[n] \/ Since(library'[n], hunted[n]))
    PROVE  HuntInv'
  <1>1. \A n \in Movie : hunted'[n] # None => Since(library'[n], hunted'[n])
    BY DEF HuntInv
  <1>2. \A n \in Pending' : n \in Pending /\ n \in Movie /\ snapshot'[n] = snapshot[n]
    BY DEF Pending, pass, TypeInv, TypeOK, PassTypeOK
  <1>3. \A n \in Pending' : hunted'[n] # None => Since(snapshot'[n], hunted'[n])
    BY <1>2 DEF HuntInv
  <1> QED
    BY <1>1, <1>3 DEF HuntInv, pass, Grabbed

LEMMA HuntRecords ==
    ASSUME TypeInv, HuntInv, MovieRecords
    PROVE  HuntInv'
  <1>1. /\ current \in Movie /\ pick \in Release /\ library \in [Movie -> WantedMovie \cup {None}]
        /\ hunted \in [Movie -> Age \cup {None}] /\ todo \subseteq Movie
    BY DEF MovieRecords, TypeInv, TypeOK, TurnTypeOK, StoresTypeOK, GhostTypeOK, PassTypeOK
  <1>2. /\ pc = "recording" /\ pc' = "telling" /\ UNCHANGED <<todo, snapshot, current>>
        /\ library' = MarkGrabbed(current, pick)
        /\ \A n \in Movie \ {current} : hunted'[n] = hunted[n]
        /\ hunted'[current] # None =>
             library[current] # None /\ hunted'[current] \in Age
    <2>1. hunted[current] # None => library[current] # None
      BY <1>1 DEF HuntInv, Since
    <2> QED
      BY <1>1, <2>1, Constants DEF MovieRecords, Watched
  <1>3. ASSUME NEW n \in Movie, hunted'[n] # None
        PROVE  Since(library'[n], hunted'[n])
    <2>1. CASE n = current
      <3>1. /\ library'[n] # None /\ library'[n].release = pick /\ library'[n].since = 0
        BY <1>1, <1>2, <1>3, <2>1, MarkGrabbedTyped
      <3>2. pick # None /\ hunted'[n] \in Nat
        BY <1>1, <1>2, <1>3, <2>1, Constants DEF Age
      <3> QED
        BY <3>1, <3>2 DEF Since
    <2>2. CASE n # current
      BY <1>1, <1>2, <1>3, <2>2, MarkGrabbedTyped DEF HuntInv
    <2> QED
      BY <2>1, <2>2
  <1>4. ASSUME NEW n \in Pending', hunted'[n] # None
        PROVE  Since(snapshot'[n], hunted'[n])
    <2>1. n \in Pending /\ n \in Movie /\ n # current
      BY <1>1, <1>2, <1>4 DEF Pending
    <2> QED
      BY <1>2, <1>4, <2>1 DEF HuntInv
  <1> QED
    BY <1>2, <1>3, <1>4 DEF HuntInv, Choosing

LEMMA HuntTick ==
    ASSUME TypeInv, HuntInv, Tick
    PROVE  HuntInv'
  <1>1. pc = "idle" /\ todo = {} /\ UNCHANGED pass
    BY DEF Tick, TypeInv, TypeOK, TurnTypeOK
  <1>2. ASSUME NEW n \in Movie, hunted'[n] # None
        PROVE  Since(library'[n], hunted'[n])
    <2>1. /\ library[n] \in WantedMovie \cup {None} /\ hunted[n] \in Age \cup {None}
          /\ hunted[n] # None /\ hunted'[n] = Older(hunted[n])
      BY <1>2 DEF Tick, TypeInv, TypeOK, StoresTypeOK, GhostTypeOK
    <2>2. Since(library[n], hunted[n])
      BY <2>1 DEF HuntInv
    <2>3. /\ library'[n] # None /\ library'[n].release = library[n].release
          /\ library'[n].since = Older(library[n].since)
      <3>1. library'[n] = [library[n] EXCEPT !.added = Older(@),
                             !.since = IF library[n].release = None THEN 0 ELSE Older(@)]
        BY <2>2 DEF Tick, Since
      <3>2. library[n] \in WantedMovie /\ library[n].release # None
        BY <2>1, <2>2 DEF Since
      <3>3. library'[n] = [release |-> library[n].release, since |-> Older(library[n].since),
                           added |-> Older(library[n].added)]
        BY <3>1, <3>2 DEF WantedMovie
      <3>4. library'[n] \in WantedMovie
        BY <3>2, <3>3, OlderTyped DEF WantedMovie
      <3> QED
        BY <3>3, <3>4, Constants
    <2> QED
      BY <2>1, <2>2, <2>3, OlderTyped DEF Since, WantedMovie
  <1> QED
    BY <1>1, <1>2 DEF HuntInv, Pending, Choosing, pass

LEMMA HuntStep == TypeInv /\ HuntInv /\ [Next]_vars => HuntInv'
  <1> SUFFICES ASSUME TypeInv, HuntInv, [Next]_vars PROVE HuntInv'
    OBVIOUS
  <1>1. CASE PassStarts \/ PassEnds
    BY <1>1 DEF PassStarts, PassEnds, PassOver, HuntInv, Pending, Choosing, stores,
                TypeInv, TypeOK, TurnTypeOK
  <1>2. CASE OwnedAnswered \/ OwnedFails
    BY <1>2 DEF OwnedAnswered, OwnedFails, MoviesListed, ToLookAt, HuntInv, Pending, Choosing,
                stores, ghosts
  <1>3. CASE Restart
    BY <1>3 DEF Restart, PassOver, HuntInv, Pending, Choosing, stores
  <1>4. CASE ListingAnswered \/ ListingFails
    BY <1>4 DEF ListingAnswered, ListingFails, Listed, HuntInv, Pending, Choosing, stores, ghosts
  <1>5. ASSUME NEW m \in Movie, ListingAsked(m) \/ Skip(m) \/ TakeRepack(m)
        PROVE  HuntInv'
    <2>1. CASE ListingAsked(m)
      BY <2>1 DEF ListingAsked, Turn, HuntInv, Pending, Choosing, stores, ghosts
    <2>2. CASE Skip(m) \/ TakeRepack(m)
      BY <2>2, HuntDecided DEF Skip, TakeRepack, Judged, Turn, Leaves, stores, ghosts
    <2> QED
      BY <1>5, <2>1, <2>2
  <1>6. ASSUME NEW m \in Movie, Search(m)
        PROVE  HuntInv'
    <2> DEFINE why == IF Needs(m) THEN "hunt" ELSE "upgrade"
    <2>1. pc = "next" /\ UNCHANGED <<library, hunted>>
      BY <1>6 DEF Search, Judged, Turn, ghosts
    <2>2. call.feed \in SUBSET Release
      BY <2>1 DEF TypeInv, TypeOK, PassTypeOK, Call
    <2>3. \/ Leaves(m)
          \/ pc' \in Choosing /\ current' = m /\ mode' = why /\ UNCHANGED <<todo, snapshot>>
      BY <1>6, <2>2, DecideCases DEF Search, Choosing
    <2>4. Needs(m) /\ snapshot[m].release # None => snapshot[m].since > Window
      BY DEF Needs, NeedsGrab, Grabbed
    <2> QED
      BY <2>1, <2>3, <2>4, HuntDecided DEF Leaves, Choosing
  <1>7. ASSUME NEW results \in SUBSET Release, NEW reached \in BOOLEAN,
               SearchAnswered(results, reached) \/ FallbackAnswered(results)
        PROVE  HuntInv'
    <2>1. /\ pc \in {"searching", "topping up"} /\ current \in Movie /\ call \in Call
          /\ UNCHANGED <<library, hunted>>
      BY <1>7 DEF SearchAnswered, FallbackAnswered, stores, ghosts,
                  TypeInv, TypeOK, TurnTypeOK, PassTypeOK
    <2>2. call.feed \cup results \in SUBSET Release
      BY <2>1 DEF Call
    <2>3. \/ Leaves(current)
          \/ pc' = "adding" /\ current' = current /\ mode' = mode /\ UNCHANGED <<todo, snapshot>>
      BY <1>7, <2>1, <2>2, DecideCases DEF SearchAnswered, FallbackAnswered
    <2>4. mode = "hunt" /\ snapshot[current].release # None => snapshot[current].since > Window
      BY <2>1 DEF HuntInv, Choosing, Grabbed
    <2> QED
      BY <2>1, <2>3, <2>4, HuntDecided DEF Leaves
  <1>8. CASE MovieAdds \/ MovieAddFails
    <2>1. current \in Movie
      BY <1>8 DEF MovieAdds, MovieAddFails, TypeInv, TypeOK, TurnTypeOK, PassTypeOK
    <2>2. mode = "hunt" /\ snapshot[current].release # None => snapshot[current].since > Window
      BY <1>8 DEF MovieAdds, MovieAddFails, HuntInv, Choosing, Grabbed
    <2> QED
      BY <1>8, <2>1, <2>2, HuntDecided DEF MovieAdds, MovieAddFails, Leaves, stores, ghosts
  <1>9. CASE Told
    BY <1>9 DEF Told, Leaves, HuntInv, Pending, Choosing, stores, ghosts, TypeInv, TypeOK, PassTypeOK
  <1>10. CASE HandRecords
    <2>1. /\ hand \in Release /\ MovieOf[hand] \in Movie
          /\ library \in [Movie -> WantedMovie \cup {None}]
          /\ hunted \in [Movie -> Age \cup {None}]
      BY <1>10, Constants DEF HandRecords, TypeInv, TypeOK, WorldTypeOK, StoresTypeOK, GhostTypeOK
    <2>2. ASSUME NEW n \in Movie, hunted[n] # None
          PROVE  library'[n] = library[n] \/ Since(library'[n], hunted[n])
      <3>1. library[n] # None /\ hunted[n] \in Nat
        BY <2>1, <2>2, Constants DEF HuntInv, Since, Age
      <3>2. CASE n = MovieOf[hand]
        BY <1>10, <2>1, <3>1, <3>2, MarkGrabbedTyped, Constants DEF HandRecords, Since
      <3>3. CASE n # MovieOf[hand]
        BY <1>10, <2>1, <3>3, MarkGrabbedTyped DEF HandRecords
      <3> QED
        BY <3>2, <3>3
    <2> QED
      BY <1>10, <2>2, HuntKept DEF HandRecords
  <1>11. ASSUME NEW m \in Movie, Watch(m) \/ Unwatch(m) \/ Regrab(m)
         PROVE  HuntInv'
    <2>1. /\ \A n \in Movie \ {m} : library'[n] = library[n] /\ hunted'[n] = hunted[n]
          /\ hunted'[m] = None
      BY <1>11 DEF Watch, Unwatch, Regrab, Forgotten, Watched, ghosts, HuntInv, Since,
                   TypeInv, TypeOK, StoresTypeOK, GhostTypeOK
    <2> QED
      BY <1>11, <2>1, HuntKept DEF Watch, Unwatch, Regrab
  <1>12. CASE UNCHANGED <<pass, library, hunted>>
    BY <1>12, HuntKept
  <1>13. CASE \/ \E r \in Release : TorrentGoes(r) \/ Pardon(r)
              \/ \E r \in HandReleases : HandAdds(r)
              \/ \E m \in Movie : JellyfinGains(m) \/ JellyfinLoses(m)
    BY <1>12, <1>13 DEF TorrentGoes, Pardon, HandAdds, JellyfinGains, JellyfinLoses, stores, ghosts
  <1>14. CASE UNCHANGED vars
    BY <1>12, <1>14 DEF vars, stores, ghosts
  <1>15. CASE Step
    BY <1>1, <1>2, <1>4, <1>5, <1>6, <1>7, <1>8, <1>9, <1>15, HuntRecords DEF Step
  <1>16. CASE Environment
    BY <1>3, <1>10, <1>11, <1>13, <1>16, HuntTick DEF Environment
  <1> QED
    BY <1>14, <1>15, <1>16 DEF Next

(* However upgrades, repacks and people interleave with the passes, two    *)
(* hunts of a movie are more than the cooldown apart, for any cooldown.    *)
THEOREM HuntsSpacedCorrect == Spec => []HuntsSpaced
  <1>1. TypeInv /\ HuntInv => HuntsSpaced
    <2> SUFFICES ASSUME TypeInv, HuntInv, pc = "adding", mode = "hunt", hunted[current] # None
                 PROVE  hunted[current] > Window
      BY DEF HuntsSpaced
    <2>1. current \in Pending /\ current \in Movie
      BY DEF TypeInv, TypeOK, TurnTypeOK, PassTypeOK, Pending
    <2>2. Since(snapshot[current], hunted[current])
      BY <2>1 DEF HuntInv
    <2>3. snapshot[current].since > Window
      BY <2>2 DEF HuntInv, Since, Choosing, Grabbed
    <2>4. snapshot[current].since \in Nat /\ hunted[current] \in Nat /\ Window \in Nat
      <3>1. snapshot[current] \in WantedMovie /\ hunted[current] \in Age
        BY <2>1, <2>2 DEF Since, TypeInv, TypeOK, PassTypeOK, GhostTypeOK
      <3> QED
        BY <3>1, MovieHuntAssumption DEF WantedMovie, Age
    <2> QED
      BY <2>2, <2>3, <2>4 DEF Since
  <1> QED
    BY <1>1, TypeInit, TypeStep, HuntInit, HuntStep, PTL DEF Spec

(***************************************************************************)
(* Replacements make no loop.                                              *)
(***************************************************************************)

(* r may replace s.                                                        *)
Over(r, s) == Quality[r] < Quality[s] \/ <<r, s>> \in Repack

AboveAll(entry, replacedOnes) ==
    replacedOnes # {} => /\ entry # None /\ entry.release # None
                         /\ \A s \in replacedOnes : Over(entry.release, s)

PingPongInv ==
    /\ \A m \in Movie : AboveAll(library[m], replaced[m])
    /\ \A m \in Pending : AboveAll(snapshot[m], replaced[m])
    /\ pc \in {"adding", "recording"} /\ mode # "hunt" => Over(pick, snapshot[current].release)

(* The parser and detect_quality agree on every title.                     *)
QualitiesAgree == \A r \in Release : Detected[r] = Quality[r]

(* What is over what is over s, is over s; nothing is over itself.         *)
LEMMA OverOrder ==
    /\ \A r, s, t \in Release : Over(r, s) /\ Over(s, t) => Over(r, t)
    /\ \A r \in Release : ~Over(r, r)
  <1>1. /\ Quality \in [Release -> Nat]
        /\ \A r, s \in Release : <<r, s>> \in Repack => Quality[r] = Quality[s]
        /\ \A r, s, t \in Release : <<r, s>> \in Repack => <<s, t>> \notin Repack
    <2>1. /\ Quality \in [Release -> Nat]
          /\ \A p \in Repack : /\ Quality[p[1]] = Quality[p[2]]
                               /\ \A s \in Release : <<p[2], s>> \notin Repack
      BY MovieHuntAssumption
    <2>2. \A r, s : <<r, s>>[1] = r /\ <<r, s>>[2] = s
      OBVIOUS
    <2> QED
      BY <2>1, <2>2
  <1> QED
    BY <1>1 DEF Over

LEMMA PingInit == Init => PingPongInv
  BY DEF Init, PingPongInv, Pending, AboveAll

(* Decisions compare with the entry the pass read.                         *)
LEMMA PingDecided ==
    ASSUME TypeInv, PingPongInv, NEW m \in Movie, UNCHANGED <<library, replaced>>,
           pc # "telling", pc' \notin {"telling", "recording"},
           \/ Leaves(m)
           \/ /\ UNCHANGED <<todo, snapshot>> /\ current' = m
              /\ pc' = "adding" /\ mode' # "hunt" => Over(pick', snapshot[m].release)
    PROVE  PingPongInv'
  <1>1. \A n \in Pending' : n \in Pending /\ snapshot'[n] = snapshot[n]
    BY DEF Leaves, Pending, TypeInv, TypeOK, PassTypeOK
  <1>2. pc' = "adding" /\ mode' # "hunt" => Over(pick, snapshot[current].release)'
    BY DEF Leaves, Over
  <1> QED
    BY <1>1, <1>2 DEF PingPongInv

(* What leaves the pass alone, and each replacement on its movie.          *)
LEMMA PingKept ==
    ASSUME TypeInv, PingPongInv, UNCHANGED pass,
           \A n \in Movie : replaced'[n] # {} =>
              /\ replaced'[n] = replaced[n]
              /\ library[n] # None => library'[n] # None /\ library'[n].release = library[n].release
    PROVE  PingPongInv'
  <1>1. \A n \in Movie : AboveAll(library'[n], replaced'[n])
    BY DEF PingPongInv, AboveAll
  <1>2. \A n \in Pending' : n \in Pending /\ n \in Movie /\ snapshot'[n] = snapshot[n]
    BY DEF Pending, pass, TypeInv, TypeOK, PassTypeOK
  <1>3. \A n \in Pending' : AboveAll(snapshot'[n], replaced'[n])
    BY <1>2 DEF PingPongInv, AboveAll
  <1>4. UNCHANGED <<pc, mode, pick, snapshot, current>>
    BY DEF pass
  <1> QED
    BY <1>1, <1>3, <1>4 DEF PingPongInv, Over

LEMMA PingRecords ==
    ASSUME TypeInv, PingPongInv, MovieRecords
    PROVE  PingPongInv'
  <1>1. /\ current \in Movie /\ pick \in Release /\ library \in [Movie -> WantedMovie \cup {None}]
        /\ replaced \in [Movie -> SUBSET Release] /\ todo \subseteq Movie
        /\ current \in Pending /\ pc = "recording" /\ snapshot[current] \in WantedMovie
    BY DEF MovieRecords, TypeInv, TypeOK, TurnTypeOK, StoresTypeOK, GhostTypeOK, PassTypeOK, Pending
  <1>2. /\ pc' = "telling" /\ UNCHANGED <<todo, snapshot, current>>
        /\ library' = MarkGrabbed(current, pick)
        /\ \A n \in Movie \ {current} : replaced'[n] = replaced[n]
    BY <1>1 DEF MovieRecords
  <1>3. AboveAll(library'[current], replaced'[current])
    <2>1. CASE mode = "hunt" \/ library[current] = None
      BY <1>1, <2>1 DEF MovieRecords, Watched, AboveAll
    <2>2. CASE mode # "hunt" /\ library[current] # None
      <3>1. replaced'[current] = replaced[current] \cup {snapshot[current].release}
        BY <1>1, <2>2 DEF MovieRecords, Watched
      <3>2. /\ Over(pick, snapshot[current].release)
            /\ \A t \in replaced[current] : Over(snapshot[current].release, t)
        BY <1>1, <2>2 DEF PingPongInv, AboveAll
      <3>3. snapshot[current].release \in Release /\ replaced[current] \subseteq Release
        BY <1>1, <2>2 DEF TypeInv, ReplacesGrabbed, Choosing, Grabbed, WantedMovie
      <3>4. \A t \in replaced'[current] : Over(pick, t)
        BY <1>1, <3>1, <3>2, <3>3, OverOrder
      <3>5. library'[current] # None /\ library'[current].release = pick /\ pick # None
        BY <1>1, <1>2, <2>2, MarkGrabbedTyped, Constants
      <3> QED
        BY <3>4, <3>5 DEF AboveAll
    <2> QED
      BY <2>1, <2>2
  <1>4. \A n \in Movie \ {current} : AboveAll(library'[n], replaced'[n])
    BY <1>1, <1>2, MarkGrabbedTyped DEF PingPongInv
  <1>5. ASSUME NEW n \in Pending'
        PROVE  AboveAll(snapshot'[n], replaced'[n])
    <2>1. n \in Pending /\ n \in Movie /\ n # current
      BY <1>1, <1>2 DEF Pending
    <2> QED
      BY <1>2, <2>1 DEF PingPongInv
  <1> QED
    BY <1>2, <1>3, <1>4, <1>5 DEF PingPongInv

LEMMA PingTick ==
    ASSUME TypeInv, PingPongInv, Tick
    PROVE  PingPongInv'
  <1>1. UNCHANGED <<pass, replaced>>
    BY DEF Tick
  <1>2. ASSUME NEW n \in Movie, library[n] # None
        PROVE  library'[n] # None /\ library'[n].release = library[n].release
    <2>1. library[n] \in WantedMovie
      BY <1>2 DEF TypeInv, TypeOK, StoresTypeOK
    <2>2. library'[n] = [library[n] EXCEPT !.added = Older(@),
                           !.since = IF library[n].release = None THEN 0 ELSE Older(@)]
      BY <1>2 DEF Tick
    <2>3. /\ library'[n].release = library[n].release /\ library'[n].added = Older(library[n].added)
          /\ library'[n].since = IF library[n].release = None THEN 0 ELSE Older(library[n].since)
          /\ library'[n] = [release |-> library'[n].release, since |-> library'[n].since,
                            added |-> library'[n].added]
      BY <2>1, <2>2 DEF WantedMovie
    <2>4. library'[n] \in WantedMovie
      BY <2>1, <2>3, OlderTyped, Constants DEF WantedMovie
    <2> QED
      BY <2>3, <2>4, Constants
  <1> QED
    BY <1>1, <1>2, PingKept

LEMMA PingStep ==
    ASSUME Ranked, QualitiesAgree
    PROVE  TypeInv /\ PingPongInv /\ [Next]_vars => PingPongInv'
  <1> SUFFICES ASSUME TypeInv, PingPongInv, [Next]_vars PROVE PingPongInv'
    OBVIOUS
  <1>1. CASE PassStarts \/ PassEnds
    BY <1>1 DEF PassStarts, PassEnds, PassOver, PingPongInv, Pending, stores,
                TypeInv, TypeOK, TurnTypeOK
  <1>2. CASE OwnedAnswered \/ OwnedFails
    BY <1>2 DEF OwnedAnswered, OwnedFails, MoviesListed, ToLookAt, PingPongInv, Pending,
                stores, ghosts
  <1>3. CASE Restart
    BY <1>3 DEF Restart, PassOver, PingPongInv, Pending, stores
  <1>4. CASE ListingAnswered \/ ListingFails
    BY <1>4 DEF ListingAnswered, ListingFails, Listed, PingPongInv, Pending, stores, ghosts
  <1>5. ASSUME NEW m \in Movie, ListingAsked(m) \/ Skip(m) \/ TakeRepack(m)
        PROVE  PingPongInv'
    <2>1. CASE ListingAsked(m)
      BY <2>1 DEF ListingAsked, Turn, PingPongInv, Pending, stores, ghosts
    <2>2. CASE Skip(m)
      BY <2>2, PingDecided DEF Skip, Judged, Turn, Leaves, stores, ghosts
    <2>3. CASE TakeRepack(m)
      <3>1. Over(pick', snapshot[m].release)
        BY <2>3 DEF TakeRepack, Repacks, Over
      <3> QED
        BY <2>3, <3>1, PingDecided DEF TakeRepack, Judged, Turn, stores, ghosts
    <2> QED
      BY <1>5, <2>1, <2>2, <2>3
  <1>6. ASSUME NEW m \in Movie, Search(m)
        PROVE  PingPongInv'
    <2> DEFINE why == IF Needs(m) THEN "hunt" ELSE "upgrade"
    <2>1. pc = "next" /\ m \in todo /\ UNCHANGED <<library, replaced>>
      BY <1>6 DEF Search, Judged, Turn, ghosts
    <2>2. /\ call.feed \in SUBSET Release
          /\ ~Needs(m) => snapshot[m].release \in Release
      BY <1>6, <2>1 DEF Search, WantsUpgrade, Grabbed, WantedMovie, TypeInv, TypeOK, PassTypeOK, Call
    <2>3. \/ Leaves(m)
          \/ /\ pc' \in {"searching", "topping up"} /\ current' = m /\ UNCHANGED <<todo, snapshot>>
          \/ /\ pc' = "adding" /\ current' = m /\ mode' = why /\ UNCHANGED <<todo, snapshot>>
             /\ pick' \in Release
             /\ why = "upgrade" => Better(pick', snapshot[m].release)
      BY <1>6, <2>2, DecideCases DEF Search
    <2>4. pc' = "adding" /\ mode' # "hunt" /\ ~Leaves(m) => Over(pick', snapshot[m].release)
      BY <2>2, <2>3 DEF Better, QualitiesAgree, Over
    <2> QED
      BY <2>1, <2>3, <2>4, PingDecided DEF Leaves
  <1>7. ASSUME NEW results \in SUBSET Release, NEW reached \in BOOLEAN,
               SearchAnswered(results, reached) \/ FallbackAnswered(results)
        PROVE  PingPongInv'
    <2>1. /\ pc \in {"searching", "topping up"} /\ current \in Movie /\ call \in Call
          /\ mode \in {"hunt", "upgrade"} /\ snapshot[current] \in WantedMovie
          /\ UNCHANGED <<library, replaced>>
      BY <1>7 DEF SearchAnswered, FallbackAnswered, stores, ghosts,
                  TypeInv, TypeOK, TurnTypeOK, PassTypeOK
    <2>2. /\ call.feed \cup results \in SUBSET Release
          /\ mode # "hunt" => snapshot[current].release \in Release
      BY <2>1 DEF Call, TypeInv, ReplacesGrabbed, Choosing, Grabbed, WantedMovie
    <2>3. \/ Leaves(current)
          \/ /\ pc' = "adding" /\ current' = current /\ mode' = mode /\ UNCHANGED <<todo, snapshot>>
             /\ pick' \in Release
             /\ mode = "upgrade" => Better(pick', snapshot[current].release)
      BY <1>7, <2>1, <2>2, DecideCases DEF SearchAnswered, FallbackAnswered
    <2>4. mode' # "hunt" /\ ~Leaves(current) => Over(pick', snapshot[current].release)
      BY <2>1, <2>2, <2>3 DEF Better, QualitiesAgree, Over
    <2> QED
      BY <2>1, <2>3, <2>4, PingDecided DEF Leaves
  <1>8. CASE MovieAdds
    BY <1>8 DEF MovieAdds, PingPongInv, Pending, Over, stores, ghosts
  <1>9. CASE MovieAddFails
    <2>1. current \in Movie
      BY <1>9 DEF MovieAddFails, TypeInv, TypeOK, TurnTypeOK, PassTypeOK
    <2> QED
      BY <1>9, <2>1, PingDecided DEF MovieAddFails, Leaves, stores, ghosts
  <1>10. CASE Told
    BY <1>10 DEF Told, Leaves, PingPongInv, Pending, stores, ghosts, TypeInv, TypeOK, PassTypeOK
  <1>11. CASE HandRecords
    <2>1. /\ hand \in Release /\ MovieOf[hand] \in Movie
          /\ library \in [Movie -> WantedMovie \cup {None}]
          /\ replaced \in [Movie -> SUBSET Release]
      BY <1>11, Constants DEF HandRecords, TypeInv, TypeOK, WorldTypeOK, StoresTypeOK, GhostTypeOK
    <2>2. replaced'[MovieOf[hand]] = {}
      BY <1>11, <2>1 DEF HandRecords
    <2>3. \A n \in Movie \ {MovieOf[hand]} : replaced'[n] = replaced[n] /\ library'[n] = library[n]
      BY <1>11, <2>1, MarkGrabbedTyped DEF HandRecords
    <2> QED
      BY <1>11, <2>1, <2>2, <2>3, PingKept DEF HandRecords
  <1>12. ASSUME NEW m \in Movie, Watch(m) \/ Unwatch(m) \/ Regrab(m)
         PROVE  PingPongInv'
    <2>1. /\ \A n \in Movie \ {m} : library'[n] = library[n] /\ replaced'[n] = replaced[n]
          /\ replaced'[m] = {}
      BY <1>12 DEF Watch, Unwatch, Regrab, Forgotten, Watched, ghosts, PingPongInv, AboveAll,
                   TypeInv, TypeOK, StoresTypeOK, GhostTypeOK
    <2> QED
      BY <1>12, <2>1, PingKept DEF Watch, Unwatch, Regrab
  <1>13. CASE UNCHANGED <<pass, library, replaced>>
    BY <1>13, PingKept
  <1>14. CASE \/ \E r \in Release : TorrentGoes(r) \/ Pardon(r)
              \/ \E r \in HandReleases : HandAdds(r)
              \/ \E m \in Movie : JellyfinGains(m) \/ JellyfinLoses(m)
    BY <1>13, <1>14 DEF TorrentGoes, Pardon, HandAdds, JellyfinGains, JellyfinLoses, stores, ghosts
  <1>15. CASE UNCHANGED vars
    BY <1>13, <1>15 DEF vars, stores, ghosts
  <1>16. CASE Step
    BY <1>1, <1>2, <1>4, <1>5, <1>6, <1>7, <1>8, <1>9, <1>10, <1>16, PingRecords DEF Step
  <1>17. CASE Environment
    BY <1>3, <1>11, <1>12, <1>14, <1>17, PingTick DEF Environment
  <1> QED
    BY <1>15, <1>16, <1>17 DEF Next

(* With a list of qualities, and titles both functions read alike, no      *)
(* automatic replacement brings back a release that replacements took      *)
(* away, for any set of releases and any passes.                           *)
THEOREM NoPingPongCorrect ==
    ASSUME Ranked, QualitiesAgree
    PROVE  Spec => []NoPingPong
  <1>1. TypeInv /\ PingPongInv => NoPingPong
    <2> SUFFICES ASSUME TypeInv, PingPongInv, pc = "adding", mode \in {"upgrade", "repack"}
                 PROVE  pick \notin replaced[current] \cup {snapshot[current].release}
      BY DEF NoPingPong
    <2>1. /\ current \in Pending /\ current \in Movie /\ pick \in Release
          /\ replaced[current] \subseteq Release /\ snapshot[current] \in WantedMovie
      BY DEF TypeInv, TypeOK, TurnTypeOK, PassTypeOK, GhostTypeOK, Pending
    <2>2. snapshot[current].release \in Release
      BY <2>1 DEF TypeInv, ReplacesGrabbed, Choosing, Grabbed, WantedMovie
    <2>3. /\ Over(pick, snapshot[current].release)
          /\ \A t \in replaced[current] : Over(snapshot[current].release, t)
      BY <2>1 DEF PingPongInv, AboveAll
    <2> QED
      BY <2>1, <2>2, <2>3, OverOrder
  <1>2. TypeInv /\ PingPongInv /\ [Next]_vars => PingPongInv'
    BY PingStep
  <1> QED
    BY <1>1, <1>2, TypeInit, TypeStep, PingInit, PTL DEF Spec
=============================================================================
