-------------------------- MODULE SeriesHuntProofs --------------------------
(***************************************************************************)
(* The hunt for episodes sends nothing twice: for any seasons, packs,      *)
(* releases and windows, with any answer of the disk, Jellyfin and TMDB.   *)
(***************************************************************************)
EXTENDS SeriesHunt, TLAPS

(***************************************************************************)
(* The inductive invariant.                                                *)
(***************************************************************************)

Sending == {"next", "adding", "recording", "telling"}

(* From the reading of the history to the last hunt.                       *)
Hunting == pc \notin {"idle", "owned"} /\ mode = "hunt"

(* A hunt that is remembered is one the history accounts for.              *)
Accounted ==
    \A e \in Episode : hunted[e] # None =>
        \E r \in Release : recorded[r] # None /\ recorded[r] <= hunted[e] /\ e \in Spans(Keys[r])

(* What was hunted lately is on hand, or was hunted in this turn.          *)
RecentOnHand ==
    Hunting => \A e \in Episode :
        hunted[e] # None /\ hunted[e] <= Window => e \in Spans(have) \cup newly

(* What the pass was told of is on hand.                                   *)
ToldOnHand == Hunting => KeysOf(there) \cup kept \subseteq have

NothingSent == pc \notin Sending => newly = {} /\ sent = {}

HuntClaims ==
    mode = "hunt" =>
        /\ newly \subseteq claimed /\ sent = newly
        /\ pc \in {"adding", "recording"} =>
             /\ claim \subseteq claimed
             /\ claim \cap newly = {} /\ claim \cap Spans(have) = {}
             /\ claim \subseteq Spans(Keys[pick])

SwapClaims ==
    mode = "swap" =>
        /\ \A r \in todo : Named(r) \cap sent \subseteq newly
        /\ \A r, s \in todo : r # s => Named(r) \cap Named(s) = {}
        /\ pc \in {"adding", "recording"} =>
             /\ claim \cap sent = {}
             /\ \A r \in todo : Named(r) \cap claim = {}

Claims == NothingSent /\ HuntClaims /\ SwapClaims

IInv == TypeOK /\ Accounted /\ RecentOnHand /\ ToldOnHand /\ Claims

(***************************************************************************)
(* Keys and what a release brings.                                         *)
(***************************************************************************)

LEMMA SpansGrows ==
    ASSUME NEW keys, NEW more, keys \subseteq more
    PROVE  Spans(keys) \subseteq Spans(more)
  BY DEF Spans

LEMMA BringsNew ==
    ASSUME NEW r \in Release
    PROVE  /\ Brings(r) \subseteq Episode
           /\ Brings(r) \subseteq Spans(Keys[r])
           /\ Brings(r) \cap Spans(have) = {}
  BY DEF Brings, Named, Spans

LEMMA OnRecordKeys ==
    ASSUME TypeOK, marked # None
    PROVE  OnRecord \subseteq Key
  BY SeriesHuntAssumption DEF OnRecord, Marks, KeysOf, Recent, Historic, TypeOK, StoresTypeOK

LEMMA KeysOfKeys ==
    ASSUME NEW releases, releases \subseteq Release
    PROVE  KeysOf(releases) \subseteq Key
  BY SeriesHuntAssumption DEF KeysOf

LEMMA HuntsType ==
    ASSUME TypeOK, NEW picks \in Hunts
    PROVE  picks \subseteq Release
  BY DEF Hunts, Worthwhile, Candidates, TypeOK, PassTypeOK

LEMMA SwapsType ==
    ASSUME TypeOK, NEW picks \in Swaps
    PROVE  /\ picks \subseteq Release
           /\ \A r, s \in picks : r # s => Named(r) \cap Named(s) = {}
  BY DEF Swaps, Eligible, Overlap, TypeOK, PassTypeOK

LEMMA OlderType ==
    ASSUME NEW age \in Age \cup {None}
    PROVE  /\ Older(age) \in Age \cup {None}
           /\ Older(age) = None <=> age = None
  BY SeriesHuntAssumption DEF Older, Age

LEMMA OlderMonotone ==
    ASSUME NEW a \in Age, NEW b \in Age, a <= b
    PROVE  Older(a) <= Older(b)
  BY SeriesHuntAssumption DEF Older, Age

(***************************************************************************)
(* Types.                                                                  *)
(***************************************************************************)

LEMMA TypeInit == Init => TypeOK
  BY SeriesHuntAssumption
  DEF Init, TypeOK, StoresTypeOK, WorldTypeOK, PassTypeOK, PlanTypeOK, GhostTypeOK, Unrecorded, Key

LEMMA PassOverType ==
    ASSUME TypeOK, PassOver, hunted' = hunted
    PROVE  PassTypeOK' /\ PlanTypeOK' /\ GhostTypeOK'
  BY SeriesHuntAssumption
  DEF PassOver, Unrecorded, TypeOK, PassTypeOK, PlanTypeOK, GhostTypeOK

LEMMA StepType == TypeOK /\ Step => TypeOK'
  <1> SUFFICES ASSUME TypeOK, Step PROVE TypeOK'
    OBVIOUS
  <1> USE DEF TypeOK, StoresTypeOK, WorldTypeOK, PassTypeOK, PlanTypeOK, GhostTypeOK,
              stores, people, known, plan, pass, ghosts
  <1>1. CASE PassStarts
    BY <1>1, SeriesHuntAssumption DEF PassStarts
  <1>2. CASE NotWatched
    BY <1>2, PassOverType DEF NotWatched
  <1>3. CASE ListingAnswered
    BY <1>3, KeysOfKeys DEF ListingAnswered, Listed
  <1>4. CASE ListingFails
    BY <1>4, KeysOfKeys DEF ListingFails, Listed
  <1>5. ASSUME NEW answer \in Answers, HistoryRead(answer) PROVE TypeOK'
    <2>1. answer \subseteq Key /\ OnRecord \subseteq Key
      BY <1>5, OnRecordKeys, SeriesHuntAssumption DEF HistoryRead, Watched, Key
    <2>2. have' \subseteq Key /\ kept' \subseteq Key /\ records' \in [Release -> Age \cup {None}]
      BY <1>5, <2>1 DEF HistoryRead, Watched
    <2> QED
      BY <1>5, <2>2 DEF HistoryRead
  <1>6. ASSUME NEW answer \in Answers, EpisodesAnswered(answer) PROVE TypeOK'
    BY <1>6, SeriesHuntAssumption DEF EpisodesAnswered, Key
  <1>7. ASSUME NEW answer \in Answers, AirAnswered(answer) PROVE TypeOK'
    <2>1. answer \subseteq Episode
      BY SeriesHuntAssumption
    <2>2. call.feed \subseteq Release
      BY <1>7, SeriesHuntAssumption DEF AirAnswered, Call
    <2> QED
      BY <1>7, <2>1, <2>2 DEF AirAnswered
  <1>8. ASSUME NEW answer \in SUBSET Release, SearchAnswered(answer) PROVE TypeOK'
    BY <1>8 DEF SearchAnswered
  <1>9. CASE HuntsPicked
    BY <1>9, HuntsType DEF HuntsPicked
  <1>10. CASE SwapsPicked
    <2>1. todo' \subseteq Release
      BY <1>10, SwapsType DEF SwapsPicked
    <2>2. records' \in [Release -> Age \cup {None}]
      BY <1>10 DEF SwapsPicked, Unrecorded
    <2> QED
      BY <1>10, <2>1, <2>2 DEF SwapsPicked
  <1>11. ASSUME NEW r \in Release, HuntSent(r) PROVE TypeOK'
    BY <1>11, BringsNew, SeriesHuntAssumption DEF HuntSent
  <1>12. ASSUME NEW r \in Release, SwapSent(r) PROVE TypeOK'
    BY <1>12, SeriesHuntAssumption DEF SwapSent, Named
  <1>13. CASE SeriesAdds
    BY <1>13 DEF SeriesAdds
  <1>14. CASE SeriesAddFails
    BY <1>14 DEF SeriesAddFails
  <1>15. CASE SeriesRecords
    BY <1>15, SeriesHuntAssumption DEF SeriesRecords, Age
  <1>16. CASE Told
    BY <1>16 DEF Told
  <1>17. CASE TurnEnds
    BY <1>17, PassOverType DEF TurnEnds, Watched, Key
  <1> QED
    BY <1>1, <1>2, <1>3, <1>4, <1>5, <1>6, <1>7, <1>8, <1>9, <1>10, <1>11, <1>12, <1>13, <1>14,
       <1>15, <1>16, <1>17 DEF Step

LEMMA EnvironmentType == TypeOK /\ Environment => TypeOK'
  <1> SUFFICES ASSUME TypeOK, Environment PROVE TypeOK'
    OBVIOUS
  <1> USE DEF TypeOK, StoresTypeOK, WorldTypeOK, PassTypeOK, PlanTypeOK, GhostTypeOK,
              stores, people, known, plan, pass, ghosts, Edits
  <1>0. MaxEdits \in Nat /\ (edits < MaxEdits => edits + 1 \in 0 .. MaxEdits)
    BY SeriesHuntAssumption
  <1>1. ASSUME NEW r \in Release, TorrentGoes(r) PROVE TypeOK'
    BY <1>1 DEF TorrentGoes
  <1>2. ASSUME NEW r \in Release, Purged(r) PROVE TypeOK'
    <2>1. recorded' \in [Release -> Age \cup {None}]
      BY <1>2 DEF Purged
    <2>2. hunted' \in [Episode -> Age \cup {None}]
      BY <1>2 DEF Purged, Forgotten
    <2>3. marked' = None \/ marked' \subseteq Key
      BY <1>2 DEF Purged, Watched
    <2>4. /\ torrents' \subseteq Release /\ blacklist' \subseteq Release
          /\ edits' \in 0 .. MaxEdits /\ there' = {}
      <3>1. there = {}
        BY <1>2 DEF Purged
      <3> QED
        BY <1>0, <1>2, <3>1 DEF Purged
    <2>5. UNCHANGED <<hand, page, pass, kept, sent>>
      BY <1>2 DEF Purged
    <2> QED
      BY <2>1, <2>2, <2>3, <2>4, <2>5
  <1>3. ASSUME NEW r \in Release, Pardon(r) PROVE TypeOK'
    BY <1>3 DEF Pardon
  <1>4. ASSUME NEW r \in HandReleases, HandAdds(r) PROVE TypeOK'
    BY <1>0, <1>4, SeriesHuntAssumption DEF HandAdds
  <1>5. CASE HandRecords
    <2>1. hand \in Release /\ Keys[hand] \subseteq Key
      BY <1>5, SeriesHuntAssumption DEF HandRecords
    <2> QED
      BY <1>5, <2>1, SeriesHuntAssumption DEF HandRecords, Watched, Age
  <1>6. CASE HistoryCleared
    BY <1>0, <1>6 DEF HistoryCleared, Unrecorded, Forgotten
  <1>7. CASE Unwatch
    BY <1>0, <1>7 DEF Unwatch
  <1>8. ASSUME NEW key \in Key, ToggleAsked(key) PROVE TypeOK'
    <2> DEFINE read == IF Watched THEN marked ELSE {}
    <2>1. read \subseteq Key
      BY DEF Watched
    <2>2. CASE TogglesAtOnce(key, read)
      BY <1>0, <1>8, <2>1, <2>2 DEF ToggleAsked
    <2>3. CASE ~TogglesAtOnce(key, read)
      <3>1. page' = [key |-> key, read |-> read] /\ page' \in Toggle
        BY <1>8, <2>1, <2>3 DEF ToggleAsked, Toggle
      <3> QED
        BY <1>0, <1>8, <2>1, <2>3, <3>1 DEF ToggleAsked
    <2> QED
      BY <2>2, <2>3
  <1>9. CASE ToggleAnswered
    <2>1. page # None => page.key \in Key /\ page.read \subseteq Key
      BY DEF Toggle
    <2>2. CASE SeasonUnknown
      BY <2>2 DEF SeasonUnknown
    <2>3. ASSUME NEW episodes \in SUBSET Episode, SeasonToggled(episodes) PROVE TypeOK'
      BY <2>1, <2>3 DEF SeasonToggled, MarkGrabbed, UnmarkGrabbed, Watched, Key
    <2>4. ASSUME NEW episodes \in SUBSET Episode, EpisodeToggled(episodes) PROVE TypeOK'
      BY <2>1, <2>4 DEF EpisodeToggled, Watched, Key
    <2>5. \A s : EpisodesOf(s) \subseteq Episode
      BY DEF EpisodesOf
    <2> QED
      BY <1>9, <2>2, <2>3, <2>4, <2>5 DEF ToggleAnswered
  <1>10. CASE MarkAll
    BY <1>0, <1>10 DEF MarkAll
  <1>11. CASE UnmarkAll
    BY <1>0, <1>11 DEF UnmarkAll
  <1>12. CASE Restart
    BY <1>12, PassOverType DEF Restart
  <1>13. CASE Tick
    BY <1>13, OlderType DEF Tick
  <1> QED
    BY <1>1, <1>2, <1>3, <1>4, <1>5, <1>6, <1>7, <1>8, <1>9, <1>10, <1>11, <1>12, <1>13
    DEF Environment

LEMMA TypeStep == TypeOK /\ [Next]_vars => TypeOK'
  <1>1. TypeOK /\ UNCHANGED vars => TypeOK'
    BY DEF TypeOK, StoresTypeOK, WorldTypeOK, PassTypeOK, PlanTypeOK, GhostTypeOK, vars,
           stores, people, known, plan, pass, ghosts
  <1> QED
    BY <1>1, StepType, EnvironmentType DEF Next

(***************************************************************************)
(* What the rest of the system does to a pass: it ends it, or leaves it.   *)
(***************************************************************************)

LEMMA EnvironmentFrame ==
    ASSUME TypeOK, Environment
    PROVE  \/ PassOver
           \/ /\ UNCHANGED <<pass, sent>>
              /\ there' \subseteq there /\ kept' \subseteq kept
              /\ pc # "idle" => \A e \in Episode : hunted'[e] \in {hunted[e], None}
  <1> USE DEF pass, ghosts, Forgotten
  <1>0. hunted \in [Episode -> Age \cup {None}]
    BY DEF TypeOK, GhostTypeOK
  <1>1. ASSUME NEW r \in Release, TorrentGoes(r) \/ Purged(r) \/ Pardon(r)
        PROVE  /\ UNCHANGED <<pass, sent>>
               /\ there' \subseteq there /\ kept' \subseteq kept
               /\ pc # "idle" => hunted' = hunted
    BY <1>1 DEF TorrentGoes, Purged, Pardon
  <1>2. ASSUME NEW r \in HandReleases, HandAdds(r)
        PROVE  UNCHANGED <<pass, ghosts>>
    BY <1>2 DEF HandAdds
  <1>3. HandRecords \/ MarkAll => UNCHANGED <<pass, ghosts>>
    BY DEF HandRecords, MarkAll
  <1>4. HistoryCleared => /\ UNCHANGED <<pass, there, kept, sent>>
                          /\ \A e \in Episode : hunted'[e] = None
    BY DEF HistoryCleared
  <1>5. Unwatch \/ UnmarkAll => UNCHANGED <<pass, there, sent, hunted>> /\ kept' \subseteq kept
    BY DEF Unwatch, UnmarkAll
  <1>6. ASSUME NEW key \in Key, ToggleAsked(key)
        PROVE  UNCHANGED <<pass, there, sent, hunted>> /\ kept' \subseteq kept
    BY <1>6 DEF ToggleAsked
  <1>7. ToggleAnswered => UNCHANGED <<pass, there, sent, hunted>> /\ kept' \subseteq kept
    BY DEF ToggleAnswered, SeasonToggled, SeasonUnknown, EpisodeToggled
  <1>8. Restart => PassOver
    BY DEF Restart
  <1>9. Tick => UNCHANGED <<pass, there, kept, sent>> /\ pc = "idle"
    BY DEF Tick
  <1> QED
    BY <1>0, <1>1, <1>2, <1>3, <1>4, <1>5, <1>6, <1>7, <1>8, <1>9 DEF Environment

LEMMA HistoryFrame ==
    ASSUME [Next]_vars
    PROVE  \/ UNCHANGED <<recorded, hunted>>
           \/ SeriesRecords \/ HandRecords \/ HistoryCleared \/ Tick
           \/ \E r \in Release : Purged(r)
  <1>1. Step => UNCHANGED <<recorded, hunted>> \/ SeriesRecords
    BY DEF Step, PassStarts, NotWatched, HistoryRead, Listed, ListingAnswered, ListingFails,
           EpisodesAnswered, AirAnswered, SearchAnswered, HuntsPicked, SwapsPicked, HuntSent,
           SwapSent, SeriesAdds, SeriesAddFails, Told, TurnEnds, stores, ghosts
  <1>2. Environment => \/ UNCHANGED <<recorded, hunted>>
                       \/ HandRecords \/ HistoryCleared \/ Tick
                       \/ \E r \in Release : Purged(r)
    BY DEF Environment, TorrentGoes, Pardon, HandAdds, Unwatch, ToggleAsked, ToggleAnswered,
           SeasonToggled, SeasonUnknown, EpisodeToggled, MarkAll, UnmarkAll, Restart, stores, ghosts
  <1> QED
    BY <1>1, <1>2 DEF Next, vars, stores, ghosts

(***************************************************************************)
(* Every hunt that is remembered is accounted for.                         *)
(***************************************************************************)

LEMMA AccountedStep ==
    ASSUME TypeOK, Accounted, Claims, [Next]_vars
    PROVE  Accounted'
  <1> USE DEF TypeOK, StoresTypeOK, GhostTypeOK
  <1>1. CASE UNCHANGED <<recorded, hunted>>
    BY <1>1 DEF Accounted
  <1>2. CASE SeriesRecords
    <2> SUFFICES ASSUME NEW e \in Episode, hunted'[e] # None
                 PROVE  \E r \in Release : /\ recorded'[r] # None /\ recorded'[r] <= hunted'[e]
                                          /\ e \in Spans(Keys[r])
      BY DEF Accounted
    <2>1. pick \in Release /\ mode \in {"hunt", "swap"} /\ 0 # None
      BY <1>2, SeriesHuntAssumption DEF SeriesRecords, PlanTypeOK
    <2>2. recorded'[pick] = 0
      BY <1>2, <2>1 DEF SeriesRecords
    <2>3. CASE mode = "hunt" /\ e \in claim
      <3>1. hunted'[e] = 0 /\ e \in Spans(Keys[pick])
        BY <1>2, <2>3 DEF SeriesRecords, Claims, HuntClaims
      <3> QED
        BY <2>1, <2>2, <3>1
    <2>4. CASE ~(mode = "hunt" /\ e \in claim)
      <3>1. hunted'[e] = hunted[e] /\ hunted[e] \in Age
        BY <1>2, <2>4 DEF SeriesRecords
      <3>2. PICK r \in Release : recorded[r] # None /\ recorded[r] <= hunted[e] /\ e \in Spans(Keys[r])
        BY <3>1 DEF Accounted
      <3>3. recorded'[r] # None /\ recorded'[r] <= hunted'[e]
        BY <1>2, <2>1, <2>2, <3>1, <3>2 DEF SeriesRecords, Age
      <3> QED
        BY <3>2, <3>3
    <2> QED
      BY <2>3, <2>4
  <1>3. CASE HandRecords
    <2>1. hand \in Release /\ hunted' = hunted /\ 0 # None
      BY <1>3, SeriesHuntAssumption DEF HandRecords, WorldTypeOK, ghosts
    <2> SUFFICES ASSUME NEW e \in Episode, hunted[e] # None
                 PROVE  \E r \in Release : /\ recorded'[r] # None /\ recorded'[r] <= hunted[e]
                                          /\ e \in Spans(Keys[r])
      BY <2>1 DEF Accounted
    <2>2. PICK r \in Release : recorded[r] # None /\ recorded[r] <= hunted[e] /\ e \in Spans(Keys[r])
      BY DEF Accounted
    <2>3. recorded'[r] # None /\ recorded'[r] <= hunted[e]
      BY <1>3, <2>1, <2>2 DEF HandRecords, Age
    <2> QED
      BY <2>2, <2>3
  <1>4. CASE HistoryCleared
    BY <1>4 DEF HistoryCleared, Forgotten, Accounted
  <1>5. CASE Tick
    <2> SUFFICES ASSUME NEW e \in Episode, hunted'[e] # None
                 PROVE  \E r \in Release : /\ recorded'[r] # None /\ recorded'[r] <= hunted'[e]
                                          /\ e \in Spans(Keys[r])
      BY DEF Accounted
    <2>1. hunted'[e] = Older(hunted[e]) /\ hunted[e] \in Age
      BY <1>5, OlderType DEF Tick
    <2>2. hunted[e] # None
      BY <2>1, SeriesHuntAssumption DEF Age
    <2>3. PICK r \in Release : recorded[r] # None /\ recorded[r] <= hunted[e] /\ e \in Spans(Keys[r])
      BY <2>2 DEF Accounted
    <2>4. recorded[r] \in Age
      BY <2>3
    <2>5. recorded'[r] = Older(recorded[r])
      BY <1>5 DEF Tick
    <2>6. recorded'[r] # None /\ recorded'[r] <= hunted'[e]
      BY <2>1, <2>3, <2>4, <2>5, OlderType, OlderMonotone
    <2> QED
      BY <2>3, <2>6
  <1>6. ASSUME NEW p \in Release, Purged(p) PROVE Accounted'
    <2> SUFFICES ASSUME NEW e \in Episode, hunted'[e] # None
                 PROVE  \E r \in Release : /\ recorded'[r] # None /\ recorded'[r] <= hunted'[e]
                                          /\ e \in Spans(Keys[r])
      BY DEF Accounted
    <2>1. e \notin Spans(Keys[p]) /\ hunted'[e] = hunted[e]
      BY <1>6 DEF Purged, Forgotten
    <2>2. PICK r \in Release : recorded[r] # None /\ recorded[r] <= hunted[e] /\ e \in Spans(Keys[r])
      BY <2>1 DEF Accounted
    <2>3. Keys[r] # Keys[p]
      BY <2>1, <2>2
    <2>4. recorded'[r] = recorded[r]
      BY <1>6, <2>3 DEF Purged
    <2> QED
      BY <2>1, <2>2, <2>4
  <1> QED
    BY <1>1, <1>2, <1>3, <1>4, <1>5, <1>6, HistoryFrame

(***************************************************************************)
(* What is on hand, while the hunts last.                                  *)
(***************************************************************************)

LEMMA HistoryReadOnHand ==
    ASSUME TypeOK, Accounted, NEW found, HistoryRead(found)
    PROVE  /\ \A e \in Episode : hunted[e] # None /\ hunted[e] <= Window => e \in Spans(have')
           /\ kept' \subseteq have'
  <1> USE DEF TypeOK, StoresTypeOK, GhostTypeOK
  <1>1. ASSUME NEW e \in Episode, hunted[e] # None, hunted[e] <= Window
        PROVE  e \in Spans(have')
    <2>1. PICK r \in Release : recorded[r] # None /\ recorded[r] <= hunted[e] /\ e \in Spans(Keys[r])
      BY <1>1 DEF Accounted
    <2>2. recorded[r] \in Nat /\ hunted[e] \in Nat
      BY <1>1, <2>1 DEF Age
    <2>3. r \in Historic /\ r \in Recent
      BY <1>1, <2>1, <2>2, SeriesHuntAssumption DEF Historic, Recent
    <2>4. Keys[r] \subseteq have'
      BY <2>3 DEF HistoryRead, OnRecord, KeysOf
    <2> QED
      BY <2>1, <2>4, SpansGrows
  <1>2. kept' \subseteq have'
    BY DEF HistoryRead, OnRecord, Marks
  <1> QED
    BY <1>1, <1>2

LEMMA OnHandStep ==
    ASSUME TypeOK, Accounted, RecentOnHand, ToldOnHand, Claims, [Next]_vars
    PROVE  RecentOnHand' /\ ToldOnHand'
  <1> USE DEF RecentOnHand, ToldOnHand, Hunting
  <1>1. CASE UNCHANGED vars
    BY <1>1 DEF vars, pass, known, plan, ghosts
  <1>2. ASSUME PassOver PROVE RecentOnHand' /\ ToldOnHand'
    BY <1>2 DEF PassOver
  <1>3. CASE Environment
    <2>1. CASE PassOver
      BY <1>2, <2>1
    <2>2. ASSUME UNCHANGED <<pass, sent>>, there' \subseteq there, kept' \subseteq kept,
                 pc # "idle" => \A e \in Episode : hunted'[e] \in {hunted[e], None}
          PROVE  RecentOnHand' /\ ToldOnHand'
      <3>1. KeysOf(there') \subseteq KeysOf(there)
        BY <2>2 DEF KeysOf
      <3>2. UNCHANGED <<pc, mode, have, newly>>
        BY <2>2 DEF pass, known, plan
      <3>3. Spans(have)' = Spans(have)
        BY <3>2 DEF Spans
      <3>4. KeysOf(there)' = KeysOf(there')
        BY DEF KeysOf
      <3> QED
        BY <2>2, <3>1, <3>2, <3>3, <3>4
    <2> QED
      BY <1>3, <2>1, <2>2, EnvironmentFrame
  <1>4. ASSUME UNCHANGED <<have, newly, hunted, there, kept>>, Hunting' => Hunting
        PROVE  RecentOnHand' /\ ToldOnHand'
    BY <1>4 DEF Spans, KeysOf
  <1>5. ASSUME NEW more, have' = have \cup more, Hunting, UNCHANGED <<newly, hunted, kept>>,
               KeysOf(there') \subseteq have'
        PROVE  RecentOnHand' /\ ToldOnHand'
    <2>1. Spans(have) \subseteq Spans(have')
      BY <1>5, SpansGrows
    <2>2. Spans(have)' = Spans(have') /\ KeysOf(there)' = KeysOf(there')
      BY DEF Spans, KeysOf
    <2> QED
      BY <1>5, <2>1, <2>2
  <1>6. PassStarts => UNCHANGED <<have, newly, hunted, there, kept>> /\ ~Hunting'
    BY DEF PassStarts, known, plan, ghosts
  <1>7. NotWatched \/ TurnEnds => PassOver
    BY DEF NotWatched, TurnEnds
  <1>8. ASSUME NEW found \in Answers, HistoryRead(found) PROVE RecentOnHand' /\ ToldOnHand'
    <2>1. newly' = newly /\ hunted' = hunted /\ there' = {}
      BY <1>8 DEF HistoryRead, plan, TypeOK, GhostTypeOK
    <2>2. Spans(have)' = Spans(have') /\ KeysOf(there)' = KeysOf(there') /\ KeysOf({}) = {}
      BY DEF Spans, KeysOf
    <2> QED
      BY <1>8, <2>1, <2>2, HistoryReadOnHand
  <1>9. ASSUME NEW answer, Listed(answer) PROVE RecentOnHand' /\ ToldOnHand'
    <2>1. Hunting
      BY <1>9 DEF Listed, TypeOK, PlanTypeOK
    <2>2. have' = have \cup KeysOf(answer) /\ there' = answer /\ UNCHANGED <<newly, hunted, kept>>
      BY <1>9 DEF Listed, plan
    <2> QED
      BY <1>5, <2>1, <2>2
  <1>10. ASSUME NEW answer \in Answers, EpisodesAnswered(answer) PROVE RecentOnHand' /\ ToldOnHand'
    <2>1. Hunting
      BY <1>10 DEF EpisodesAnswered, TypeOK, PlanTypeOK
    <2>2. have' = have \cup answer /\ UNCHANGED <<newly, hunted, kept, there>>
      BY <1>10 DEF EpisodesAnswered, plan, ghosts
    <2> QED
      BY <1>5, <2>1, <2>2
  <1>11. ASSUME NEW answer, AirAnswered(answer) \/ SearchAnswered(answer)
         PROVE  RecentOnHand' /\ ToldOnHand'
    BY <1>4, <1>11 DEF AirAnswered, SearchAnswered, plan, ghosts
  <1>12. HuntsPicked \/ SeriesAdds \/ SeriesAddFails \/ Told => RecentOnHand' /\ ToldOnHand'
    BY <1>4 DEF HuntsPicked, SeriesAdds, SeriesAddFails, Told, known, plan, ghosts
  <1>13. ASSUME NEW r \in Release, HuntSent(r) \/ SwapSent(r) PROVE RecentOnHand' /\ ToldOnHand'
    BY <1>4, <1>13 DEF HuntSent, SwapSent, known, ghosts
  <1>14. CASE SwapsPicked
    BY <1>14 DEF SwapsPicked
  <1>15. CASE SeriesRecords
    <2>1. UNCHANGED <<have, there, kept, mode>>
      BY <1>15 DEF SeriesRecords, known
    <2>2. Hunting' => Hunting
      BY <1>15, <2>1 DEF SeriesRecords
    <2>3. Hunting => newly' = newly \cup claim
      BY <1>15 DEF SeriesRecords
    <2>4. \A e \in Episode : hunted'[e] = hunted[e] \/ (mode = "hunt" /\ e \in claim)
      BY <1>15 DEF SeriesRecords, TypeOK, GhostTypeOK
    <2>5. Spans(have)' = Spans(have) /\ KeysOf(there)' = KeysOf(there)
      BY <2>1 DEF Spans, KeysOf
    <2> QED
      BY <2>1, <2>2, <2>3, <2>4, <2>5
  <1> QED
    BY <1>1, <1>2, <1>3, <1>6, <1>7, <1>8, <1>9, <1>10, <1>11, <1>12, <1>13, <1>14, <1>15
    DEF Next, Step, ListingAnswered, ListingFails

(***************************************************************************)
(* What a pass claims, it claims once.                                     *)
(***************************************************************************)

LEMMA ClaimsFrame ==
    ASSUME Claims, UNCHANGED <<pc, have, mode, todo, claimed, newly, pick, claim, sent>>
    PROVE  Claims'
  BY DEF Claims, NothingSent, HuntClaims, SwapClaims, Spans, Named

LEMMA ClaimsBefore ==
    ASSUME TypeOK, Claims, pc \notin Sending, pc' \notin {"adding", "recording"},
           UNCHANGED <<mode, newly, sent, claimed>>
    PROVE  Claims'
  BY DEF TypeOK, PlanTypeOK, Claims, NothingSent, HuntClaims, SwapClaims, Sending

LEMMA ClaimsStep ==
    ASSUME TypeOK, Claims, [Next]_vars
    PROVE  Claims'
  <1>1. CASE UNCHANGED vars
    BY <1>1, ClaimsFrame DEF vars, pass, known, plan, ghosts
  <1>2. ASSUME PassOver PROVE Claims'
    BY <1>2 DEF PassOver, Claims, NothingSent, HuntClaims, SwapClaims
  <1>3. CASE Environment
    BY <1>2, <1>3, EnvironmentFrame, ClaimsFrame DEF pass, known, plan
  <1>4. NotWatched \/ TurnEnds => PassOver
    BY DEF NotWatched, TurnEnds
  <1>5. PassStarts => Claims'
    BY ClaimsBefore DEF PassStarts, plan, ghosts, Sending
  <1>6. ASSUME NEW answer, \/ HistoryRead(answer) \/ Listed(answer) \/ EpisodesAnswered(answer)
                           \/ AirAnswered(answer) \/ SearchAnswered(answer)
        PROVE  Claims'
    <2>1. pc \notin Sending /\ pc' \notin {"adding", "recording"}
      BY <1>6 DEF HistoryRead, Listed, EpisodesAnswered, AirAnswered, SearchAnswered, Sending
    <2>2. UNCHANGED <<mode, newly, sent, claimed>>
      BY <1>6 DEF HistoryRead, Listed, EpisodesAnswered, AirAnswered, SearchAnswered, plan, ghosts
    <2> QED
      BY <2>1, <2>2, ClaimsBefore
  <1>7. CASE HuntsPicked
    BY <1>7, ClaimsBefore DEF HuntsPicked, ghosts, Sending
  <1>8. ASSUME NEW r \in Release, HuntSent(r) PROVE Claims'
    <2>1. /\ newly \subseteq claimed /\ sent = newly
          /\ UNCHANGED <<newly, sent, mode, have>> /\ mode = "hunt" /\ pick' = r
          /\ claim' = Brings(r) \ claimed /\ claimed' = claimed \cup Brings(r)
      BY <1>8 DEF HuntSent, Claims, HuntClaims, known, ghosts
    <2>2. claim' \cap newly = {} /\ claim' \cap Spans(have) = {} /\ claim' \subseteq Spans(Keys[r])
      BY <2>1, BringsNew
    <2>3. Spans(have)' = Spans(have) /\ Spans(Keys[pick])' = Spans(Keys[r])
      BY <2>1 DEF Spans
    <2>4. pc' = "adding"
      BY <1>8 DEF HuntSent
    <2> QED
      BY <2>1, <2>2, <2>3, <2>4 DEF Claims, NothingSent, HuntClaims, SwapClaims, Sending
  <1>9. CASE SwapsPicked
    <2>1. sent = newly /\ UNCHANGED <<pc, sent, newly>> /\ mode' = "swap" /\ pc = "next"
      BY <1>9 DEF SwapsPicked, Claims, HuntClaims
    <2>2. \A r, s \in todo' : r # s => Named(r) \cap Named(s) = {}
      BY <1>9, SwapsType DEF SwapsPicked
    <2>3. \A r : Named(r)' = Named(r)
      BY DEF Named
    <2> QED
      BY <2>1, <2>2, <2>3 DEF Claims, NothingSent, HuntClaims, SwapClaims, Sending
  <1>10. ASSUME NEW r \in Release, SwapSent(r) PROVE Claims'
    <2>1. /\ r \in todo /\ todo' = todo \ {r}
          /\ mode = "swap" /\ UNCHANGED <<mode, newly, sent>> /\ pc = "next"
      BY <1>10 DEF SwapSent, ghosts
    <2>2. \A s : Named(s)' = Named(s)
      BY DEF Named
    <2>3. CASE Swappable(r)
      <3>1. claim' = Named(r) /\ pc' = "adding"
        BY <1>10, <2>3 DEF SwapSent
      <3>2. claim' \cap sent = {}
        BY <2>1, <2>3, <3>1 DEF Swappable, Claims, SwapClaims
      <3>3. \A s \in todo' : Named(s) \cap claim' = {}
        BY <2>1, <3>1 DEF Claims, SwapClaims
      <3> QED
        BY <2>1, <2>2, <3>1, <3>2, <3>3 DEF Claims, NothingSent, HuntClaims, SwapClaims, Sending
    <2>4. CASE ~Swappable(r)
      <3>1. pc' = "next"
        BY <1>10, <2>1, <2>4 DEF SwapSent
      <3> QED
        BY <2>1, <2>2, <3>1 DEF Claims, NothingSent, HuntClaims, SwapClaims, Sending
    <2> QED
      BY <2>3, <2>4
  <1>11. CASE SeriesAdds
    <2>1. pc = "adding" /\ pc' = "recording" /\ UNCHANGED <<have, mode, todo, claimed, newly, pick, claim, sent>>
      BY <1>11 DEF SeriesAdds, known, plan, ghosts
    <2> QED
      BY <2>1 DEF Claims, NothingSent, HuntClaims, SwapClaims, Spans, Named, Sending
  <1>12. CASE SeriesAddFails
    BY <1>12 DEF SeriesAddFails, ghosts, Claims, NothingSent, HuntClaims, SwapClaims, Named, Sending
  <1>13. CASE SeriesRecords
    <2>1. /\ pc = "recording" /\ pc' = "telling" /\ sent' = sent \cup claim
          /\ newly' = IF mode = "hunt" THEN newly \cup claim ELSE newly
          /\ UNCHANGED <<mode, todo, claimed>>
      BY <1>13 DEF SeriesRecords
    <2>2. \A r : Named(r)' = Named(r)
      BY DEF Named
    <2>3. CASE mode = "hunt"
      BY <2>1, <2>3 DEF Claims, NothingSent, HuntClaims, SwapClaims, Sending
    <2>4. CASE mode = "swap"
      BY <2>1, <2>2, <2>4 DEF Claims, NothingSent, HuntClaims, SwapClaims, Sending
    <2> QED
      BY <2>3, <2>4 DEF TypeOK, PlanTypeOK
  <1>14. CASE Told
    BY <1>14 DEF Told, ghosts, Claims, NothingSent, HuntClaims, SwapClaims, Named, Sending
  <1> QED
    BY <1>1, <1>2, <1>3, <1>4, <1>5, <1>6, <1>7, <1>8, <1>9, <1>10, <1>11, <1>12, <1>13, <1>14
    DEF Next, Step, ListingAnswered, ListingFails

(***************************************************************************)
(* Theorems.                                                               *)
(***************************************************************************)

LEMMA InitIInv == Init => IInv
  <1> SUFFICES ASSUME Init PROVE IInv
    OBVIOUS
  <1>1. Accounted /\ RecentOnHand /\ ToldOnHand
    BY DEF Init, Accounted, RecentOnHand, ToldOnHand, Hunting
  <1>2. Claims
    BY DEF Init, Claims, NothingSent, HuntClaims, SwapClaims
  <1> QED
    BY <1>1, <1>2, TypeInit DEF IInv

LEMMA StepIInv == IInv /\ [Next]_vars => IInv'
  BY TypeStep, AccountedStep, OnHandStep, ClaimsStep DEF IInv

LEMMA Inductive == Spec => []IInv
  BY InitIInv, StepIInv, PTL DEF Spec

(* Every variable of the hunt keeps its type, whatever the pages, people,  *)
(* Transmission and restarts do.                                           *)
THEOREM TypeCorrect == Spec => []TypeOK
  <1>1. IInv => TypeOK
    BY DEF IInv
  <1> QED
    BY <1>1, Inductive, PTL

(* No episode is hunted twice within the cooldown: what was hunted lately  *)
(* is in the history, by its own key or by that of a pack, hence on hand.  *)
THEOREM SpacedForAll == Spec => []HuntsSpaced
  <1>1. IInv => HuntsSpaced
    <2> SUFFICES ASSUME IInv, pc = "adding", mode = "hunt", NEW e \in claim, hunted[e] # None
                 PROVE  hunted[e] > Window
      BY DEF HuntsSpaced
    <2>1. e \in Episode /\ hunted[e] \in Nat
      BY DEF IInv, TypeOK, PlanTypeOK, GhostTypeOK, Age
    <2>2. e \notin Spans(have) /\ e \notin newly
      BY DEF IInv, Claims, HuntClaims
    <2>3. ~(hunted[e] <= Window)
      BY <2>1, <2>2 DEF IInv, RecentOnHand, Hunting
    <2> QED
      BY <2>1, <2>3, SeriesHuntAssumption
  <1> QED
    BY <1>1, Inductive, PTL

(* What Transmission holds, or the marks say, is not hunted.               *)
THEOREM NotOnHandForAll == Spec => []NotOnHand
  <1>1. IInv => NotOnHand
    <2> SUFFICES ASSUME IInv, pc = "adding", mode = "hunt"
                 PROVE  claim \cap Spans(KeysOf(there) \cup kept) = {}
      BY DEF NotOnHand
    <2>1. KeysOf(there) \cup kept \subseteq have
      BY DEF IInv, ToldOnHand, Hunting
    <2>2. Spans(KeysOf(there) \cup kept) \subseteq Spans(have)
      BY <2>1, SpansGrows
    <2> QED
      BY <2>2 DEF IInv, Claims, HuntClaims
  <1> QED
    BY <1>1, Inductive, PTL

(* No episode is claimed by two sendings of a pass.                        *)
THEOREM OnceForAll == Spec => []OncePerPass
  <1>1. IInv => OncePerPass
    BY DEF IInv, TypeOK, PlanTypeOK, Claims, HuntClaims, SwapClaims, OncePerPass
  <1> QED
    BY <1>1, Inductive, PTL
=============================================================================
