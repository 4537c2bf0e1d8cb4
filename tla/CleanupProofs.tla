--------------------------- MODULE CleanupProofs ---------------------------
(***************************************************************************)
(* The cleanup of duplicates loses nothing, for any number of copies, names, *)
(* folders and handlers, whatever people, downloads and other cleanups do  *)
(* meanwhile: as long as its listing is younger than Transmission's        *)
(* process, and for what shares files only with what it overlaps. What its *)
(* page proposes is sound in every state, whatever else happens.           *)
(***************************************************************************)
EXTENDS Cleanup, FiniteSetTheorems, WellFoundedInduction, TLAPS

LEMMA LibraryTypes ==
    ASSUME TypeOK
    PROVE  name \in [Copy -> Name] /\ place \in [Copy -> Place]
  <1>1. <<name, place>> \in [Copy -> Name] \X [Copy -> Place]
    BY CleanupAssumption DEF TypeOK
  <1> QED
    BY <1>1

LEMMA CopyNumbers == Copy \subseteq Nat /\ IsFiniteSet(Copy)
  <1>1. Cardinality(Copy) \in Nat
    BY CleanupAssumption, FS_CardinalityType
  <1> QED
    BY <1>1, CleanupAssumption

LEMMA UnitsType ==
    ASSUME TypeOK, NEW c \in Copy
    PROVE  units(c) \subseteq Unit /\ units(c) # {}
  <1>1. name[c] \in Name
    BY LibraryTypes
  <1>2. UnitsOf[name[c]] \in (SUBSET Unit) \ {{}}
    BY <1>1, CleanupAssumption
  <1> QED
    BY <1>2 DEF units

(***************************************************************************)
(* Groups: the classes of an equivalence, which shrink with the listing.   *)
(***************************************************************************)

LEMMA ClusterClosed ==
    ASSUME NEW listed, NEW c, NEW a \in Cluster(c, listed), NEW b \in listed, Overlap(a, b)
    PROVE  b \in Cluster(c, listed)
  BY DEF Cluster

LEMMA GroupClosed ==
    ASSUME NEW listed, NEW g \in Groups(listed), NEW a \in g, NEW b \in listed, Overlap(a, b)
    PROVE  b \in g
  BY ClusterClosed DEF Groups

LEMMA GroupListed ==
    ASSUME NEW listed, NEW g \in Groups(listed)
    PROVE  g \subseteq listed
  BY DEF Groups, Cluster

LEMMA CoveredByOne ==
    ASSUME NEW copies, NEW u, Covered(u, Content(copies))
    PROVE  \E k \in copies : Covered(u, units(k))
  BY DEF Covered, Content

LEMMA ClusterHas ==
    ASSUME NEW listed, NEW c \in listed
    PROVE  c \in Cluster(c, listed) /\ Cluster(c, listed) \subseteq listed
  BY DEF Cluster

(* A closed set that has c has its cluster.                                *)
LEMMA ClusterLeast ==
    ASSUME NEW listed, NEW c, NEW S \in SUBSET listed, c \in S,
           \A a \in S, b \in listed : Overlap(a, b) => b \in S
    PROVE  Cluster(c, listed) \subseteq S
  BY DEF Cluster

LEMMA ClusterSame ==
    ASSUME NEW listed, NEW c \in listed, NEW k \in Cluster(c, listed)
    PROVE  Cluster(k, listed) = Cluster(c, listed)
  <1>1. k \in listed
    BY ClusterHas
  <1>2. Cluster(k, listed) \subseteq Cluster(c, listed)
    BY <1>1, ClusterHas, ClusterClosed, ClusterLeast
  <1>3. \A a, b : Overlap(a, b) => Overlap(b, a)
    BY DEF Overlap
  <1>4. c \in Cluster(k, listed)
    <2> SUFFICES ASSUME c \notin Cluster(k, listed) PROVE FALSE
      OBVIOUS
    <2> DEFINE S == Cluster(c, listed) \ Cluster(k, listed)
    <2>1. ASSUME NEW a \in S, NEW b \in listed, Overlap(a, b) PROVE b \in S
      <3>1. b \in Cluster(c, listed)
        BY <2>1, ClusterClosed
      <3>2. b \notin Cluster(k, listed)
        <4> SUFFICES ASSUME b \in Cluster(k, listed) PROVE FALSE
          OBVIOUS
        <4>1. Overlap(b, a) /\ a \in listed
          BY <1>3, <2>1, ClusterHas
        <4>2. a \in Cluster(k, listed)
          BY <4>1, ClusterClosed
        <4> QED
          BY <2>1, <4>2
      <3> QED
        BY <3>1, <3>2
    <2>2. S \in SUBSET listed /\ c \in S
      BY ClusterHas
    <2>3. Cluster(c, listed) \subseteq S
      <3> HIDE DEF S
      <3> QED
        BY <2>1, <2>2, ClusterLeast
    <2>4. k \in Cluster(k, listed)
      BY <1>1, ClusterHas
    <2> QED
      BY <2>3, <2>4
  <1>5. Cluster(c, listed) \subseteq Cluster(k, listed)
    BY <1>1, <1>4, ClusterHas, ClusterClosed, ClusterLeast
  <1> QED
    BY <1>2, <1>5

(* A copy is in one group at most.                                         *)
LEMMA GroupsApart ==
    ASSUME NEW listed, NEW g \in Groups(listed), NEW h \in Groups(listed), NEW k \in g, k \in h
    PROVE  g = h
  <1>1. PICK c \in listed : g = Cluster(c, listed)
    BY DEF Groups
  <1>2. PICK d \in listed : h = Cluster(d, listed)
    BY DEF Groups
  <1> QED
    BY <1>1, <1>2, ClusterSame

(* A group of a shorter listing is part of a group of the listing.         *)
LEMMA GroupShrinks ==
    ASSUME TypeOK, NEW listed \in SUBSET Copy, NEW left \in SUBSET listed, NEW g \in Groups(left)
    PROVE  \E h \in Groups(listed) : g \subseteq h
  <1>1. PICK c \in left : g = Cluster(c, left)
    BY DEF Groups
  <1> DEFINE h == Cluster(c, listed)
  <1>2. /\ c \in h /\ h \subseteq listed
        /\ \A a \in h, b \in listed : Overlap(a, b) => b \in h
    BY <1>1, ClusterHas, ClusterClosed
  <1>3. g \subseteq h
    <2> DEFINE S == h \cap left
    <2>1. S \in SUBSET left /\ c \in S /\ \A a \in S, b \in left : Overlap(a, b) => b \in S
      BY <1>1, <1>2
    <2>2. g \subseteq S
      <3> HIDE DEF S
      <3> QED
        BY <1>1, <2>1, ClusterLeast
    <2> QED
      BY <2>2
  <1>4. Cardinality(h) >= 2
    <2>1. IsFiniteSet(h)
      BY <1>2, CleanupAssumption, FS_Subset
    <2>2. Cardinality(g) <= Cardinality(h) /\ Cardinality(h) \in Nat
      BY <1>3, <2>1, FS_Subset, FS_CardinalityType
    <2>3. Cardinality(g) >= 2 /\ IsFiniteSet(g)
      BY <1>3, <2>1, FS_Subset DEF Groups
    <2>4. Cardinality(g) \in Nat
      BY <2>3, FS_CardinalityType
    <2> QED
      BY <2>2, <2>3, <2>4
  <1>5. h \in Groups(listed)
    BY <1>1, <1>4 DEF Groups
  <1> QED
    BY <1>3, <1>5

(* More copies hold more.                                                  *)
LEMMA HoldsMore ==
    ASSUME NEW A, NEW B, A \subseteq B, NEW held, Holds(Content(A), held)
    PROVE  Holds(Content(B), held)
  BY DEF Holds, Covered, Content

(***************************************************************************)
(* The inductive invariant. Numbers name the torrents that are there; those *)
(* of a listing younger than Transmission's process name what they named   *)
(* in it; and a judgement on duplicates was sound for its listing, which   *)
(* no later step can change.                                               *)
(***************************************************************************)

Numbered ==
    /\ \A c \in Copy : c \in There <=> id[c] # 0
    /\ \A c \in There : id[c] < nextId
    /\ \A c, d \in There : id[c] = id[d] => c = d

Listed(h) == {c \in Copy : seen[h][c] # 0}

Named(h) ==
    /\ targets[h] \subseteq Listed(h)
    /\ \A c \in Copy : seen[h][c] < nextId
    /\ \A c \in Listed(h), d \in There : id[d] = seen[h][c] => c = d

SoundFor(removed, listed, relied) ==
    /\ \A r \in removed, d \in listed \ removed : Overlap(r, d) => ~SharesPath(r, d)
    /\ \A r \in removed, k \in relied \ removed : ~SharesPath(r, k)
    /\ Holds(Content(relied \ removed), Content(relied))

Sound(h) ==
    \/ job[h] = "duplicates" /\ SoundFor(targets[h], Listed(h), counted[h])
    \/ job[h] = "errors" /\ counted[h] = {}

IInv == TypeOK /\ Numbered /\ \A h \in Removing \ stale : Named(h) /\ Sound(h)

LEMMA TypeInit == Init => TypeOK
  <1> SUFFICES ASSUME Init PROVE TypeOK
    OBVIOUS
  <1>1. <<name, place>> \in Libraries
    <2>1. PICK l \in Libraries : name = l[1] /\ place = l[2]
      BY DEF Init
    <2>2. l = <<l[1], l[2]>>
      BY CleanupAssumption
    <2> QED
      BY <2>1, <2>2
  <1>2. Cardinality(Copy) \in Nat /\ Copy \subseteq Nat
    BY CleanupAssumption, FS_CardinalityType
  <1>3. id \in [Copy -> Nat] /\ nextId \in Nat \ {0}
    BY <1>2 DEF Init
  <1>4. stale \subseteq Removing
    BY DEF Init
  <1> QED
    BY <1>1, <1>3, <1>4 DEF Init, TypeOK

LEMMA TypeStep == TypeOK /\ [Next]_vars => TypeOK'
  <1> SUFFICES ASSUME TypeOK, [Next]_vars PROVE TypeOK'
    OBVIOUS
  <1> USE DEF TypeOK, library, client, handlers, Removing
  <1>1. ASSUME NEW c \in Copy, ErrorChanges(c) PROVE TypeOK'
    <2>1. PICK e \in Reportable(c) : error' = [error EXCEPT ![c] = e]
      BY <1>1 DEF ErrorChanges
    <2>2. e \in {"fine", "tracker", "local"} /\ (data[c] => e # "local")
      BY <2>1 DEF Reportable
    <2>3. error' \in [Copy -> {"fine", "tracker", "local"}]
      BY <2>1, <2>2
    <2>4. \A d \in Copy : data[d] => complete[d] /\ error'[d] # "local"
      BY <2>1, <2>2
    <2>5. UNCHANGED <<library, stage, complete, data, id, nextId, handlers>>
      BY <1>1 DEF ErrorChanges
    <2> QED
      BY <2>3, <2>4, <2>5
  <1>2. ASSUME NEW c \in Copy, Completes(c) PROVE TypeOK'
    <2>1. /\ complete' \in [Copy -> BOOLEAN] /\ data' \in [Copy -> BOOLEAN]
          /\ error' \in [Copy -> {"fine", "tracker", "local"}]
      BY <1>2 DEF Completes
    <2>2. \A d \in Copy : data'[d] => complete'[d] /\ error'[d] # "local"
      BY <1>2 DEF Completes
    <2>3. UNCHANGED <<library, stage, id, nextId, handlers>>
      BY <1>2 DEF Completes
    <2> QED
      BY <2>1, <2>2, <2>3
  <1>3. ASSUME NEW c \in Copy, Added(c) PROVE TypeOK'
    BY <1>3 DEF Added
  <1>4. ASSUME NEW hit, NEW f, Removed(hit, f)
        PROVE  /\ stage' \in [Copy -> {"coming", "there", "gone"}]
               /\ complete' \in [Copy -> BOOLEAN] /\ data' \in [Copy -> BOOLEAN]
               /\ error' \in [Copy -> {"fine", "tracker", "local"}]
               /\ id' \in [Copy -> Nat] /\ nextId' \in Nat \ {0}
               /\ \A d \in Copy : data'[d] => complete'[d] /\ error'[d] # "local"
    <2>1. data' \in [Copy -> BOOLEAN] /\ \A d \in Copy : data'[d] => data[d]
      BY <1>4 DEF Removed
    <2>2. stage' \in [Copy -> {"coming", "there", "gone"}] /\ id' \in [Copy -> Nat]
      BY <1>4 DEF Removed
    <2> QED
      BY <1>4, <2>1, <2>2 DEF Removed
  <1>5. ASSUME NEW c \in Copy, NEW f \in BOOLEAN, HandRemoves(c, f) PROVE TypeOK'
    BY <1>4, <1>5 DEF HandRemoves
  <1>6. ASSUME ClientRestarts PROVE TypeOK'
    <2>1. PICK number \in Numbering :
              id' = [c \in Copy |-> IF c \in There THEN number[c] ELSE 0]
      BY <1>6 DEF ClientRestarts
    <2>2. Cardinality(Copy) \in Nat
      BY CleanupAssumption, FS_CardinalityType
    <2>3. id' \in [Copy -> Nat] /\ nextId' \in Nat \ {0}
      BY <1>6, <2>1, <2>2, CleanupAssumption DEF ClientRestarts
    <2> QED
      BY <1>6, <2>3 DEF ClientRestarts
  <1>7. ASSUME NEW h \in Handler, NEW j \in {"duplicates", "errors"}, Posts(h, j) PROVE TypeOK'
    BY <1>7 DEF Posts
  <1>8. ASSUME NEW h \in Handler, ListingFails(h) PROVE TypeOK'
    BY <1>8 DEF ListingFails
  <1>9. ASSUME NEW h \in Handler, NEW copies \in SUBSET Copy, NEW relied \in SUBSET Copy,
               phase[h] = "listing", Takes(h, copies, relied)
        PROVE  TypeOK'
    BY <1>9 DEF Takes
  <1>10. ASSUME NEW h \in Handler, NEW wanted \in SUBSET Copy, DuplicatesJudged(h, wanted)
         PROVE  TypeOK'
    <2>1. Reliable({c \in There : Usable(c)}, There) \subseteq Copy
      BY DEF Reliable, There
    <2> QED
      BY <1>9, <1>10, <2>1 DEF DuplicatesJudged
  <1>11. ASSUME NEW h \in Handler, NEW wanted \in SUBSET Copy, ErrorsJudged(h, wanted)
         PROVE  TypeOK'
    BY <1>9, <1>11 DEF ErrorsJudged
  <1>12. ASSUME NEW h \in Handler, NEW c \in todo[h], Tried(h, c)
         PROVE  /\ phase' \in [Handler -> {"idle", "listing", "removing"}]
                /\ job' \in [Handler -> {"duplicates", "errors"}]
                /\ targets' \in [Handler -> SUBSET Copy] /\ todo' \in [Handler -> SUBSET Copy]
                /\ seen' \in [Handler -> [Copy -> Nat]]
                /\ counted' \in [Handler -> SUBSET Copy]
                /\ stale' \subseteq Removing'
                /\ \A g \in Handler : /\ todo'[g] # {} <=> phase'[g] = "removing"
                                      /\ todo'[g] \subseteq targets'[g]
                /\ <<name, place>>' \in Libraries
    BY <1>12 DEF Tried
  <1>13. ASSUME NEW h \in Handler, NEW c \in Copy, Removes(h, c) PROVE TypeOK'
    BY <1>4, <1>12, <1>13 DEF Removes
  <1>14. ASSUME NEW h \in Handler, NEW c \in Copy, RemovalFails(h, c) PROVE TypeOK'
    BY <1>12, <1>14 DEF RemovalFails
  <1>15. CASE UNCHANGED vars
    BY <1>15 DEF vars
  <1> QED
    BY <1>1, <1>2, <1>3, <1>5, <1>6, <1>7, <1>8, <1>10, <1>11, <1>13, <1>14, <1>15 DEF Next

(* Every reachable state is well typed: a handler that removes has copies  *)
(* left to try, all of them among its targets.                             *)
THEOREM TypeCorrect == Spec => []TypeOK
  BY TypeInit, TypeStep, PTL DEF Spec

(***************************************************************************)
(* The judgement of a choice.                                              *)
(***************************************************************************)

Chosen(wanted) == {g \in Groups(There) : g \cap wanted # {}}

Picked(wanted) == wanted \cap UNION Chosen(wanted)

LEMMA SharesBothWays ==
    ASSUME NEW a, NEW b, SharesPath(a, b)
    PROVE  SharesPath(b, a)
  BY DEF SharesPath

LEMMA OverlapsBothWays ==
    ASSUME NEW a, NEW b, Overlap(a, b)
    PROVE  Overlap(b, a)
  BY DEF Overlap

(* What stays of the listing and overlaps a target is of its group, hence  *)
(* was compared with it.                                                   *)
LEMMA JudgedApart ==
    ASSUME NEW wanted, NEW good,
           \A g \in Chosen(wanted) : RemovalIsSafe(g, good, g \cap wanted),
           NEW r \in Picked(wanted), NEW d \in There \ Picked(wanted), Overlap(r, d)
    PROVE  ~SharesPath(r, d)
  <1>1. PICK g \in Chosen(wanted) : r \in g
    BY DEF Picked
  <1>2. g \in Groups(There)
    BY <1>1 DEF Chosen
  <1>3. d \in g
    BY <1>1, <1>2, GroupClosed
  <1>4. r \in g \cap wanted /\ d \in g \ (g \cap wanted)
    BY <1>1, <1>3 DEF Picked
  <1>5. ~SameFiles(r, d)
    BY <1>1, <1>4 DEF RemovalIsSafe, Apart
  <1> QED
    BY <1>5 DEF SameFiles

(* Nothing shares the files of a reliable copy without overlapping it.     *)
LEMMA JudgedSpares ==
    ASSUME NEW wanted, NEW good,
           \A g \in Chosen(wanted) : RemovalIsSafe(g, good, g \cap wanted),
           good \subseteq There,
           NEW r \in Picked(wanted), NEW k \in Reliable(good, There) \ Picked(wanted)
    PROVE  ~SharesPath(r, k)
  <1> SUFFICES ASSUME SharesPath(r, k) PROVE FALSE
    OBVIOUS
  <1>1. k \in There /\ k \in Cluster(k, There)
    BY ClusterHas DEF Reliable
  <1>2. r \in There
    BY GroupListed DEF Picked, Chosen
  <1>3. SharesPath(k, r)
    BY SharesBothWays
  <1>4. Overlap(k, r)
    BY <1>1, <1>2, <1>3 DEF Reliable
  <1>5. Overlap(r, k)
    BY <1>4, OverlapsBothWays
  <1> QED
    BY <1>1, <1>5, JudgedApart

(* What a removed copy held is held by a copy of its group that stays, and  *)
(* which is as reliable.                                                   *)
LEMMA JudgedKept ==
    ASSUME NEW wanted, NEW good,
           \A g \in Chosen(wanted) : RemovalIsSafe(g, good, g \cap wanted),
           good \subseteq There
    PROVE  Holds(Content(Reliable(good, There) \ Picked(wanted)), Content(Reliable(good, There)))
  <1> DEFINE relied == Reliable(good, There)
  <1> SUFFICES ASSUME NEW u \in Content(relied)
               PROVE  \E k \in relied \ Picked(wanted) : Covered(u, units(k))
    BY DEF Holds, Covered, Content
  <1>1. PICK c \in relied : u \in units(c)
    BY DEF Content
  <1>2. CASE c \notin Picked(wanted)
    BY <1>1, <1>2 DEF Covered
  <1>3. CASE c \in Picked(wanted)
    <2>1. PICK g \in Chosen(wanted) : c \in g
      BY <1>3 DEF Picked
    <2>2. Holds(Content((g \cap good) \ (g \cap wanted)), Content(g \cap good))
      BY <2>1 DEF RemovalIsSafe, StillCovered
    <2>3. u \in Content(g \cap good)
      BY <1>1, <2>1 DEF Content, Reliable
    <2>4. PICK k \in (g \cap good) \ (g \cap wanted) : Covered(u, units(k))
      BY <2>2, <2>3, CoveredByOne DEF Holds
    <2>5. k \notin Picked(wanted)
      BY <2>4 DEF Picked
    <2>6. k \in relied
      <3>1. PICK x \in There : g = Cluster(x, There)
        BY <2>1 DEF Chosen, Groups
      <3>2. Cluster(c, There) = g /\ Cluster(k, There) = g
        BY <2>1, <2>4, <3>1, ClusterSame
      <3> QED
        BY <1>1, <2>4, <3>2 DEF Reliable
    <2> QED
      BY <2>4, <2>5, <2>6
  <1> QED
    BY <1>2, <1>3

LEMMA Judged ==
    ASSUME NEW wanted, NEW good,
           \A g \in Chosen(wanted) : RemovalIsSafe(g, good, g \cap wanted),
           good \subseteq There
    PROVE  SoundFor(Picked(wanted), There, Reliable(good, There))
  BY JudgedApart, JudgedSpares, JudgedKept DEF SoundFor

(***************************************************************************)
(* The steps.                                                              *)
(***************************************************************************)

LEMMA NumberedInit == Init => Numbered
  <1> SUFFICES ASSUME Init PROVE Numbered
    OBVIOUS
  <1>1. Cardinality(Copy) \in Nat
    BY CleanupAssumption, FS_CardinalityType
  <1>2. \A c \in Copy : c \in Nat /\ c # 0 /\ c < Cardinality(Copy) + 1
    BY <1>1, CleanupAssumption
  <1>3. \A c \in Copy : id[c] = (IF c \in There THEN c ELSE 0)
    BY DEF Init, There
  <1> QED
    BY <1>2, <1>3 DEF Numbered, There, Init

LEMMA NumberedStep == TypeOK /\ Numbered /\ [Next]_vars => Numbered'
  <1> SUFFICES ASSUME TypeOK, Numbered, [Next]_vars PROVE Numbered'
    OBVIOUS
  <1> USE DEF TypeOK, library, client, handlers
  <1>1. ASSUME NEW c \in Copy, Added(c) PROVE Numbered'
    BY <1>1 DEF Added, Numbered, There
  <1>2. ASSUME NEW hit \in SUBSET There, NEW f, Removed(hit, f) PROVE Numbered'
    BY <1>2 DEF Removed, Numbered, There
  <1>3. CASE ClientRestarts
    <2>1. PICK number \in Numbering :
              id' = [c \in Copy |-> IF c \in There THEN number[c] ELSE 0]
      BY <1>3 DEF ClientRestarts
    <2>2. Cardinality(Copy) \in Nat
      BY CleanupAssumption, FS_CardinalityType
    <2>3. /\ number \in [Copy -> 1 .. Cardinality(Copy)]
          /\ \A c, d \in Copy : c # d => number[c] # number[d]
      BY CleanupAssumption
    <2>4. There' = There /\ There \subseteq Copy /\ nextId' = Cardinality(Copy) + 1
      BY <1>3 DEF ClientRestarts, There
    <2>5. \A c \in Copy : c \in There' <=> id'[c] # 0
      BY <2>1, <2>2, <2>3, <2>4
    <2>6. \A c \in There' : id'[c] < nextId'
      BY <2>1, <2>2, <2>3, <2>4
    <2>7. \A c, d \in There' : id'[c] = id'[d] => c = d
      BY <2>1, <2>3, <2>4
    <2> QED
      BY <2>5, <2>6, <2>7 DEF Numbered
  <1>4. CASE UNCHANGED <<stage, id, nextId>>
    BY <1>4 DEF Numbered, There
  <1>5. ASSUME NEW c \in Copy, NEW f \in BOOLEAN, HandRemoves(c, f) PROVE Numbered'
    BY <1>2, <1>5 DEF HandRemoves
  <1>6. ASSUME NEW h \in Handler, NEW c \in Copy, Removes(h, c) PROVE Numbered'
    BY <1>2, <1>6 DEF Removes, Bearing
  <1> QED
    BY <1>1, <1>3, <1>4, <1>5, <1>6
    DEF Next, vars, ErrorChanges, Completes, Posts, ListingFails, DuplicatesJudged,
        ErrorsJudged, Takes, RemovalFails

(* What a listing of x named stays named, when x does not judge.           *)
LEMMA NamedKept ==
    ASSUME TypeOK, Numbered, NEW x \in Handler, Named(x), Sound(x), UNCHANGED library,
           UNCHANGED <<targets[x], seen[x], counted[x], job[x]>>,
           nextId <= nextId', nextId' \in Nat,
           \A d \in There' : \/ d \in There /\ id'[d] = id[d]
                             \/ id'[d] = nextId
    PROVE  Named(x)' /\ Sound(x)'
  <1>1. Listed(x)' = Listed(x)
    BY DEF Listed
  <1>2. \A c \in Copy : seen[x][c] \in Nat /\ seen[x][c] < nextId
    BY DEF Named, TypeOK
  <1>3. Named(x)'
    <2>1. targets'[x] \subseteq Listed(x)'
      BY <1>1 DEF Named
    <2>2. \A c \in Copy : seen'[x][c] < nextId'
      BY <1>2 DEF TypeOK
    <2>3. ASSUME NEW c \in Listed(x), NEW d \in There', id'[d] = seen'[x][c] PROVE c = d
      <3>1. id'[d] # nextId
        BY <1>2, <2>3 DEF Listed, TypeOK
      <3>2. d \in There /\ id[d] = seen[x][c]
        BY <2>3, <3>1
      <3> QED
        BY <3>2 DEF Named
    <2> QED
      BY <1>1, <2>1, <2>2, <2>3 DEF Named
  <1>4. Sound(x)'
    <2>1. \A c : units(c)' = units(c)
      BY DEF units, library
    <2>2. \A c, d : SharesPath(c, d)' <=> SharesPath(c, d)
      BY DEF SharesPath, Path, library
    <2>3. \A c, d : Overlap(c, d)' <=> Overlap(c, d)
      BY <2>1 DEF Overlap, Covered
    <2>4. \A copies : Content(copies)' = Content(copies)
      BY <2>1 DEF Content
    <2> QED
      BY <1>1, <2>2, <2>3, <2>4 DEF Sound, SoundFor, Holds, Covered
  <1> QED
    BY <1>3, <1>4

(* What a handler has just judged.                                         *)
LEMMA NamedTaken ==
    ASSUME TypeOK, Numbered, NEW h \in Handler, NEW copies, copies \subseteq There, NEW relied,
           Takes(h, copies, relied), copies # {},
           \/ job[h] = "duplicates" /\ SoundFor(copies, There, relied)
           \/ job[h] = "errors" /\ relied = {}
    PROVE  Named(h)' /\ Sound(h)'
  <1>1. /\ targets'[h] = copies /\ seen'[h] = id /\ counted'[h] = relied
        /\ job' = job /\ There' = There /\ nextId' = nextId /\ id' = id
        /\ UNCHANGED library
    BY DEF Takes, TypeOK, client, library, There
  <1>2. Listed(h)' = There
    BY <1>1 DEF Listed, Numbered, There
  <1>3. Named(h)'
    <2>1. \A c \in Copy : id[c] < nextId
      BY DEF Numbered, TypeOK
    <2> QED
      BY <1>1, <1>2, <2>1 DEF Named, Numbered
  <1>4. Sound(h)'
    <2>1. \A c : units(c)' = units(c)
      BY <1>1 DEF units, library
    <2>2. \A c, d : SharesPath(c, d)' <=> SharesPath(c, d)
      BY <1>1 DEF SharesPath, Path, library
    <2>3. \A c, d : Overlap(c, d)' <=> Overlap(c, d)
      BY <2>1 DEF Overlap, Covered
    <2>4. \A some : Content(some)' = Content(some)
      BY <2>1 DEF Content
    <2> QED
      BY <1>1, <1>2, <2>2, <2>3, <2>4 DEF Sound, SoundFor, Holds, Covered
  <1> QED
    BY <1>3, <1>4

(* Whose listing still counts, and what the steps of others do to it.      *)
LEMMA InvStep == IInv /\ [Next]_vars => IInv'
  <1> SUFFICES ASSUME IInv, [Next]_vars PROVE IInv'
    OBVIOUS
  <1>1. TypeOK' /\ Numbered'
    BY TypeStep, NumberedStep DEF IInv
  <1>2. SUFFICES ASSUME NEW x \in Removing' \ stale' PROVE Named(x)' /\ Sound(x)'
    BY <1>1 DEF IInv
  <1>3. TypeOK /\ Numbered /\ x \in Handler /\ nextId \in Nat
    BY DEF IInv, TypeOK, Removing
  <1> USE DEF library, client, handlers
  <1>4. ASSUME x \in Removing \ stale, UNCHANGED library,
               UNCHANGED <<targets[x], seen[x], counted[x], job[x]>>,
               nextId <= nextId', nextId' \in Nat,
               \A d \in There' : \/ d \in There /\ id'[d] = id[d]
                                 \/ id'[d] = nextId
        PROVE  Named(x)' /\ Sound(x)'
    BY <1>3, <1>4, NamedKept DEF IInv
  <1>5. ASSUME NEW c \in Copy, ErrorChanges(c) \/ Completes(c) PROVE Named(x)' /\ Sound(x)'
    BY <1>3, <1>4, <1>5 DEF ErrorChanges, Completes, There, Removing
  <1>6. ASSUME NEW c \in Copy, Added(c) PROVE Named(x)' /\ Sound(x)'
    <2>1. \A d \in There' : (d \in There /\ id'[d] = id[d]) \/ id'[d] = nextId
      BY <1>3, <1>6 DEF Added, There, TypeOK
    <2>2. nextId <= nextId' /\ nextId' \in Nat
      BY <1>3, <1>6 DEF Added
    <2> QED
      BY <1>4, <1>6, <2>1, <2>2 DEF Added, Removing
  <1>7. ASSUME NEW hit, NEW f, Removed(hit, f)
        PROVE  \A d \in There' : d \in There /\ id'[d] = id[d]
    BY <1>7 DEF Removed, There
  <1>8. ASSUME NEW c \in Copy, NEW f \in BOOLEAN, HandRemoves(c, f) PROVE Named(x)' /\ Sound(x)'
    <2>1. Removed({c}, f) /\ UNCHANGED <<library, handlers>>
      BY <1>8 DEF HandRemoves
    <2>2. (\A d \in There' : d \in There /\ id'[d] = id[d]) /\ nextId' = nextId
      BY <1>7, <2>1 DEF Removed
    <2>3. x \in Removing \ stale /\ nextId <= nextId' /\ nextId' \in Nat
      BY <1>3, <2>1, <2>2 DEF Removing
    <2>4. UNCHANGED <<targets[x], seen[x], counted[x], job[x]>>
      BY <2>1
    <2> QED
      BY <1>4, <2>1, <2>2, <2>3, <2>4
  <1>9. CASE ClientRestarts
    BY <1>9 DEF ClientRestarts, Removing
  <1>10. ASSUME NEW h \in Handler, NEW j \in {"duplicates", "errors"},
                Posts(h, j) \/ ListingFails(h)
         PROVE  Named(x)' /\ Sound(x)'
    <2>1. x # h /\ x \in Removing \ stale /\ job'[x] = job[x]
      BY <1>3, <1>10 DEF Posts, ListingFails, Removing, TypeOK
    <2>2. \A d \in There' : d \in There /\ id'[d] = id[d]
      BY <1>10 DEF Posts, ListingFails, There
    <2> QED
      BY <1>3, <1>4, <1>10, <2>1, <2>2 DEF Posts, ListingFails
  <1>11. ASSUME NEW h \in Handler, x # h, NEW copies, NEW relied, Takes(h, copies, relied)
         PROVE  Named(x)' /\ Sound(x)'
    <2>1. x \in Removing \ stale
      BY <1>3, <1>11 DEF Takes, Removing, TypeOK
    <2>2. UNCHANGED <<targets[x], seen[x], counted[x], job[x]>>
      BY <1>3, <1>11 DEF Takes, TypeOK
    <2>3. \A d \in There' : d \in There /\ id'[d] = id[d]
      BY <1>11 DEF Takes, There
    <2> QED
      BY <1>3, <1>4, <1>11, <2>1, <2>2, <2>3 DEF Takes
  <1>12. ASSUME NEW copies, NEW relied, Takes(x, copies, relied) PROVE copies # {}
    BY <1>3, <1>12 DEF Takes, Removing, TypeOK
  <1>13. ASSUME NEW h \in Handler, NEW wanted \in SUBSET Copy, DuplicatesJudged(h, wanted)
         PROVE  Named(x)' /\ Sound(x)'
    <2> DEFINE good == {c \in There : Usable(c)}
               safe == \A g \in Chosen(wanted) : RemovalIsSafe(g, good, g \cap wanted)
    <2>1. /\ Takes(h, IF safe THEN Picked(wanted) ELSE {}, Reliable(good, There))
          /\ job[h] = "duplicates"
      BY <1>13 DEF DuplicatesJudged, Chosen, Picked
    <2>2. CASE x # h
      BY <1>11, <2>1, <2>2
    <2>3. CASE x = h
      <3>1. (IF safe THEN Picked(wanted) ELSE {}) # {}
        BY <1>12, <2>1, <2>3
      <3>2. safe
        BY <3>1
      <3>3. SoundFor(Picked(wanted), There, Reliable(good, There))
        BY <3>2, Judged
      <3>4. Picked(wanted) \subseteq There
        BY GroupListed DEF Picked, Chosen
      <3> HIDE DEF good, safe
      <3> QED
        BY <1>3, <2>1, <2>3, <3>1, <3>2, <3>3, <3>4, NamedTaken
    <2> QED
      BY <2>2, <2>3
  <1>14. ASSUME NEW h \in Handler, NEW wanted \in SUBSET Copy, ErrorsJudged(h, wanted)
         PROVE  Named(x)' /\ Sound(x)'
    <2>1. Takes(h, wanted \cap InError, {}) /\ job[h] = "errors"
      BY <1>14 DEF ErrorsJudged
    <2>2. CASE x # h
      BY <1>11, <2>1, <2>2
    <2>3. CASE x = h
      BY <1>3, <1>12, <2>1, <2>3, NamedTaken DEF InError
    <2> QED
      BY <2>2, <2>3
  <1>15. ASSUME NEW h \in Handler, NEW c \in todo[h], Tried(h, c), nextId' = nextId,
                \A d \in There' : d \in There /\ id'[d] = id[d]
         PROVE  Named(x)' /\ Sound(x)'
    <2>1. h \in Removing
      BY <1>15 DEF Removing, IInv, TypeOK
    <2>2. x = h => todo[h] # {c}
      BY <1>3, <1>15 DEF Tried, Removing, TypeOK
    <2>3. x \in Removing
      BY <1>3, <1>15, <2>1 DEF Tried, Removing, TypeOK
    <2>4. x \notin stale
      BY <1>15, <2>2 DEF Tried
    <2>5. UNCHANGED <<targets[x], seen[x], counted[x], job[x]>>
      BY <1>3, <1>15, <2>2 DEF Tried, TypeOK
    <2> QED
      BY <1>3, <1>4, <1>15, <2>3, <2>4, <2>5 DEF Tried
  <1>16. ASSUME NEW h \in Handler, NEW c \in Copy, Removes(h, c) PROVE Named(x)' /\ Sound(x)'
    BY <1>7, <1>15, <1>16 DEF Removes, Removed
  <1>17. ASSUME NEW h \in Handler, NEW c \in Copy, RemovalFails(h, c) PROVE Named(x)' /\ Sound(x)'
    BY <1>15, <1>17 DEF RemovalFails, There
  <1>18. CASE UNCHANGED vars
    BY <1>3, <1>4, <1>18 DEF vars, There, Removing
  <1> QED
    BY <1>5, <1>6, <1>8, <1>9, <1>10, <1>13, <1>14, <1>16, <1>17, <1>18 DEF Next

LEMMA Invariance == Spec => []IInv
  <1>1. Init => IInv
    BY TypeInit, NumberedInit DEF Init, IInv, Removing
  <1> QED
    BY <1>1, InvStep, PTL DEF Spec

(***************************************************************************)
(* The theorems.                                                           *)
(***************************************************************************)

(* A removal under a listing that still counts takes the copy it means, if *)
(* it is there, and files of it only.                                      *)
LEMMA RemovalHits ==
    ASSUME IInv, NEW h \in Handler \ stale, NEW c \in Copy, Removes(h, c)
    PROVE  /\ h \in Removing /\ c \in targets[h] /\ Named(h) /\ Sound(h)
           /\ There \ There' \subseteq {c}
           /\ \A d \in Copy :
                 data[d] /\ (job[h] = "duplicates" => ~SharesPath(c, d)) => data'[d]
  <1>1. h \in Removing /\ c \in todo[h] /\ c \in targets[h]
    BY DEF Removes, Removing, IInv, TypeOK
  <1>2. Named(h) /\ Sound(h)
    BY <1>1 DEF IInv
  <1>3. c \in Listed(h)
    BY <1>1, <1>2 DEF Named
  <1>4. \A d \in Bearing(seen[h][c]) : d = c
    BY <1>2, <1>3 DEF Bearing, Named
  <1>5. Removed(Bearing(seen[h][c]), job[h] = "duplicates")
    BY DEF Removes
  <1>6. There \ There' \subseteq {c}
    BY <1>4, <1>5 DEF Removed, There, IInv, TypeOK
  <1>7. ASSUME NEW d \in Copy, data[d], job[h] = "duplicates" => ~SharesPath(c, d) PROVE data'[d]
    BY <1>4, <1>5, <1>7 DEF Removed
  <1> QED
    BY <1>1, <1>2, <1>6, <1>7

(* Whatever is chosen, whichever removals fail, and whatever goes on        *)
(* meanwhile: what the complete copies of the listing held stays on the     *)
(* disk, as long as nobody takes the files of the copies that are left and  *)
(* the listing is younger than Transmission's process (remove_duplicates).  *)
THEOREM ContentKeptCorrect == Spec => ContentKept
  <1>1. IInv /\ [Next]_vars =>
          [\A h \in Handler \ stale, c \in Copy :
              Removes(h, c) /\ Intact(h) => Holds(OnDisk', Content(counted[h]))]_vars
    <2> SUFFICES ASSUME IInv, NEW h \in Handler \ stale, NEW c \in Copy, Removes(h, c), Intact(h)
                 PROVE  Holds(OnDisk', Content(counted[h]))
      OBVIOUS
    <2>1. /\ c \in targets[h] /\ Sound(h) /\ counted[h] \subseteq Copy
          /\ \A d \in Copy :
                data[d] /\ (job[h] = "duplicates" => ~SharesPath(c, d)) => data'[d]
      BY RemovalHits DEF IInv, TypeOK
    <2>2. CASE job[h] = "errors" /\ counted[h] = {}
      BY <2>2 DEF Holds, Content
    <2>3. CASE job[h] = "duplicates" /\ SoundFor(targets[h], Listed(h), counted[h])
      <3>1. \A k \in counted[h] \ targets[h] : data'[k]
        BY <2>1, <2>3 DEF SoundFor, Intact
      <3>2. \A k : units(k)' = units(k)
        BY DEF Removes, Tried, library, units
      <3>3. Content(counted[h] \ targets[h]) \subseteq OnDisk'
        BY <2>1, <3>1, <3>2 DEF OnDisk, Content
      <3>4. Holds(Content(counted[h] \ targets[h]), Content(counted[h]))
        BY <2>3 DEF SoundFor
      <3> QED
        BY <3>3, <3>4 DEF Holds, Covered
    <2> QED
      BY <2>1, <2>2, <2>3 DEF Sound
  <1> QED
    BY <1>1, Invariance, PTL DEF Spec, ContentKept

(* A removal under a listing younger than Transmission's process takes the *)
(* copy it means, and no file of a listed torrent that stays and overlaps  *)
(* it (remove_duplicates, handle_errors).                                  *)
THEOREM NoCollateralCorrect == Spec => NoCollateral
  <1>1. IInv /\ [Next]_vars =>
          [\A h \in Handler \ stale, c \in Copy : Removes(h, c) =>
              /\ There \ There' \subseteq {c}
              /\ \A d \in There \ targets[h] :
                    seen[h][d] # 0 /\ Overlap(c, d) /\ data[d] => data'[d]]_vars
    <2> SUFFICES ASSUME IInv, NEW h \in Handler \ stale, NEW c \in Copy, Removes(h, c)
                 PROVE  /\ There \ There' \subseteq {c}
                        /\ \A d \in There \ targets[h] :
                              seen[h][d] # 0 /\ Overlap(c, d) /\ data[d] => data'[d]
      OBVIOUS
    <2>1. There \ There' \subseteq {c}
      BY RemovalHits
    <2>2. ASSUME NEW d \in There \ targets[h], seen[h][d] # 0, Overlap(c, d), data[d]
          PROVE  data'[d]
      <3>1. d \in Copy /\ d \in Listed(h) \ targets[h]
        BY <2>2 DEF There, Listed
      <3>2. c \in targets[h] /\ Sound(h)
        BY RemovalHits
      <3>3. job[h] = "duplicates" => ~SharesPath(c, d)
        BY <2>2, <3>1, <3>2 DEF Sound, SoundFor
      <3> QED
        BY <2>2, <3>1, <3>3, RemovalHits
    <2> QED
      BY <2>1, <2>2
  <1> QED
    BY <1>1, Invariance, PTL DEF Spec, NoCollateral

(***************************************************************************)
(* What the page proposes. The order of a group is total, so kept_copies   *)
(* has one outcome; it keeps the same copies of a group when others leave  *)
(* it, which is why nothing new is proposed afterwards.                    *)
(***************************************************************************)

(* A non-empty set of naturals has a least element.                        *)
LEMMA LeastNatural ==
    ASSUME NEW T, T \subseteq Nat, T # {}
    PROVE  \E a \in T : \A b \in T : a <= b
  <1> DEFINE R == OpToRel(<, Nat)
  <1>1. IsWellFoundedOn(R, Nat)
    BY NatLessThanWellFounded
  <1>2. \A x, y \in Nat : x < y => <<x, y>> \in R
    BY DEF OpToRel
  <1> HIDE DEF R
  <1>3. PICK x \in T : \A y \in T : ~(<<y, x>> \in R)
    BY <1>1, WFMin
  <1>4. ASSUME NEW b \in T PROVE x <= b
    <2>1. x \in Nat /\ b \in Nat
      OBVIOUS
    <2>2. ~(b < x)
      BY <1>2, <1>3, <2>1
    <2> QED
      BY <2>1, <2>2
  <1> QED
    BY <1>4

LEMMA PacksType ==
    ASSUME TypeOK, NEW c \in Copy
    PROVE  Packs(c) \in Nat /\ Packs(c) <= Cardinality(Unit)
  <1>1. IsFiniteSet(Unit) /\ units(c) \cap Season \in SUBSET Unit
    BY CleanupAssumption, UnitsType
  <1> QED
    BY <1>1, FS_Subset, FS_CardinalityType DEF Packs

(* The sort of _build_group: a strict total order.                         *)
LEMMA Ordered ==
    ASSUME TypeOK, NEW good
    PROVE  /\ \A a \in Copy : ~Precedes(a, a, good)
           /\ \A a, b \in Copy : Precedes(a, b, good) => ~Precedes(b, a, good)
           /\ \A a, b, c \in Copy :
                 Precedes(a, b, good) /\ Precedes(b, c, good) => Precedes(a, c, good)
           /\ \A a, b \in Copy : a # b => Precedes(a, b, good) \/ Precedes(b, a, good)
  <1>1. \A a \in Copy : a \in Nat /\ Packs(a) \in Nat
    BY CopyNumbers, PacksType
  <1> QED
    BY <1>1 DEF Precedes

(* The first of some copies.                                               *)
LEMMA FirstOf ==
    ASSUME TypeOK, NEW good, NEW X \in SUBSET Copy, X # {}
    PROVE  \E m \in X : \A x \in X \ {m} : Precedes(m, x, good)
  <1> DEFINE best == IF X \cap good # {} THEN X \cap good ELSE X
             bound == Cardinality(Unit)
  <1>1. /\ best # {} /\ best \subseteq X
        /\ \A a \in best, x \in X \ best : a \in good /\ x \notin good
        /\ \A a, b \in best : a \in good <=> b \in good
    OBVIOUS
  <1>2. bound \in Nat /\ \A c \in X : Packs(c) \in Nat /\ Packs(c) <= bound /\ c \in Nat
    BY CleanupAssumption, PacksType, FS_CardinalityType
  <1> HIDE DEF best, bound
  <1>3. PICK p \in best : \A x \in best : Packs(x) <= Packs(p)
    <2> DEFINE T == {bound - Packs(c) : c \in best}
    <2>1. T \subseteq Nat /\ T # {}
      BY <1>1, <1>2
    <2>2. PICK t \in T : \A v \in T : t <= v
      BY <2>1, LeastNatural
    <2>3. PICK p \in best : t = bound - Packs(p)
      BY <2>2
    <2>4. ASSUME NEW x \in best PROVE Packs(x) <= Packs(p)
      <3>1. bound - Packs(p) <= bound - Packs(x)
        BY <2>2, <2>3
      <3> QED
        BY <1>1, <1>2, <3>1
    <2> QED
      BY <2>4
  <1> DEFINE top == {c \in best : Packs(c) = Packs(p)}
  <1>4. top \subseteq Nat /\ top # {} /\ top \subseteq best
    BY <1>1, <1>2
  <1>5. PICK m \in top : \A x \in top : m <= x
    BY <1>4, LeastNatural
  <1>6. ASSUME NEW x \in X, x # m PROVE Precedes(m, x, good)
    <2>1. m \in best /\ m \in X /\ Packs(m) = Packs(p)
      BY <1>1, <1>5
    <2>2. CASE x \notin best
      BY <1>1, <2>1, <2>2 DEF Precedes
    <2>3. CASE x \in best /\ x \notin top
      <3>1. Packs(m) > Packs(x)
        BY <1>1, <1>2, <1>3, <2>1, <2>3
      <3> QED
        BY <1>1, <2>1, <2>3, <3>1 DEF Precedes
    <2>4. CASE x \in top
      <3>1. m < x /\ Packs(m) = Packs(x) /\ (m \in good <=> x \in good)
        BY <1>1, <1>2, <1>4, <1>5, <1>6, <2>1, <2>4
      <3> QED
        BY <3>1 DEF Precedes
    <2> QED
      BY <2>2, <2>3, <2>4
  <1> QED
    BY <1>1, <1>4, <1>5, <1>6

(* What kept_copies computes, for any set of copies.                       *)
IsKept(kept, group, good) ==
    /\ kept \subseteq group
    /\ \A c \in group :
          c \in kept <=> MayKeep(good, c) /\ ~Holds(Content(Before(c, kept, good)), units(c))

(* The first copy on which two answers differ would be judged alike.       *)
LEMMA KeptOnce ==
    ASSUME TypeOK, NEW good, NEW group \in SUBSET Copy,
           NEW A, IsKept(A, group, good), NEW B, IsKept(B, group, good)
    PROVE  A = B
  <1> SUFFICES ASSUME A # B PROVE FALSE
    OBVIOUS
  <1> DEFINE X == (A \ B) \cup (B \ A)
  <1>1. X \in SUBSET Copy /\ X # {} /\ X \subseteq group
    BY DEF IsKept
  <1>2. PICK m \in X : \A x \in X \ {m} : Precedes(m, x, good)
    BY <1>1, FirstOf
  <1>3. \A k \in A \cup B : Precedes(k, m, good) => k \in A /\ k \in B
    <2> SUFFICES ASSUME NEW k \in A \cup B, Precedes(k, m, good), k \in X PROVE FALSE
      OBVIOUS
    <2>1. k \in Copy /\ m \in Copy
      BY <1>1, <1>2
    <2>2. k # m
      BY <2>1, Ordered
    <2> QED
      BY <1>2, <2>1, <2>2, Ordered
  <1>4. Before(m, A, good) = Before(m, B, good)
    BY <1>3 DEF Before
  <1> QED
    BY <1>1, <1>2, <1>4 DEF IsKept

(* One copy more, after all the others.                                    *)
LEMMA KeptExtends ==
    ASSUME TypeOK, NEW good, NEW S \in SUBSET Copy, NEW m \in Copy \ S,
           \A c \in S : Precedes(c, m, good),
           NEW kept, IsKept(kept, S, good)
    PROVE  \E more : IsKept(more, S \cup {m}, good)
  <1> DEFINE more == IF MayKeep(good, m) /\ ~Holds(Content(Before(m, kept, good)), units(m))
                     THEN kept \cup {m} ELSE kept
  <1>1. kept \subseteq S /\ more \subseteq S \cup {m}
    BY DEF IsKept
  <1>2. \A c \in S \cup {m} : ~Precedes(m, c, good)
    BY Ordered
  <1>3. \A c \in S \cup {m} : Before(c, more, good) = Before(c, kept, good)
    BY <1>2 DEF Before
  <1>4. \A c \in S : c \in more <=> c \in kept
    OBVIOUS
  <1>5. m \in more <=> MayKeep(good, m) /\ ~Holds(Content(Before(m, kept, good)), units(m))
    BY <1>1
  <1> HIDE DEF more
  <1>6. IsKept(more, S \cup {m}, good)
    BY <1>1, <1>3, <1>4, <1>5 DEF IsKept
  <1> QED
    BY <1>6

(* kept_copies comes to an end: take the least rest it could stop at.      *)
LEMMA KeptExists ==
    ASSUME TypeOK, NEW good, NEW group \in SUBSET Copy
    PROVE  \E kept : IsKept(kept, group, good)
  <1> DEFINE Rest(r) == /\ \A c \in group \ r, d \in r : Precedes(c, d, good)
                        /\ \E kept : IsKept(kept, group \ r, good)
             rests == {r \in SUBSET group : Rest(r)}
             Order == StrictSubsetOrdering(group)
  <1>1. IsFiniteSet(group)
    BY CleanupAssumption, FS_Subset
  <1>2. rests \subseteq FiniteSubsetsOf(group)
    BY <1>1, FS_Subset DEF FiniteSubsetsOf
  <1>3. group \in rests
    <2>1. IsKept({}, {}, good)
      BY DEF IsKept
    <2>2. group \ group = {}
      OBVIOUS
    <2> QED
      BY <2>1, <2>2
  <1>4. IsWellFoundedOn(Order, FiniteSubsetsOf(group))
    BY FS_StrictSubsetOrderingWellFounded
  <1>5. PICK r \in rests : \A q \in rests : ~(<<q, r>> \in Order)
    <2> HIDE DEF rests, Order
    <2> QED
      BY <1>2, <1>3, <1>4, WFMin
  <1>6. CASE r = {}
    <2>1. group \ r = group
      BY <1>6
    <2> QED
      BY <1>5, <2>1
  <1>7. CASE r # {}
    <2>1. PICK m \in r : \A x \in r \ {m} : Precedes(m, x, good)
      BY <1>5, <1>7, FirstOf
    <2> DEFINE q == r \ {m}
    <2>2. group \ q = (group \ r) \cup {m} /\ m \in Copy \ (group \ r) /\ group \ r \in SUBSET Copy
      BY <1>5, <2>1
    <2>3. \E kept : IsKept(kept, group \ q, good)
      <3>1. PICK kept : IsKept(kept, group \ r, good)
        BY <1>5
      <3>2. \A c \in group \ r : Precedes(c, m, good)
        BY <1>5, <2>1
      <3>3. \E more : IsKept(more, (group \ r) \cup {m}, good)
        BY <2>2, <3>1, <3>2, KeptExtends
      <3> QED
        BY <2>2, <3>3
    <2>4. \A c \in group \ q, d \in q : Precedes(c, d, good)
      BY <1>5, <2>1, <2>2
    <2>5. q \in rests
      BY <1>5, <2>3, <2>4
    <2>6. <<q, r>> \in Order
      BY <1>5, <2>1 DEF StrictSubsetOrdering
    <2> QED
      BY <1>5, <2>5, <2>6
  <1> QED
    BY <1>6, <1>7

(* Hence what Kept chooses does satisfy its definition.                     *)
LEMMA KeptIs ==
    ASSUME TypeOK, NEW good, NEW group \in SUBSET Copy
    PROVE  IsKept(Kept(group, good), group, good)
  <1>1. PICK kept : IsKept(kept, group, good)
    BY KeptExists
  <1>2. kept \in SUBSET group
    BY <1>1 DEF IsKept
  <1>3. \A c \in group :
            c \in kept <=> MayKeep(good, c) /\ ~Holds(Content(Before(c, kept, good)), units(c))
    BY <1>1 DEF IsKept
  <1>4. /\ Kept(group, good) \in SUBSET group
        /\ \A c \in group :
              c \in Kept(group, good)
                <=> MayKeep(good, c) /\ ~Holds(Content(Before(c, Kept(group, good), good)), units(c))
    BY <1>2, <1>3 DEF Kept
  <1> QED
    BY <1>4 DEF IsKept

LEMMA KeptStays ==
    ASSUME TypeOK, NEW good, NEW group \in SUBSET Copy
    PROVE  Kept(group, good) \subseteq (group \cap good) \ Proposed(group, good)
  BY KeptIs DEF IsKept, Proposed, MayKeep

LEMMA ProposedCovered ==
    ASSUME TypeOK, NEW good, NEW group \in SUBSET Copy, NEW c \in Proposed(group, good)
    PROVE  Holds(Content((group \cap good) \ Proposed(group, good)), units(c))
  <1>1. Before(c, Kept(group, good), good) \subseteq (group \cap good) \ Proposed(group, good)
    BY KeptStays DEF Before
  <1>2. Holds(Content(Before(c, Kept(group, good), good)), units(c))
    BY DEF Proposed
  <1> QED
    BY <1>1, <1>2, HoldsMore

(***************************************************************************)
(* What stays of a group when the proposed copies leave.                   *)
(***************************************************************************)

(* A copy is held by the copies of its own group only.                     *)
LEMMA HeldInGroup ==
    ASSUME NEW left, NEW g \in Groups(left), NEW K, K \subseteq left, NEW c \in g,
           Holds(Content(K), units(c))
    PROVE  Holds(Content(K \cap g), units(c))
  <1> SUFFICES ASSUME NEW u \in units(c) PROVE Covered(u, Content(K \cap g))
    BY DEF Holds
  <1>1. PICK k \in K : Covered(u, units(k))
    BY CoveredByOne DEF Holds
  <1>2. Overlap(c, k)
    BY <1>1 DEF Overlap
  <1>3. k \in g
    BY <1>1, <1>2, GroupClosed
  <1> QED
    BY <1>1, <1>3 DEF Covered, Content

(* What was kept of a group, and only that, is kept of what is left of it. *)
LEMMA KeptLeft ==
    ASSUME TypeOK, NEW good, NEW listed \in SUBSET Copy, NEW left \in SUBSET listed,
           NEW h \in Groups(listed), Kept(h, good) \subseteq left,
           NEW g \in Groups(left), g \subseteq h
    PROVE  Kept(g, good) = Kept(h, good) \cap g
  <1> DEFINE K == Kept(h, good)
  <1>1. h \in SUBSET Copy /\ g \in SUBSET Copy
    BY GroupListed
  <1>2. IsKept(K, h, good)
    BY <1>1, KeptIs
  <1>3. \A c : Before(c, K \cap g, good) = Before(c, K, good) \cap g /\ Before(c, K, good) \subseteq K
    BY DEF Before
  <1> HIDE DEF K
  <1>4. ASSUME NEW c \in g
        PROVE  Holds(Content(Before(c, K \cap g, good)), units(c))
                 <=> Holds(Content(Before(c, K, good)), units(c))
    <2>1. Before(c, K, good) \subseteq left
      BY <1>3 DEF K
    <2>2. Holds(Content(Before(c, K, good)), units(c))
             => Holds(Content(Before(c, K, good) \cap g), units(c))
      BY <2>1, HeldInGroup
    <2>3. Holds(Content(Before(c, K, good) \cap g), units(c))
             => Holds(Content(Before(c, K, good)), units(c))
      BY HoldsMore
    <2> QED
      BY <1>3, <2>2, <2>3
  <1>5. IsKept(K \cap g, g, good)
    BY <1>2, <1>4 DEF IsKept
  <1>6. IsKept(Kept(g, good), g, good)
    BY <1>1, KeptIs
  <1> QED
    BY <1>1, <1>5, <1>6, KeptOnce DEF K

LEMMA ProposalsEnd ==
    ASSUME TypeOK, NEW good, NEW listed \in SUBSET Copy, NEW left,
           Reliable(listed, listed) = listed,
           left = listed \ UNION {Proposed(h, good) : h \in Groups(listed)},
           NEW g \in Groups(left)
    PROVE  Proposed(g, good) = {}
  <1> SUFFICES ASSUME NEW d \in Proposed(g, good) PROVE FALSE
    OBVIOUS
  <1>1. PICK h \in Groups(listed) : g \subseteq h
    BY GroupShrinks
  <1>2. h \in SUBSET Copy /\ h \subseteq listed /\ g \in SUBSET Copy /\ g \subseteq left
    BY GroupListed
  <1> DEFINE K == Kept(h, good)
  <1>3. K \subseteq h /\ \A k \in K : k \notin Proposed(h, good)
    BY <1>2, KeptStays
  <1>4. K \subseteq left
    <2> SUFFICES ASSUME NEW k \in K, NEW o \in Groups(listed), k \in Proposed(o, good) PROVE FALSE
      BY <1>2, <1>3
    <2>1. k \in o /\ k \in h
      BY <1>3 DEF Proposed
    <2>2. o = h
      BY <2>1, GroupsApart
    <2> QED
      BY <1>3, <2>2
  <1>5. Kept(g, good) = K \cap g
    BY <1>1, <1>4, KeptLeft
  <1> HIDE DEF K
  <1>6. /\ d \in g /\ Holds(Content(Before(d, K \cap g, good)), units(d))
        /\ \A k \in Before(d, K \cap g, good) : ~SameFiles(d, k)
    BY <1>5 DEF Proposed
  <1>7. Holds(Content(Before(d, K, good)), units(d))
    <2>1. Before(d, K \cap g, good) \subseteq Before(d, K, good)
      BY DEF Before
    <2> QED
      BY <1>6, <2>1, HoldsMore
  <1>8. ASSUME NEW k \in Before(d, K, good), SameFiles(d, k) PROVE FALSE
    <2>1. k \in K /\ k \in left /\ k \in Copy /\ d \in Copy
      BY <1>2, <1>4, <1>6 DEF Before
    <2>2. Overlap(d, k)
      <3>1. CASE name[d] = name[k]
        BY <2>1, <3>1, UnitsType DEF Overlap, Covered, units
      <3>2. CASE SharesPath(d, k)
        <4>1. d \in listed /\ k \in listed /\ d \in Cluster(d, listed)
          BY <1>2, <1>6, <2>1, ClusterHas
        <4> QED
          BY <3>2, <4>1 DEF Reliable
      <3> QED
        BY <1>8, <3>1, <3>2 DEF SameFiles
    <2>3. k \in g
      BY <1>6, <2>1, <2>2, GroupClosed
    <2>4. k \in Before(d, K \cap g, good)
      BY <1>8, <2>3 DEF Before
    <2> QED
      BY <1>6, <1>8, <2>4
  <1>9. d \in Proposed(h, good)
    BY <1>1, <1>6, <1>7, <1>8 DEF Proposed, K
  <1>10. d \in left
    BY <1>2, <1>6
  <1> QED
    BY <1>9, <1>10

(* What the page proposes to remove is held by complete copies that stay,  *)
(* and once it is removed nothing else is proposed: for any number of      *)
(* copies, any units and folders, and whatever is broken in the listing    *)
(* (find_duplicates, kept_copies).                                         *)
THEOREM ProposalsSoundCorrect == Spec => []ProposalsSound
  <1>1. TypeOK => ProposalsSound
    <2> SUFFICES ASSUME TypeOK PROVE ProposalsSound
      OBVIOUS
    <2> DEFINE good == {c \in There : Usable(c)}
    <2>1. There \in SUBSET Copy /\ \A g \in Groups(There) : g \in SUBSET Copy
      BY GroupListed DEF There
    <2> HIDE DEF good
    <2>2. \A g \in Groups(There) : \A c \in Proposed(g, good) :
             Holds(Content((g \cap good) \ Proposed(g, good)), units(c))
      BY <2>1, ProposedCovered
    <2>3. Reliable(There, There) = There =>
             \A g \in Groups(There \ UNION {Proposed(h, good) : h \in Groups(There)}) :
             Proposed(g, good) = {}
      BY <2>1, ProposalsEnd
    <2>4. ProposalsCover
      BY <2>2 DEF ProposalsCover, good
    <2>5. ProposalsSettle
      BY <2>3 DEF ProposalsSettle, good
    <2> QED
      BY <2>4, <2>5 DEF ProposalsSound
  <1> QED
    BY <1>1, TypeCorrect, PTL
=============================================================================
