------------------------------ MODULE Cleanup ------------------------------
(***************************************************************************)
(* The cleanup of duplicates: library/cleanup.py finds the torrents that   *)
(* hold the same episodes and proposes some for removal, and               *)
(* web/cleanup_routes.py removes what people choose, with the files.       *)
(*                                                                         *)
(* One work: copies of different works are never grouped. A handler lists  *)
(* the torrents, judges the choice on that listing, then removes the copies *)
(* one by one, each by the number Transmission gave it in that listing;    *)
(* every call to Transmission is awaited and may fail. Other handlers,     *)
(* people, downloads and restarts of Transmission go on meanwhile.         *)
(***************************************************************************)
EXTENDS Naturals, FiniteSets

CONSTANTS
    Copy,      \* torrents, numbered from the best language, resolution and size
    Unit,      \* seasons and episodes, or the movie (cleanup.units)
    Season,    \* the units that are whole seasons
    PackOf,    \* the season of an episode, None for the other units
    Name,      \* names of torrents
    UnitsOf,   \* what a name says the torrent holds
    Place,     \* folders to download to
    Within,    \* the paths of torrents such a folder is or lies in
    Libraries, \* the names and the places the copies may have
    Handler,   \* requests that may be under way at the same time
    Numbering, \* the numbers Transmission may give the torrents when it starts
    (* Bounds: what the world does *)
    Late,      \* copies that may be added later
    Troubled,  \* copies whose error may change
    Handled,   \* copies that people remove in Transmission
    None

Covered(u, kept) == u \in kept \/ PackOf[u] \in kept   \* _covered

Holds(held, units) == \A u \in units : Covered(u, held)

ASSUME CleanupAssumption ==
    /\ IsFiniteSet(Copy) /\ Copy = 1 .. Cardinality(Copy)
    /\ IsFiniteSet(Unit)
    /\ Season \subseteq Unit /\ None \notin Unit
    /\ PackOf \in [Unit -> Season \cup {None}]
    /\ \A s \in Season : PackOf[s] = None
    /\ UnitsOf \in [Name -> (SUBSET Unit) \ {{}}]
    /\ Within \in [Place -> SUBSET (Place \X Name)]
    /\ Libraries \subseteq [Copy -> Name] \X [Copy -> Place]
    /\ Numbering \subseteq {number \in [Copy -> 1 .. Cardinality(Copy)] :
                         \A c, d \in Copy : c # d => number[c] # number[d]}
    /\ Late \cup Troubled \cup Handled \subseteq Copy

VARIABLES
    name, place,  \* of every copy; they never change
    stage,        \* "coming", "there" in Transmission, or "gone" from it
    complete,     \* downloaded to 100 %, as Transmission says
    data,         \* whether its files are whole on the disk
    error,        \* "fine" (or a warning), "tracker" (code 2) or "local" (code 3)
    id,           \* the number Transmission knows it by, 0 when it is not there
    nextId,       \* the number Transmission gives next
    phase, job,   \* of a handler
    targets,      \* copies it removes
    todo,         \* those it has not tried yet
    seen,         \* the numbers in its listing, 0 for what was not listed
    (* What the properties need to remember *)
    counted,      \* copies its judgement counted on (see Reliable)
    stale         \* handlers whose listing is older than Transmission's process

library == <<name, place>>
client == <<stage, complete, data, error, id, nextId>>
handlers == <<phase, job, targets, todo, seen, counted, stale>>
vars == <<library, client, handlers>>

(***************************************************************************)
(* library/cleanup.py. listed: the torrents of a listing; good: those that *)
(* were usable in it.                                                      *)
(***************************************************************************)

units(c) == UnitsOf[name[c]]
Content(copies) == UNION {units(c) : c \in copies}

Usable(c) == complete[c] /\ error[c] # "local"

Overlap(a, b) ==
    \/ \E u \in units(a) : Covered(u, units(b))
    \/ \E u \in units(b) : Covered(u, units(a))

Path(c) == <<place[c], name[c]>>

SharesPath(a, b) ==   \* Copy.shares_path_with: one path, or one inside the other
    Path(a) = Path(b) \/ Path(a) \in Within[place[b]] \/ Path(b) \in Within[place[a]]

SameFiles(a, b) == name[a] = name[b] \/ SharesPath(a, b)

(* The copies linked to c by overlaps: the smallest set closed under them. *)
Cluster(c, listed) ==
    {d \in listed : \A S \in SUBSET listed :
        c \in S /\ (\A a \in S, b \in listed : Overlap(a, b) => b \in S) => d \in S}

Groups(listed) == {g \in {Cluster(c, listed) : c \in listed} : Cardinality(g) >= 2}

(* The sort of _build_group.                                               *)
Packs(c) == Cardinality(units(c) \cap Season)
Precedes(a, b, good) ==
    \/ a \in good /\ b \notin good
    \/ /\ a \in good <=> b \in good
       /\ Packs(a) > Packs(b) \/ (Packs(a) = Packs(b) /\ a < b)

Before(c, kept, good) == {k \in kept : Precedes(k, c, good)}

(* Mutant: a copy that is not complete is kept all the same.               *)
BugMayKeep(good, c) == TRUE

MayKeep(good, c) == c \in good

(* kept_copies: what the copies kept before it do not hold already.        *)
Kept(group, good) ==
    CHOOSE kept \in SUBSET group : \A c \in group :
        c \in kept <=> /\ MayKeep(good, c)
                       /\ ~Holds(Content(Before(c, kept, good)), units(c))

(* Copy.remove: held by the kept copies, and with files of its own.        *)
Proposed(group, good) ==
    {c \in group : LET before == Before(c, Kept(group, good), good) IN
        /\ Holds(Content(before), units(c))
        /\ \A k \in before : ~SameFiles(c, k)}

(* Mutant: the copies that stay need not be complete.                      *)
BugStillCovered(group, good, removed) ==
    Holds(Content(group \ removed), Content(group \cap good))

StillCovered(group, good, removed) ==
    Holds(Content((group \cap good) \ removed), Content(group \cap good))

(* Mutant: only the copies to remove are compared.                         *)
BugApart(group, removed) ==
    \A r \in removed, k \in removed : r = k \/ ~SameFiles(r, k)

Apart(group, removed) == \A r \in removed, k \in group \ removed : ~SameFiles(r, k)

RemovalIsSafe(group, good, removed) ==
    /\ group \ removed # {}
    /\ StillCovered(group, good, removed)
    /\ Apart(group, removed)

(***************************************************************************)
(* Transmission, and people in it.                                         *)
(***************************************************************************)

Removing == {h \in Handler : phase[h] = "removing"}

There == {c \in Copy : stage[c] = "there"}
InError == {c \in There : error[c] # "fine"}

(* A local error is the truth. It may come long after the files went.      *)
Reportable(c) == {"fine", "tracker"} \cup (IF data[c] THEN {} ELSE {"local"})

(* Numbers are only compared: which copy has which at first does not matter. *)
Init ==
    /\ \E l \in Libraries : name = l[1] /\ place = l[2]
    /\ stage \in [Copy -> {"coming", "there"}]
    /\ \A c \in Copy \ Late : stage[c] = "there"
    /\ complete \in [Copy -> BOOLEAN] /\ data = complete
    /\ \A c \in Copy : complete[c] => stage[c] = "there"
    /\ error = [c \in Copy |-> "fine"]
    /\ id = [c \in Copy |-> IF stage[c] = "there" THEN c ELSE 0]
    /\ nextId = Cardinality(Copy) + 1
    /\ phase = [h \in Handler |-> "idle"] /\ job = [h \in Handler |-> "duplicates"]
    /\ targets = [h \in Handler |-> {}] /\ todo = targets
    /\ seen = [h \in Handler |-> [c \in Copy |-> 0]]
    /\ counted = [h \in Handler |-> {}] /\ stale = {}

ErrorChanges(c) ==
    /\ c \in There \cap Troubled
    /\ \E e \in Reportable(c) : error' = [error EXCEPT ![c] = e]
    /\ UNCHANGED <<library, stage, complete, data, id, nextId, handlers>>

Completes(c) ==
    /\ c \in There /\ ~complete[c]
    /\ complete' = [complete EXCEPT ![c] = TRUE]
    /\ data' = [data EXCEPT ![c] = TRUE]
    /\ error' = [error EXCEPT ![c] = "fine"]
    /\ UNCHANGED <<library, stage, id, nextId, handlers>>

Added(c) ==
    /\ stage[c] = "coming"
    /\ stage' = [stage EXCEPT ![c] = "there"]
    /\ id' = [id EXCEPT ![c] = nextId]
    /\ nextId' = nextId + 1
    /\ UNCHANGED <<library, complete, data, error, handlers>>

(* torrent-remove: what bears the number, possibly nothing. With its files, *)
(* those of every copy that shares them go too.                            *)
Removed(hit, withFiles) ==
    /\ stage' = [d \in Copy |-> IF d \in hit THEN "gone" ELSE stage[d]]
    /\ id' = [d \in Copy |-> IF d \in hit THEN 0 ELSE id[d]]
    /\ data' = [d \in Copy |-> data[d] /\ ~(withFiles /\ \E e \in hit : SharesPath(e, d))]
    /\ UNCHANGED <<complete, error, nextId>>

HandRemoves(c, withFiles) ==   \* the page of downloads, or another program
    /\ c \in There \cap Handled
    /\ Removed({c}, withFiles)
    /\ UNCHANGED <<library, handlers>>

(* Transmission counts from 1 again; torrents of other works take the rest. *)
(* Only the numbers that some handler still holds make it matter.          *)
ClientRestarts ==
    /\ Removing # {}
    /\ \E number \in Numbering : id' = [c \in Copy |-> IF c \in There THEN number[c] ELSE 0]
    /\ nextId' = Cardinality(Copy) + 1
    /\ stale' = Removing
    /\ UNCHANGED <<library, stage, complete, data, error>>
    /\ UNCHANGED <<phase, job, targets, todo, seen, counted>>

(***************************************************************************)
(* web/cleanup_routes.py.                                                  *)
(***************************************************************************)

Posts(h, j) ==
    /\ phase[h] = "idle"
    /\ phase' = [phase EXCEPT ![h] = "listing"]
    /\ job' = [job EXCEPT ![h] = j]
    /\ UNCHANGED <<library, client, targets, todo, seen, counted, stale>>

ListingFails(h) ==
    /\ phase[h] = "listing"
    /\ phase' = [phase EXCEPT ![h] = "idle"]
    /\ UNCHANGED <<library, client, job, targets, todo, seen, counted, stale>>

(* The complete copies of a listing that the judgement of groups protects: *)
(* nothing shares the files of one of their group without overlapping it.  *)
Reliable(good, listed) ==
    {c \in good : \A a \in Cluster(c, listed), b \in listed : SharesPath(a, b) => Overlap(a, b)}

(* copies: what the handler is to remove, nothing if it refuses.           *)
Takes(h, copies, relied) ==
    /\ phase' = [phase EXCEPT ![h] = IF copies = {} THEN "idle" ELSE "removing"]
    /\ targets' = [targets EXCEPT ![h] = copies]
    /\ todo' = [todo EXCEPT ![h] = copies]
    /\ seen' = [seen EXCEPT ![h] = IF copies = {} THEN @ ELSE id]
    /\ counted' = [counted EXCEPT ![h] = IF copies = {} THEN {} ELSE relied]
    /\ UNCHANGED <<library, client, job, stale>>

(* remove_duplicates, from the answer of the listing to its first removal. *)
(* One group that cannot lose what was chosen in it refuses everything.    *)
DuplicatesJudged(h, wanted) ==
    /\ phase[h] = "listing" /\ job[h] = "duplicates"
    /\ LET good == {c \in There : Usable(c)}
           chosen == {g \in Groups(There) : g \cap wanted # {}}
           safe == \A g \in chosen : RemovalIsSafe(g, good, g \cap wanted)
       IN  Takes(h, IF safe THEN wanted \cap UNION chosen ELSE {}, Reliable(good, There))

(* handle_errors with "remove"; "stop" pauses and changes nothing here.    *)
ErrorsJudged(h, wanted) ==
    /\ phase[h] = "listing" /\ job[h] = "errors"
    /\ Takes(h, wanted \cap InError, {})

Tried(h, c) ==
    LET last == todo[h] = {c} IN
    /\ todo' = [todo EXCEPT ![h] = @ \ {c}]
    /\ phase' = [phase EXCEPT ![h] = IF last THEN "idle" ELSE "removing"]
    /\ targets' = [targets EXCEPT ![h] = IF last THEN {} ELSE @]
    /\ seen' = [seen EXCEPT ![h] = IF last THEN [d \in Copy |-> 0] ELSE @]
    /\ counted' = [counted EXCEPT ![h] = IF last THEN {} ELSE @]
    /\ stale' = IF last THEN stale \ {h} ELSE stale
    /\ UNCHANGED <<library, job>>

Bearing(number) == {d \in There : id[d] = number}

(* Whatever torrent bears the number of the listing by then, if one does.  *)
(* Also when it was done and the answer was lost: counted as a failure.    *)
Removes(h, c) ==
    /\ c \in todo[h]
    /\ Removed(Bearing(seen[h][c]), job[h] = "duplicates")
    /\ Tried(h, c)

RemovalFails(h, c) ==   \* the loop goes on with the next one
    /\ c \in todo[h]
    /\ Tried(h, c)
    /\ UNCHANGED client

Next ==
    \/ ClientRestarts
    \/ \E c \in Copy :
          \/ ErrorChanges(c) \/ Completes(c) \/ Added(c)
          \/ \E f \in BOOLEAN : HandRemoves(c, f)
    \/ \E h \in Handler :
          \/ \E j \in {"duplicates", "errors"} : Posts(h, j)
          \/ ListingFails(h)
          \/ \E wanted \in SUBSET Copy : DuplicatesJudged(h, wanted) \/ ErrorsJudged(h, wanted)
          \/ \E c \in Copy : Removes(h, c) \/ RemovalFails(h, c)

Spec == Init /\ [][Next]_vars

(***************************************************************************)
(* Properties.                                                             *)
(***************************************************************************)

TypeOK ==
    /\ <<name, place>> \in Libraries
    /\ stage \in [Copy -> {"coming", "there", "gone"}]
    /\ complete \in [Copy -> BOOLEAN] /\ data \in [Copy -> BOOLEAN]
    /\ error \in [Copy -> {"fine", "tracker", "local"}]
    /\ phase \in [Handler -> {"idle", "listing", "removing"}]
    /\ job \in [Handler -> {"duplicates", "errors"}]
    /\ targets \in [Handler -> SUBSET Copy] /\ todo \in [Handler -> SUBSET Copy]
    /\ id \in [Copy -> Nat] /\ nextId \in Nat \ {0}
    /\ seen \in [Handler -> [Copy -> Nat]]
    /\ counted \in [Handler -> SUBSET Copy] /\ stale \subseteq Removing
    /\ \A h \in Handler : /\ todo[h] # {} <=> phase[h] = "removing"
                          /\ todo[h] \subseteq targets[h]
    /\ \A c \in Copy : data[c] => complete[c] /\ error[c] # "local"

OnDisk == Content({c \in Copy : data[c]})

(* Nobody else has taken the files of what stays by h's own judgement.     *)
Intact(h) == \A k \in counted[h] \ targets[h] : data[k]

(* Whatever copies are chosen, whichever removals fail, and whatever is     *)
(* added, removed or completed between the listing and a removal: a         *)
(* cleanup never removes the last files of what its listing had complete,   *)
(* as long as nobody takes the files of the copies it leaves and its        *)
(* listing is younger than Transmission's process (remove_duplicates:       *)
(* "Every group must keep covering what its complete copies covered").      *)
ContentKept ==
    [][\A h \in Handler \ stale, c \in Copy :
        Removes(h, c) /\ Intact(h) => Holds(OnDisk', Content(counted[h]))]_vars

(* A cleanup whose listing is younger than Transmission's process takes     *)
(* from Transmission the copy it means, and deletes no files of a listed   *)
(* torrent that it was not asked to remove and that overlaps this copy.    *)
NoCollateral ==
    [][\A h \in Handler \ stale, c \in Copy : Removes(h, c) =>
        /\ There \ There' \subseteq {c}
        /\ \A d \in There \ targets[h] :
              seen[h][d] # 0 /\ Overlap(c, d) /\ data[d] => data'[d]]_vars

(* What the page proposes to remove is held by complete copies that it     *)
(* does not propose: for any listing, and whatever is broken in it.        *)
ProposalsCover ==
    LET good == {c \in There : Usable(c)} IN
    \A g \in Groups(There) : LET out == Proposed(g, good) IN
        \A c \in out : Holds(Content((g \cap good) \ out), units(c))

(* Once what is proposed has been removed, nothing else is proposed, when   *)
(* only copies that overlap share files.                                   *)
ProposalsSettle ==
    LET good == {c \in There : Usable(c)}
        left == There \ UNION {Proposed(g, good) : g \in Groups(There)}
    IN  Reliable(There, There) = There => \A g \in Groups(left) : Proposed(g, good) = {}

(* What the page proposes can be removed without loss, once and for all.   *)
ProposalsSound == ProposalsCover /\ ProposalsSettle

(* A cleanup takes from Transmission only what it was asked to remove      *)
(* (remove_duplicates: "Copies are designated by info hash (Transmission   *)
(* ids change when it restarts)").                                         *)
OnlyChosenGo ==
    [][\A h \in Handler, c \in Copy : Removes(h, c) => There \ There' \subseteq targets[h]]_vars

(* It deletes the files of nothing else, listed or not, on no condition    *)
(* (removal_is_safe, remove_duplicates).                                   *)
OthersUntouched ==
    [][\A h \in Handler, c \in Copy :
        Removes(h, c) => \A d \in There \ targets[h] : data[d] => data'[d]]_vars

(* What its listing had complete is still on the disk, whoever else works  *)
(* on the same torrents (removal_is_safe).                                 *)
CompleteKept ==
    [][\A h \in Handler, c \in Copy :
        Removes(h, c) => Holds(OnDisk', Content(counted[h]))]_vars

(* No torrent that stays loses its files, one whose removal fails neither  *)
(* (removal_is_safe: "a copy whose name another remaining copy shares      *)
(* cannot be deleted").                                                    *)
RemainingIntact ==
    [][\A h \in Handler, c \in Copy :
        Removes(h, c) => \A d \in There \ todo[h] : data[d] => data'[d]]_vars

(* find_duplicates: "a copy sharing its name with another is never         *)
(* proposed (same files on disk)".                                         *)
SharedNeverProposed ==
    LET good == {c \in There : Usable(c)} IN
    \A g \in Groups(There) : \A c \in Proposed(g, good) : \A d \in g \ {c} : name[c] # name[d]

(* What the page proposes is accepted by remove_duplicates.                *)
ProposalsAccepted ==
    LET good == {c \in There : Usable(c)} IN
    \A g \in Groups(There) :
        Proposed(g, good) # {} => RemovalIsSafe(g, good, Proposed(g, good))
=============================================================================
