----------------------------- MODULE FrontProofs -----------------------------
(***************************************************************************)
(* What a tab of the browser keeps for any filters, panels and dropdowns,  *)
(* in whatever order clicks, answers, polls and navigations come.          *)
(*                                                                         *)
(* Each page has an invariant of its own, which the handlers of the other  *)
(* pages leave alone: app.js keeps no state that two of them share.        *)
(***************************************************************************)
EXTENDS Front, FiniteSetTheorems, TLAPS

(***************************************************************************)
(* The window: what is open over the page.                                 *)
(***************************************************************************)

WindowInv ==
    /\ page \in Page
    /\ dropdowns \subseteq OnPage
    /\ \A a, b \in dropdowns : a = b
    /\ modal \in BOOLEAN /\ modalAsked \in BOOLEAN

LEMMA OneDropdown ==
    ASSUME WindowInv
    PROVE  Cardinality(dropdowns) <= 1
  <1>1. CASE dropdowns = {}
    BY <1>1, FS_EmptySet
  <1>2. CASE dropdowns # {}
    <2>1. PICK d : dropdowns = {d}
      BY <1>2 DEF WindowInv
    <2> QED
      BY <2>1, FS_Singleton
  <1> QED
    BY <1>1, <1>2

(* Dropdowns that close leave the invariant as it is.                      *)
LEMMA DropdownsClose ==
    ASSUME WindowInv, UNCHANGED page, dropdowns' \subseteq dropdowns,
           modal' \in BOOLEAN, modalAsked' \in BOOLEAN
    PROVE  WindowInv'
  BY DEF WindowInv, OnPage

LEMMA WindowStep == WindowInv /\ [Next]_vars => WindowInv'
  <1> SUFFICES ASSUME WindowInv, [Next]_vars PROVE WindowInv'
    OBVIOUS
  <1> USE DEF window
  <1>0. modal \in BOOLEAN /\ modalAsked \in BOOLEAN
    BY DEF WindowInv
  <1>1. ASSUME NEW p \in Page, NEW q, NEW kinds, NEW f, Opens(p, q, kinds, f) PROVE WindowInv'
    BY <1>1 DEF Opens, WindowInv
  <1>2. CASE Navigates \/ Reloads \/ Searches
    <2>1. CASE \E p \in Page : \E q, kinds, f : Opens(p, q, kinds, f)
      BY <1>1, <2>1
    <2>2. CASE UNCHANGED <<page, modal, modalAsked>> /\ ClosesDropdowns({})
      BY <1>0, <2>2, DropdownsClose DEF ClosesDropdowns
    <2> QED
      BY <1>2, <2>1, <2>2 DEF Navigates, Reloads, Searches, Page
  <1>3. ASSUME NEW d \in Dropdown, ClicksSummary(d) PROVE WindowInv'
    <2>1. d \in OnPage /\ dropdowns' \subseteq {d} /\ UNCHANGED <<page, modal, modalAsked>>
      BY <1>3 DEF ClicksSummary, ToggledAfter
    <2> QED
      BY <2>1 DEF WindowInv, OnPage
  <1>4. CASE ClicksNothing \/ ClicksCard \/ ModalAnswered \/ ClosesModal
    BY <1>0, <1>4, DropdownsClose
    DEF ClicksNothing, ClicksCard, ModalAnswered, ClosesModal, ClosesDropdowns
  <1>5. CASE \E f \in Filter : EditsFilter(f) \/ ClicksChip(f)
    BY <1>0, <1>5, DropdownsClose DEF EditsFilter, ClicksChip, ClosesDropdowns
  <1>6. CASE FormAnswered \/ FormFails \/ Sorts \/ SortAnswered
    BY <1>0, <1>6, DropdownsClose
    DEF FormAnswered, FormFails, Sorts, SortAnswered, ClosesDropdowns
  <1>7. CASE (\E t \in Tab : ClicksTab(t)) \/ ClicksForm \/ BodySwapped \/ Polls \/ HistorySwapped
    BY <1>0, <1>7, DropdownsClose
    DEF ClicksTab, ClicksForm, BodySwapped, Polls, HistorySwapped, ClosesDropdowns
  <1>8. CASE (\E key \in Panel : ClicksSettingsTab(key)) \/ DocumentLoaded \/ HashEdited \/ HashChange
    BY <1>0, <1>8, DropdownsClose
    DEF ClicksSettingsTab, DocumentLoaded, HashEdited, HashChange, ClosesDropdowns
  <1>9. CASE UNCHANGED vars
    BY <1>0, <1>9, DropdownsClose DEF vars
  <1> QED
    BY <1>2, <1>3, <1>4, <1>5, <1>6, <1>7, <1>8, <1>9 DEF Next

(***************************************************************************)
(* The search page. ChipsHeard is not inductive: one must know that what   *)
(* is owed is no longer set in the form, nor asked for by a request that   *)
(* nothing follows.                                                        *)
(***************************************************************************)

SearchTypeOK ==
    /\ byQuery \in BOOLEAN /\ rows \in BOOLEAN /\ queued \in BOOLEAN
    /\ form \subseteq Filter /\ chips \subseteq Filter /\ owed \subseteq Filter
    /\ asked = None \/ asked \subseteq Filter
    /\ sortAsked \subseteq SUBSET Filter
    /\ queued => asked # None
    /\ ~rows => chips = {}

ChipsInv ==
    /\ owed \cap form = {}
    /\ ChipsHeard
    /\ ~byQuery /\ asked # None /\ ~queued => owed \cap asked = {}

SearchInv == SearchTypeOK /\ ChipsInv

LEMMA SearchOpens ==
    ASSUME NEW p, NEW q \in BOOLEAN, NEW kinds, NEW f, Opens(p, q, kinds, f)
    PROVE  SearchInv'
  BY DEF Opens, FreshSearch, SearchInv, SearchTypeOK, ChipsInv, ChipsHeard

(* What a submit event does to the request of the form.                    *)
LEMMA Submitted ==
    ASSUME SearchTypeOK, form' \subseteq Filter, FormSubmitted
    PROVE  /\ asked' # None /\ asked' \subseteq Filter /\ queued' \in BOOLEAN
           /\ ~queued' => asked' = form'
  BY FrontAssumption DEF SearchTypeOK, FormSubmitted

(* What the end of a request leaves.                                       *)
LEMMA Freed ==
    ASSUME SearchTypeOK, asked # None, FormFree
    PROVE  /\ ~queued' /\ queued' \in BOOLEAN
           /\ \/ queued /\ asked' = form /\ asked' # None /\ asked' \subseteq Filter
              \/ ~queued /\ asked' = None
  BY FrontAssumption DEF SearchTypeOK, FormFree

LEMMA Shown ==
    ASSUME SearchTypeOK, NEW filters, filters \subseteq Filter, ResultsShown(filters)
    PROVE  /\ rows' \in BOOLEAN /\ chips' \subseteq filters /\ (~rows' => chips' = {})
           /\ owed' \subseteq owed /\ owed' \subseteq filters
  BY DEF ResultsShown

LEMMA SearchStep == SearchInv /\ [Next]_vars => SearchInv'
  <1> SUFFICES ASSUME SearchInv, [Next]_vars PROVE SearchInv'
    OBVIOUS
  <1> USE DEF searchPage
  <1>1. CASE Navigates \/ Reloads
    BY <1>1, SearchOpens DEF Navigates, Reloads
  <1>2. ASSUME NEW f \in Filter, EditsFilter(f) PROVE SearchInv'
    <2>1. /\ form' \subseteq Filter /\ form' \subseteq form \cup {f}
          /\ owed' = owed \ {f}
          /\ UNCHANGED <<byQuery, rows, chips, asked, queued, sortAsked>>
      BY <1>2 DEF EditsFilter, SearchInv, SearchTypeOK
    <2> QED
      BY <2>1 DEF SearchInv, SearchTypeOK, ChipsInv, ChipsHeard
  <1>3. CASE Searches
    <2>1. CASE Opens("search", TRUE, {"empty", "history"}, OtherHash)
      BY <2>1, SearchOpens
    <2>2. CASE ~byQuery /\ FormSubmitted /\ UNCHANGED <<byQuery, form, rows, chips, sortAsked, owed>>
      <3>1. /\ asked' # None /\ asked' \subseteq Filter /\ queued' \in BOOLEAN
            /\ ~queued' => asked' = form'
        BY <2>2, Submitted DEF SearchInv, SearchTypeOK
      <3> QED
        BY <2>2, <3>1 DEF SearchInv, SearchTypeOK, ChipsInv, ChipsHeard
    <2> QED
      BY <1>3, <2>1, <2>2 DEF Searches
  <1>4. ASSUME NEW f \in Filter, ClicksChip(f) PROVE SearchInv'
    <2>1. /\ form' = form \ {f} /\ owed' = owed \cup {f}
          /\ UNCHANGED <<byQuery, rows, chips, sortAsked>>
          /\ IF byQuery THEN UNCHANGED <<asked, queued>> ELSE FormSubmitted
      BY <1>4 DEF ClicksChip, ClearFilter
    <2>2. form' \subseteq Filter /\ owed' \subseteq Filter /\ owed' \cap form' = {}
      BY <2>1 DEF SearchInv, SearchTypeOK, ChipsInv
    <2>3. CASE byQuery
      BY <2>1, <2>2, <2>3 DEF SearchInv, SearchTypeOK, ChipsInv, ChipsHeard
    <2>4. CASE ~byQuery
      <3>1. /\ asked' # None /\ asked' \subseteq Filter /\ queued' \in BOOLEAN
            /\ ~queued' => asked' = form'
        BY <2>1, <2>2, <2>4, Submitted DEF SearchInv
      <3> QED
        BY <2>1, <2>2, <2>4, <3>1 DEF SearchInv, SearchTypeOK, ChipsInv, ChipsHeard
    <2> QED
      BY <2>3, <2>4
  <1>5. CASE FormAnswered
    <2>1. /\ asked # None /\ asked \subseteq Filter /\ ResultsShown(asked) /\ FormFree
          /\ UNCHANGED <<byQuery, form, sortAsked>>
      BY <1>5 DEF FormAnswered, SearchInv, SearchTypeOK
    <2>2. /\ ~queued' /\ queued' \in BOOLEAN
          /\ \/ queued /\ asked' = form /\ asked' # None /\ asked' \subseteq Filter
             \/ ~queued /\ asked' = None
      BY <2>1, Freed DEF SearchInv
    <2>3. /\ rows' \in BOOLEAN /\ chips' \subseteq asked /\ (~rows' => chips' = {})
          /\ owed' \subseteq owed /\ owed' \subseteq asked
      BY <2>1, Shown DEF SearchInv
    <2>4. SearchTypeOK'
      BY <2>1, <2>2, <2>3 DEF SearchInv, SearchTypeOK
    <2>5. ChipsInv'
      BY <2>1, <2>2, <2>3 DEF SearchInv, ChipsInv, ChipsHeard
    <2> QED
      BY <2>4, <2>5 DEF SearchInv
  <1>6. CASE FormFails
    <2>1. /\ asked # None /\ FormFree /\ owed' = IF queued THEN owed ELSE {}
          /\ UNCHANGED <<byQuery, form, rows, chips, sortAsked>>
      BY <1>6 DEF FormFails
    <2>2. /\ ~queued' /\ queued' \in BOOLEAN
          /\ \/ queued /\ asked' = form /\ asked' # None /\ asked' \subseteq Filter
             \/ ~queued /\ asked' = None
      BY <2>1, Freed DEF SearchInv
    <2> QED
      BY <2>1, <2>2 DEF SearchInv, SearchTypeOK, ChipsInv, ChipsHeard
  <1>7. CASE Sorts
    BY <1>7 DEF Sorts, SearchInv, SearchTypeOK, ChipsInv, ChipsHeard
  <1>8. CASE SortAnswered
    <2>1. PICK filters \in sortAsked : /\ sortAsked' = sortAsked \ {filters}
                                       /\ ResultsShown(filters)
      BY <1>8 DEF SortAnswered
    <2>2. UNCHANGED <<byQuery, form, asked, queued>> /\ filters \subseteq Filter
      BY <1>8, <2>1 DEF SortAnswered, SearchInv, SearchTypeOK
    <2>3. /\ rows' \in BOOLEAN /\ chips' \subseteq Filter /\ (~rows' => chips' = {})
          /\ owed' \subseteq owed
      BY <2>1, <2>2, Shown DEF SearchInv
    <2> QED
      BY <2>1, <2>2, <2>3 DEF SearchInv, SearchTypeOK, ChipsInv, ChipsHeard
  <1>9. CASE UNCHANGED searchPage
    BY <1>9 DEF SearchInv, SearchTypeOK, ChipsInv, ChipsHeard
  <1> QED
    BY <1>1, <1>2, <1>3, <1>4, <1>5, <1>6, <1>7, <1>8, <1>9
    DEF Next, vars, ClicksSummary, ClicksNothing, ClicksCard, ModalAnswered, ClosesModal,
        ClicksTab, ClicksForm, BodySwapped, Polls, HistorySwapped, ClicksSettingsTab,
        DocumentLoaded, HashEdited, HashChange

(***************************************************************************)
(* The surveillance page.                                                  *)
(***************************************************************************)

WatchInv ==
    /\ items \in Rendering /\ lit \subseteq Tab /\ hidden \subseteq items
    /\ clicked \in BOOLEAN /\ posting \in BOOLEAN /\ polling \in BOOLEAN
    /\ TabHonest

LEMMA FreshBodyHonest ==
    ASSUME NEW kinds \in Rendering, FreshBody(kinds)
    PROVE  WatchInv'
  BY DEF FreshBody, WatchInv, TabHonest, Tab

LEMMA WatchStep == WatchInv /\ [Next]_vars => WatchInv'
  <1> SUFFICES ASSUME WatchInv, [Next]_vars PROVE WatchInv'
    OBVIOUS
  <1> USE DEF watchPage
  <1>1. CASE \E p, q, f : \E kinds \in Rendering : Opens(p, q, kinds, f)
    BY <1>1, FreshBodyHonest DEF Opens
  <1>2. CASE Navigates \/ Reloads
    <2>1. {"empty", "history"} \in Rendering
      BY DEF Rendering
    <2> QED
      BY <1>1, <1>2, <2>1 DEF Navigates, Reloads
  <1>3. CASE Searches
    <2>1. {"empty", "history"} \in Rendering
      BY DEF Rendering
    <2>2. CASE UNCHANGED <<page, watchPage>>
      BY <2>2 DEF WatchInv, TabHonest
    <2> QED
      BY <1>1, <1>3, <2>1, <2>2 DEF Searches
  <1>4. ASSUME NEW t \in Tab, ClicksTab(t) PROVE WatchInv'
    <2>1. /\ lit' = {t} /\ hidden' = {kind \in items : ~TabShows(t, kind)}
          /\ clicked' = TRUE /\ UNCHANGED <<items, posting, polling>>
      BY <1>4 DEF ClicksTab
    <2>2. items' \ hidden' = {k \in items' : TabShows(t, k)}
      BY <2>1
    <2> QED
      BY <2>1, <2>2 DEF WatchInv, TabHonest
  <1>5. CASE BodySwapped
    BY <1>5, FreshBodyHonest DEF BodySwapped
  <1>6. CASE ClicksForm \/ Polls \/ HistorySwapped
    <2>1. UNCHANGED <<page, items, lit, hidden, clicked>>
      BY <1>6 DEF ClicksForm, Polls, HistorySwapped
    <2>2. posting' \in BOOLEAN /\ polling' \in BOOLEAN
      BY <1>6 DEF ClicksForm, Polls, HistorySwapped, WatchInv
    <2> QED
      BY <2>1, <2>2 DEF WatchInv, TabHonest
  <1>7. CASE UNCHANGED <<page, watchPage>>
    BY <1>7 DEF WatchInv, TabHonest
  <1> QED
    BY <1>2, <1>3, <1>4, <1>5, <1>6, <1>7
    DEF Next, vars, ClicksSummary, ClicksNothing, ClicksCard, ModalAnswered, ClosesModal,
        EditsFilter, ClicksChip, FormAnswered, FormFails, Sorts, SortAnswered,
        ClicksSettingsTab, DocumentLoaded, HashEdited, HashChange

(***************************************************************************)
(* The settings page.                                                      *)
(***************************************************************************)

SettingsInv ==
    /\ hash \in Panel \cup {OtherHash}
    /\ hashChanged \in BOOLEAN /\ loaded \in BOOLEAN
    /\ shown \subseteq Panel /\ selected \subseteq Panel
    /\ HashNamesPanel

LEMMA SettingsOpens ==
    ASSUME NEW p, NEW q, NEW kinds, NEW f \in Panel \cup {OtherHash}, Opens(p, q, kinds, f)
    PROVE  SettingsInv'
  BY FrontAssumption DEF Opens, SettingsInv, HashNamesPanel

(* Whatever the key, one panel is shown under its tab.                     *)
LEMMA ShowsOne ==
    ASSUME NEW key, ShowSettingsTab(key)
    PROVE  shown' = {PanelOf(key)} /\ selected' = shown' /\ shown' \subseteq Panel
  BY FrontAssumption DEF ShowSettingsTab, PanelOf

LEMMA SettingsStep == SettingsInv /\ [Next]_vars => SettingsInv'
  <1> SUFFICES ASSUME SettingsInv, [Next]_vars PROVE SettingsInv'
    OBVIOUS
  <1> USE DEF settingsPage
  <1>1. CASE Navigates \/ Reloads
    BY <1>1, SettingsOpens DEF Navigates, Reloads, SettingsInv
  <1>2. CASE Searches
    <2>1. CASE UNCHANGED <<page, settingsPage>>
      BY <2>1 DEF SettingsInv, HashNamesPanel, PanelOf
    <2> QED
      BY <1>2, <2>1, SettingsOpens DEF Searches
  <1>3. CASE DocumentLoaded \/ HashChange
    <2>1. ShowSettingsTab(hash) /\ UNCHANGED <<page, hash>>
      BY <1>3 DEF DocumentLoaded, HashChange
    <2>2. hashChanged' \in BOOLEAN /\ loaded' \in BOOLEAN
      BY <1>3 DEF DocumentLoaded, HashChange, SettingsInv
    <2>3. shown' = {PanelOf(hash)} /\ selected' = shown' /\ shown' \subseteq Panel
      BY <2>1, ShowsOne
    <2> QED
      BY <2>1, <2>2, <2>3 DEF SettingsInv, HashNamesPanel, PanelOf
  <1>4. ASSUME NEW key \in Panel, ClicksSettingsTab(key) PROVE SettingsInv'
    <2>1. hash' = key /\ UNCHANGED <<hashChanged, loaded>> /\ ShowSettingsTab(key)
      BY <1>4 DEF ClicksSettingsTab
    <2>2. shown' = {PanelOf(key)} /\ selected' = shown' /\ shown' \subseteq Panel
      BY <2>1, ShowsOne
    <2> QED
      BY <2>1, <2>2 DEF SettingsInv, HashNamesPanel, PanelOf
  <1>5. CASE HashEdited
    BY <1>5 DEF HashEdited, SettingsInv, HashNamesPanel
  <1>6. CASE UNCHANGED <<page, settingsPage>>
    BY <1>6 DEF SettingsInv, HashNamesPanel, PanelOf
  <1> QED
    BY <1>1, <1>2, <1>3, <1>4, <1>5, <1>6
    DEF Next, vars, ClicksSummary, ClicksNothing, ClicksCard, ModalAnswered, ClosesModal,
        EditsFilter, ClicksChip, FormAnswered, FormFails, Sorts, SortAnswered,
        ClicksTab, ClicksForm, BodySwapped, Polls, HistorySwapped

(***************************************************************************)
(* The theorems.                                                           *)
(***************************************************************************)

FrontInv == WindowInv /\ SearchInv /\ WatchInv /\ SettingsInv

LEMMA FrontInit == Init => FrontInv
  <1> SUFFICES ASSUME Init PROVE FrontInv
    OBVIOUS
  <1>1. WindowInv
    BY DEF Init, WindowInv, Page
  <1>2. SearchInv
    BY DEF Init, SearchInv, SearchTypeOK, ChipsInv, ChipsHeard
  <1>3. WatchInv
    BY DEF Init, WatchInv, TabHonest, Rendering, Tab
  <1>4. SettingsInv
    BY FrontAssumption DEF Init, SettingsInv, HashNamesPanel
  <1> QED
    BY <1>1, <1>2, <1>3, <1>4 DEF FrontInv

LEMMA FrontInvariance == Spec => []FrontInv
  <1>1. FrontInv /\ [Next]_vars => FrontInv'
    BY WindowStep, SearchStep, WatchStep, SettingsStep DEF FrontInv
  <1> QED
    BY <1>1, FrontInit, PTL DEF Spec

(* Every reachable state is well typed: at most one dropdown is open, and  *)
(* it is on the page; without results there are no chips; a form that was  *)
(* submitted again waits behind a request.                                 *)
THEOREM TypeCorrect == Spec => []TypeOK
  <1>1. FrontInv => TypeOK
    BY OneDropdown DEF FrontInv, WindowInv, SearchInv, SearchTypeOK, WatchInv, SettingsInv, TypeOK
  <1> QED
    BY <1>1, FrontInvariance, PTL

(* The tab that is lit says what is to be seen on the surveillance page,   *)
(* whatever polls and swaps of its body come between the clicks.           *)
THEOREM TabHonestCorrect == Spec => []TabHonest
  <1>1. FrontInv => TabHonest
    BY DEF FrontInv, WatchInv
  <1> QED
    BY <1>1, FrontInvariance, PTL

(* The settings panel that is shown is the one the URL names, in whatever  *)
(* order clicks, edits of the URL and hashchange events come.              *)
THEOREM HashNamesPanelCorrect == Spec => []HashNamesPanel
  <1>1. FrontInv => HashNamesPanel
    BY DEF FrontInv, SettingsInv
  <1> QED
    BY <1>1, FrontInvariance, PTL

(* A chip that was clicked is searched without, also when a search, or the *)
(* sort of an older one, was under way at the click.                       *)
THEOREM ChipsHeardCorrect == Spec => []ChipsHeard
  <1>1. FrontInv => ChipsHeard
    BY DEF FrontInv, SearchInv, ChipsInv
  <1> QED
    BY <1>1, FrontInvariance, PTL
=============================================================================
