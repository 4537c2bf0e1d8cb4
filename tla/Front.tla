------------------------------- MODULE Front -------------------------------
(***************************************************************************)
(* A browser tab on TorrSearch: web/static/app.js, which wires the pages by *)
(* event delegation, with the htmx attributes of the templates it works on. *)
(*                                                                         *)
(* Handlers run to their end; between two of them anything may happen: an  *)
(* answer of the server, a poll, a navigation, a click. htmx (1.9.12) is    *)
(* external: an element sends one request at a time and keeps the last one *)
(* asked meanwhile; the values of a form are read when it is sent; a swap  *)
(* of an element that is no longer in the page does nothing.               *)
(***************************************************************************)
EXTENDS Naturals, FiniteSets

CONSTANTS
    Filter,      \* filters of the search form, each quality being one
    Panel,       \* settings panels rendered for this user
    FirstPanel,
    OtherHash,   \* a fragment of the URL that names no panel
    BodyMenu,    \* the dropdowns of the surveillance page
    SiteMenu,    \* the dropdown of the navigation bar
    None

ASSUME FrontAssumption ==
    /\ FirstPanel \in Panel /\ OtherHash \notin Panel
    /\ SiteMenu \notin BodyMenu
    /\ \A filters \in SUBSET Filter : filters # None

Page == {"search", "surveillance", "settings"}
Dropdown == BodyMenu \cup {SiteMenu}
Work == {"movie", "series", "search"}           \* data-surveillance-item
Tab == {"all", "history"} \cup Work             \* data-surveillance-tab

VARIABLES
    page,
    dropdowns,   \* the <details data-dropdown> that are open
    modal,       \* whether #modal-container has content
    modalAsked,  \* whether an answer for it is awaited
    (* The search page *)
    byQuery,     \* opened as /?q=...: the form has hx-trigger="load" only
    form,        \* the filters set in the form
    rows,        \* whether results are shown; without any there are no chips
    chips,       \* the filters the shown results name
    asked,       \* the filters of the form's request under way, or None
    queued,      \* whether the form was submitted again meanwhile
    sortAsked,   \* the filters sent by the sort controls, still unanswered
    (* The surveillance page *)
    items,       \* the kinds of items #surveillance-body was rendered with
    lit,         \* the tabs that are highlighted
    hidden,      \* the kinds of items with display: none
    clicked,     \* whether a tab was clicked since that rendering
    posting,     \* whether a form of the body awaits its answer
    polling,     \* whether the history awaits its own
    (* The settings page *)
    hash,        \* the fragment of the URL
    hashChanged, \* whether a hashchange event is still to come
    loaded,      \* whether DOMContentLoaded has come
    shown,       \* the panels that are not hidden
    selected,    \* the settings tabs that are highlighted
    (* What ChipsHeard remembers *)
    owed         \* chips clicked whose new results are not there yet

window == <<dropdowns, modal, modalAsked>>
searchPage == <<byQuery, form, rows, chips, asked, queued, sortAsked, owed>>
watchPage == <<items, lit, hidden, clicked, posting, polling>>
settingsPage == <<hash, hashChanged, loaded, shown, selected>>
vars == <<page, window, searchPage, watchPage, settingsPage>>

Rendering == {{"empty", "history"}} \cup {{"history"} \cup w : w \in (SUBSET Work) \ {{}}}

(***************************************************************************)
(* A new document, as the server renders it.                               *)
(***************************************************************************)

FreshBody(kinds) ==   \* the items and the tabs of surveillance_body.html
    /\ items' = kinds
    /\ lit' = {"all"} /\ hidden' = {} /\ clicked' = FALSE
    /\ posting' = FALSE /\ polling' = FALSE

(* With /?q= the form asks at once, without any filter.                    *)
FreshSearch(withQuery) ==
    /\ byQuery' = withQuery
    /\ form' = {} /\ rows' = FALSE /\ chips' = {} /\ queued' = FALSE
    /\ sortAsked' = {} /\ owed' = {}
    /\ asked' = IF withQuery THEN {} ELSE None

Opens(p, withQuery, kinds, fragment) ==
    /\ page' = p
    /\ dropdowns' = {} /\ modal' = FALSE /\ modalAsked' = FALSE
    /\ FreshSearch(withQuery)
    /\ FreshBody(kinds)
    /\ hash' = fragment /\ hashChanged' = FALSE /\ loaded' = FALSE
    /\ shown' = {FirstPanel} /\ selected' = {FirstPanel}

Init ==
    /\ page = "search"
    /\ dropdowns = {} /\ modal = FALSE /\ modalAsked = FALSE
    /\ byQuery = FALSE /\ form = {} /\ rows = FALSE /\ chips = {} /\ asked = None
    /\ queued = FALSE /\ sortAsked = {} /\ owed = {}
    /\ items = {"empty", "history"} /\ lit = {"all"} /\ hidden = {} /\ clicked = FALSE
    /\ posting = FALSE /\ polling = FALSE
    /\ hash = OtherHash /\ hashChanged = FALSE /\ loaded = FALSE
    /\ shown = {FirstPanel} /\ selected = {FirstPanel}

Navigates ==
    \/ \E q \in BOOLEAN : Opens("search", q, {"empty", "history"}, OtherHash)
    \/ \E kinds \in Rendering : Opens("surveillance", FALSE, kinds, OtherHash)
    \/ \E h \in Panel \cup {OtherHash} : Opens("settings", FALSE, {"empty", "history"}, h)

Reloads == page = "settings" /\ Opens("settings", FALSE, {"empty", "history"}, hash)

(***************************************************************************)
(* Clicks. Every click first closes the dropdowns it is not in.            *)
(***************************************************************************)

(* target: the dropdown that contains what is clicked, if any.             *)
ClosesDropdowns(target) == dropdowns' = dropdowns \cap target

OnPage == {d \in Dropdown : d \in BodyMenu => page = "surveillance"}

(* The browser toggles the <details> after the handler, as its default.    *)
ToggledAfter(d, still) == IF d \in still THEN still \ {d} ELSE still \cup {d}

ClicksSummary(d) ==
    /\ d \in OnPage
    /\ dropdowns' = ToggledAfter(d, dropdowns \cap {d})
    /\ UNCHANGED <<page, modal, modalAsked, searchPage, watchPage, settingsPage>>

ClicksNothing ==
    /\ \E d \in {{}} \cup {{o} : o \in dropdowns} : ClosesDropdowns(d)
    /\ UNCHANGED <<page, modal, modalAsked, searchPage, watchPage, settingsPage>>

(* A card: its details are fetched into the modal.                         *)
ClicksCard ==
    /\ ClosesDropdowns({})
    /\ modalAsked' = TRUE
    /\ UNCHANGED <<page, modal, searchPage, watchPage, settingsPage>>

ModalAnswered ==
    /\ modalAsked
    /\ modalAsked' = FALSE /\ modal' = TRUE
    /\ UNCHANGED <<page, dropdowns, searchPage, watchPage, settingsPage>>

ClosesModal ==   \* data-modal-close, data-modal-backdrop, or Escape
    /\ modal
    /\ modal' = FALSE
    /\ ClosesDropdowns({}) \/ UNCHANGED dropdowns
    /\ UNCHANGED <<page, modalAsked, searchPage, watchPage, settingsPage>>

(***************************************************************************)
(* The search page.                                                        *)
(***************************************************************************)

(* A submit event that htmx hears; the form's values are those of then.    *)
FormSubmitted ==
    IF asked = None
    THEN asked' = form' /\ UNCHANGED queued
    ELSE queued' = TRUE /\ UNCHANGED asked

EditsFilter(f) ==
    /\ page = "search"
    /\ form' = IF f \in form THEN form \ {f} ELSE form \cup {f}
    /\ owed' = owed \ {f}
    /\ ClosesDropdowns({})
    /\ UNCHANGED <<page, modal, modalAsked, byQuery, rows, chips, asked, queued, sortAsked,
                   watchPage, settingsPage>>

(* The button. Without a listener the browser submits the form itself: the *)
(* page is opened again, by its query, and the filters are forgotten.      *)
Searches ==
    /\ page = "search"
    /\ \/ /\ ~byQuery
          /\ UNCHANGED form
          /\ FormSubmitted
          /\ ClosesDropdowns({})
          /\ UNCHANGED <<page, modal, modalAsked, byQuery, rows, chips, sortAsked, owed,
                         watchPage, settingsPage>>
       \/ /\ byQuery
          /\ Opens("search", TRUE, {"empty", "history"}, OtherHash)

(* Mutant: the field is reset, the search is not run again.                *)
BugClearOnly(f) == form' = form \ {f} /\ UNCHANGED <<asked, queued>>

(* clearFilter: htmx.trigger fires a submit event, which nothing hears on  *)
(* a page opened by its query.                                             *)
ClearFilter(f) ==
    /\ form' = form \ {f}
    /\ IF byQuery THEN UNCHANGED <<asked, queued>> ELSE FormSubmitted

ClicksChip(f) ==
    /\ page = "search"
    /\ f \in chips
    /\ ClearFilter(f)
    /\ owed' = owed \cup {f}
    /\ ClosesDropdowns({})
    /\ UNCHANGED <<page, modal, modalAsked, byQuery, rows, chips, sortAsked,
                   watchPage, settingsPage>>

(* Mutant: the chips are rendered above the table, results or not.         *)
BugChipsAlways(filters) ==
    /\ rows' \in BOOLEAN
    /\ chips' = filters
    /\ owed' = owed \cap chips'

(* results.html: without results there are no chips.                       *)
ResultsShown(filters) ==
    /\ rows' \in BOOLEAN
    /\ chips' = IF rows' THEN filters ELSE {}
    /\ owed' = owed \cap chips'

(* endRequestLock: what was queued is sent, with the form as it is now.    *)
FormFree ==
    /\ asked' = IF queued THEN form ELSE None
    /\ queued' = FALSE

FormAnswered ==
    /\ asked # None
    /\ ResultsShown(asked)
    /\ FormFree
    /\ UNCHANGED <<page, window, byQuery, form, sortAsked, watchPage, settingsPage>>

(* The request fails: nothing is swapped, and what it was to clear stays.  *)
FormFails ==
    /\ asked # None
    /\ FormFree
    /\ owed' = IF queued THEN owed ELSE {}
    /\ UNCHANGED <<page, window, byQuery, form, rows, chips, sortAsked, watchPage, settingsPage>>

(* The sort controls are elements of the results: each rendering has its   *)
(* own, which send the form too and do not wait for the form's request.    *)
Sorts ==
    /\ page = "search"
    /\ rows
    /\ sortAsked' = sortAsked \cup {form}
    /\ ClosesDropdowns({})
    /\ UNCHANGED <<page, modal, modalAsked, byQuery, form, rows, chips, asked, queued, owed,
                   watchPage, settingsPage>>

SortAnswered ==
    /\ \E filters \in sortAsked :
         /\ sortAsked' = sortAsked \ {filters}
         /\ ResultsShown(filters)
    /\ UNCHANGED <<page, window, byQuery, form, asked, queued, watchPage, settingsPage>>

(***************************************************************************)
(* The surveillance page.                                                  *)
(***************************************************************************)

TabShows(t, kind) == IF t = "all" THEN kind # "history" ELSE kind = t

ClicksTab(t) ==
    /\ page = "surveillance"
    /\ t = "search" => "search" \in items   \* that tab needs a saved search
    /\ lit' = {t}
    /\ hidden' = {kind \in items : ~TabShows(t, kind)}
    /\ clicked' = TRUE
    /\ ClosesDropdowns({})
    /\ UNCHANGED <<page, modal, modalAsked, items, posting, polling, searchPage, settingsPage>>

ClicksForm ==
    /\ page = "surveillance"
    /\ posting' = TRUE
    /\ \E d \in {{}} \cup {{o} : o \in dropdowns} : ClosesDropdowns(d)
    /\ UNCHANGED <<page, modal, modalAsked, items, lit, hidden, clicked, polling,
                   searchPage, settingsPage>>

(* #surveillance-body is replaced: its dropdowns are closed, its tab is    *)
(* "all", and the answers still to come have no target left.               *)
BodySwapped ==
    /\ posting
    /\ \E kinds \in Rendering : FreshBody(kinds)
    /\ dropdowns' = dropdowns \cap {SiteMenu}
    /\ UNCHANGED <<page, modal, modalAsked, searchPage, settingsPage>>

Polls ==
    /\ page = "surveillance"
    /\ polling' = TRUE
    /\ UNCHANGED <<page, window, items, lit, hidden, clicked, posting, searchPage, settingsPage>>

(* Mutant: the poll replaces the item instead of the section inside it.       *)
BugPollShowsHistory ==
    /\ polling
    /\ polling' = FALSE
    /\ hidden' = hidden \ {"history"}
    /\ UNCHANGED <<page, window, items, lit, clicked, posting, searchPage, settingsPage>>

(* The history section is replaced inside its item, which keeps its style. *)
HistorySwapped ==
    /\ polling
    /\ polling' = FALSE
    /\ UNCHANGED <<page, window, items, lit, hidden, clicked, posting, searchPage, settingsPage>>

(***************************************************************************)
(* The settings page.                                                      *)
(***************************************************************************)

(* showSettingsTab: a key that is no panel stands for the first one.       *)
PanelOf(key) == IF key \in Panel THEN key ELSE FirstPanel

ShowSettingsTab(key) == shown' = {PanelOf(key)} /\ selected' = {PanelOf(key)}

(* DOMContentLoaded: app.js is deferred, so its listeners are there.       *)
DocumentLoaded ==
    /\ page = "settings" /\ ~loaded
    /\ loaded' = TRUE
    /\ ShowSettingsTab(hash)
    /\ UNCHANGED <<page, window, hash, hashChanged, searchPage, watchPage>>

(* Mutant: the panel is shown, and not remembered in the URL.              *)
BugNotRemembered(key) ==
    /\ page = "settings" /\ loaded
    /\ ShowSettingsTab(key)
    /\ ClosesDropdowns({})
    /\ UNCHANGED <<page, modal, modalAsked, hash, hashChanged, loaded, searchPage, watchPage>>

(* history.replaceState changes the URL and fires no hashchange.           *)
ClicksSettingsTab(key) ==
    /\ page = "settings" /\ loaded
    /\ hash' = key
    /\ ShowSettingsTab(key)
    /\ ClosesDropdowns({})
    /\ UNCHANGED <<page, modal, modalAsked, hashChanged, loaded, searchPage, watchPage>>

(* The user edits the URL, or follows a link to a fragment of this page.   *)
HashEdited ==
    /\ page = "settings" /\ loaded
    /\ hash' \in (Panel \cup {OtherHash}) \ {hash}
    /\ hashChanged' = TRUE
    /\ UNCHANGED <<page, window, loaded, shown, selected, searchPage, watchPage>>

HashChange ==
    /\ hashChanged
    /\ hashChanged' = FALSE
    /\ ShowSettingsTab(hash)
    /\ UNCHANGED <<page, window, hash, loaded, searchPage, watchPage>>

Next ==
    \/ Navigates \/ Reloads
    \/ \E d \in Dropdown : ClicksSummary(d)
    \/ ClicksNothing \/ ClicksCard \/ ModalAnswered \/ ClosesModal
    \/ \E f \in Filter : EditsFilter(f) \/ ClicksChip(f)
    \/ Searches \/ FormAnswered \/ FormFails \/ Sorts \/ SortAnswered
    \/ \E t \in Tab : ClicksTab(t)
    \/ ClicksForm \/ BodySwapped \/ Polls \/ HistorySwapped
    \/ \E key \in Panel : ClicksSettingsTab(key)
    \/ DocumentLoaded \/ HashEdited \/ HashChange

Spec == Init /\ [][Next]_vars

(***************************************************************************)
(* Properties.                                                             *)
(***************************************************************************)

(* Types, and what a page cannot hold when another one is open.            *)
TypeOK ==
    /\ page \in Page
    /\ dropdowns \subseteq OnPage
    /\ Cardinality(dropdowns) <= 1   \* they overlay each other
    /\ modal \in BOOLEAN /\ modalAsked \in BOOLEAN
    /\ byQuery \in BOOLEAN /\ rows \in BOOLEAN /\ queued \in BOOLEAN
    /\ form \subseteq Filter /\ chips \subseteq Filter /\ owed \subseteq Filter
    /\ asked = None \/ asked \subseteq Filter
    /\ sortAsked \subseteq SUBSET Filter
    /\ queued => asked # None
    /\ ~rows => chips = {}
    /\ items \in Rendering /\ lit \subseteq Tab /\ hidden \subseteq items
    /\ clicked \in BOOLEAN /\ posting \in BOOLEAN /\ polling \in BOOLEAN
    /\ hash \in Panel \cup {OtherHash}
    /\ hashChanged \in BOOLEAN /\ loaded \in BOOLEAN
    /\ shown \subseteq Panel /\ selected \subseteq Panel

(* The highlighted tab says what is to be seen, also after polls and late  *)
(* answers; until a first click the rendering shows everything.            *)
TabHonest ==
    page = "surveillance" /\ clicked =>
        \E t \in Tab : lit = {t} /\ items \ hidden = {k \in items : TabShows(t, k)}

(* One settings panel is shown, under its own tab, and it is the one the   *)
(* URL names, so that a reload or a link brings it back: in whatever order *)
(* clicks, edits of the URL and hashchange events come.                    *)
HashNamesPanel ==
    page = "settings" /\ loaded /\ ~hashChanged =>
        shown = {PanelOf(hash)} /\ selected = shown

(* A chip that is clicked goes: once no search of the form is under way,  *)
(* no chip is left that was clicked and not searched without, also when a  *)
(* search was under way at the click. On pages not opened by their query.  *)
ChipsHeard == ~byQuery /\ asked = None => owed = {}

(* The same for every page, as the comment of clearFilter has it.          *)
ChipsAlwaysHeard == asked = None => owed = {}
=============================================================================
