------------------------------- MODULE AppShell -------------------------------
(***************************************************************************)
(* The application shell: App.tsx with the header, the sidebar, the search   *)
(* panel, the search drawer, the keyboard, the dialogs and the pin of a      *)
(* message, on top of the navigation it composes.                            *)
(***************************************************************************)
EXTENDS Navigation, Arrays

CONSTANTS
  Found,          \* Found[q]: the server's hits for q, best first
  MaxSearches,    \* MAX_SEARCHES
  MaxCalls        \* bound: searches of the panel under way

Kinds == {"tag", "name", "plan", "message", "messages", "scratch"}
Hits == [session: Sessions, kind: Kinds, index: Indices \cup {None}, tag: Tags \cup {None}]

ASSUME ShellAssumption ==
  /\ Found \in [Queries -> Seq(Hits)]
  /\ MaxSearches \in Nat \ {0} /\ MaxCalls \in Nat
  /\ Entrances \subseteq Routes

VARIABLES
  searchOpen, searchInput, searchScope,  \* App: the panel, its text, the scope
  panel,        \* SearchPanel: the search its results are from, the selection
  debounced,    \* the text doSearch is scheduled with, and whether it is scheduled
  calls,        \* searches of the panel under way
  drawer,       \* useSearchState: open, query, the search its results are from
  selected,     \* SearchResultsDrawer: selectedIndex
  inflight,     \* the drawer's search under way; the ones before are aborted
  recents,      \* useRecentSearches
  linkDue,      \* the search link effect has new dependencies
  sidebarOpen, dialog,     \* the sidebar, and the open dialog
  pinned,       \* pinnedScratchId, by the session the file was made in
  pinCalls      \* pins under way, by session

panelVars == <<panel, debounced, calls>>
drawerVars == <<drawer, selected, inflight>>
searchVars == <<searchOpen, searchInput, searchScope, recents, linkDue>>
pinVars == <<pinned, pinCalls>>
frameVars == <<sidebarOpen, dialog>>
vars == <<navVars, panelVars, drawerVars, searchVars, pinVars, frameVars>>

Text == Queries \cup {None}                    \* None is the empty text
Dialogs == {"none", "settings", "shortcuts", "pin"}

-----------------------------------------------------------------------------
(* Search results.                                                          *)

hitsOf(search) ==
  IF search = None THEN <<>>
  ELSE Where(Found[search.q], LAMBDA h : search.scope \in {None, h.session})

\* The results in the order the sections show them.
groupSearchSections(hits) ==
  LET of(kinds) == Where(hits, LAMBDA h : h.kind \in kinds)
  IN  of({"tag"}) \o of({"name"}) \o of({"plan"}) \o of({"message", "messages"}) \o of({"scratch"})

tabOf(hit) ==
  CASE hit.kind = "scratch" -> "scratch" [] hit.kind = "plan" -> "plan" [] OTHER -> "session"

IsLink(r) == r.path = "search" /\ r.q # None

\* addSearch and clearSearches give useRecentSearches a new array, and so the
\* effect that opens the drawer for a search link a new handler.
setSearches(list) == recents' = list /\ linkDue' = IsLink(shown)
withSearch(q) ==
  LET list == <<q>> \o Where(recents, LAMBDA s : s # q)
  IN  SubSeq(list, 1, IF Len(list) < MaxSearches THEN Len(list) ELSE MaxSearches)

setScope(scope) ==
  /\ searchScope' = scope
  /\ linkDue' = IF scope # searchScope THEN IsLink(shown) ELSE linkDue

\* A new search of the drawer aborts the one before.
runSearch(q, scope) == inflight' = [q |-> q, scope |-> scope]

-----------------------------------------------------------------------------
(* Opening things.                                                          *)

EmptyPanel == [of |-> None, selectedIndex |-> 1, userNavigated |-> FALSE]
NoText == [due |-> FALSE, text |-> None]
ClosedDrawer == [drawer EXCEPT !.open = FALSE, !.of = None]

\* The pin focus does not follow the user into another session.
ForgetPin == pinned' = IF nav'.activeSessionId # nav.activeSessionId THEN None ELSE pinned

\* The panel is unmounted: its timer and its answers have no effect any more.
UnmountPanel == panel' = EmptyPanel /\ debounced' = NoText /\ calls' = {}
ClosePanel == searchOpen' = FALSE /\ UnmountPanel

Only(these) == UNCHANGED these /\ ForgetPin /\ UNCHANGED pinCalls

handleSearchOpenDrawer(q) ==
  /\ setSearches(withSearch(q))
  /\ runSearch(q, searchScope)
  /\ UNCHANGED <<drawer, selected, searchScope>>

\* A hit is opened from the panel or from the drawer, which it closes.
handleSearchSelect(hit, q) ==
  /\ IF q # None THEN setSearches(withSearch(q)) ELSE UNCHANGED <<recents, linkDue>>
  /\ IF hit.kind = "tag"
     THEN openTag(hit.tag) /\ sidebarOpen' = TRUE
     ELSE selectSearchHit(hit.session, tabOf(hit), q, hit.index) /\ UNCHANGED sidebarOpen
  /\ drawer' = [drawer EXCEPT !.open = FALSE]
  /\ UNCHANGED <<selected, inflight>>

\* The panel searches on mount, after the debounce, and for a recent search.
doSearch(q, scope) ==
  /\ Cardinality(calls) < MaxCalls
  /\ calls' = calls \cup {[q |-> q, scope |-> scope]}

OpenPanel(text, scope) ==
  /\ searchOpen' = TRUE
  /\ searchInput' = text
  /\ panel' = EmptyPanel /\ debounced' = NoText
  /\ IF text # None THEN calls' = {[q |-> text, scope |-> scope]} ELSE calls' = {}
  /\ setScope(scope)
  /\ UNCHANGED recents

-----------------------------------------------------------------------------
(* The panel.                                                               *)

PanelItems ==
  IF searchInput = None /\ recents # <<>> THEN Len(recents) ELSE Len(hitsOf(panel.of))
showRecent == searchInput = None /\ recents # <<>>

PanelOnly == Intent /\ searchOpen /\ NoNavigation /\ StaysRendered
             /\ UNCHANGED <<nav, drawerVars, pinVars, frameVars>>

TypeInPanel(text) ==
  /\ PanelOnly
  /\ searchInput' = text
  /\ panel' = [panel EXCEPT !.selectedIndex = 1, !.userNavigated = FALSE]
  /\ debounced' = [due |-> TRUE, text |-> text]
  /\ UNCHANGED <<calls, searchOpen, searchScope, recents, linkDue>>

ClearPanel ==
  /\ PanelOnly
  /\ searchInput # None
  /\ searchInput' = None
  /\ panel' = [panel EXCEPT !.of = None]
  /\ UNCHANGED <<debounced, calls, searchOpen, searchScope, recents, linkDue>>

MoveInPanel(delta) ==
  /\ PanelOnly
  /\ LET i == panel.selectedIndex + delta IN
     panel' = [panel EXCEPT !.userNavigated = TRUE,
                 !.selectedIndex = IF delta = 1 THEN IF i < PanelItems THEN i ELSE PanelItems
                                   ELSE IF i > 1 THEN i ELSE 1]
  /\ UNCHANGED <<debounced, calls, searchVars>>

PickRecent(i) ==
  /\ PanelOnly
  /\ showRecent /\ i \in DOMAIN recents
  /\ searchInput' = recents[i]
  /\ panel' = [panel EXCEPT !.selectedIndex = 1, !.userNavigated = FALSE]
  /\ doSearch(recents[i], searchScope)
  /\ UNCHANGED <<debounced, searchOpen, searchScope, recents, linkDue>>

ClearRecents ==
  /\ PanelOnly
  /\ showRecent
  /\ setSearches(<<>>)
  /\ UNCHANGED <<panelVars, searchOpen, searchInput, searchScope>>

\* The scope badge: the scope goes, and the text is searched without it.
ClearScopeInPanel ==
  /\ PanelOnly
  /\ searchScope # None
  /\ setScope(None)
  /\ IF searchInput # None THEN doSearch(searchInput, None) /\ UNCHANGED panel
     ELSE panel' = [panel EXCEPT !.of = None] /\ UNCHANGED calls
  /\ UNCHANGED <<debounced, searchOpen, searchInput, recents>>

\* The debounce runs out; an empty text empties the results.
DebounceFires ==
  /\ debounced.due
  /\ debounced' = NoText
  /\ IF debounced.text = None THEN panel' = [panel EXCEPT !.of = None, !.userNavigated = FALSE] /\ UNCHANGED calls
     ELSE doSearch(debounced.text, searchScope) /\ UNCHANGED panel
  /\ UNCHANGED <<navVars, drawerVars, searchVars, pinVars, frameVars>>

\* Answers come in any order, and each replaces the results; a failure empties them.
PanelAnswer ==
  \E c \in calls, ok \in BOOLEAN :
    /\ calls' = calls \ {c}
    /\ panel' = [panel EXCEPT !.of = IF ok THEN c ELSE None, !.userNavigated = FALSE]
    /\ UNCHANGED <<navVars, debounced, drawerVars, searchVars, pinVars, frameVars>>

ClosesPanel == searchOpen /\ ClosePanel /\ UNCHANGED <<searchInput, searchScope>>

\* Enter: a recent search, the selected result, or the drawer for the text.
EnterInPanel ==
  LET hits == hitsOf(panel.of)
      i == panel.selectedIndex
      byUser == panel.userNavigated /\ i \in DOMAIN hits
  IN  /\ Intent
      /\ searchOpen /\ ~showRecent /\ hits # <<>>
      /\ ClosesPanel
      /\ IF byUser
         THEN handleSearchSelect(hits[i], searchInput)
         ELSE /\ IF searchInput # None THEN handleSearchOpenDrawer(searchInput)
                 ELSE UNCHANGED <<drawerVars, recents, linkDue>>
              /\ UNCHANGED <<nav, sidebarOpen>> /\ NoNavigation
      /\ StaysRendered
      /\ Only(dialog)

ClickInPanel ==
  \E i \in DOMAIN hitsOf(panel.of) :
    /\ Intent
    /\ searchOpen /\ ~showRecent
    /\ ClosesPanel
    /\ handleSearchSelect(groupSearchSections(hitsOf(panel.of))[i], searchInput)
    /\ StaysRendered
    /\ Only(dialog)

-----------------------------------------------------------------------------
(* The drawer.                                                              *)

DrawerOnly == NoNavigation /\ StaysRendered
              /\ UNCHANGED <<nav, panelVars, searchOpen, searchInput, pinVars, frameVars>>

\* Mutant of DrawerAnswer: the answer is shown under the query of now.
DrawerAnswer_QueryOfNow ==
  /\ inflight # None
  /\ \/ drawer' = [open |-> TRUE, query |-> drawer.query, of |-> inflight]
     \/ drawer' = [drawer EXCEPT !.of = None]
  /\ inflight' = None /\ selected' = 1
  /\ DrawerOnly /\ UNCHANGED <<searchScope, recents, linkDue, intents>>

DrawerAnswer ==
  /\ inflight # None
  /\ \/ drawer' = [open |-> TRUE, query |-> inflight.q, of |-> inflight]
     \/ drawer' = [drawer EXCEPT !.of = None]          \* the request failed
  /\ inflight' = None /\ selected' = 1
  /\ DrawerOnly /\ UNCHANGED <<searchScope, recents, linkDue, intents>>

CloseDrawer ==
  /\ Intent
  /\ drawer.open
  /\ drawer' = ClosedDrawer
  /\ selected' = 1
  /\ DrawerOnly /\ UNCHANGED <<inflight, searchScope, recents, linkDue>>

\* Mutant of MoveInDrawer: one too far at the end.
MoveInDrawer_OnePast(delta) ==
  /\ Intent
  /\ drawer.open
  /\ LET n == Len(groupSearchSections(hitsOf(drawer.of)))
         i == selected + delta
     IN selected' = IF delta = 1 THEN IF i <= n + 1 THEN i ELSE n ELSE IF i > 1 THEN i ELSE 1
  /\ DrawerOnly /\ UNCHANGED <<drawer, inflight, searchScope, recents, linkDue>>

MoveInDrawer(delta) ==
  /\ Intent
  /\ drawer.open
  /\ LET n == Len(groupSearchSections(hitsOf(drawer.of)))
         i == selected + delta
     IN selected' = IF delta = 1 THEN IF i < n THEN i ELSE n ELSE IF i > 1 THEN i ELSE 1
  /\ DrawerOnly /\ UNCHANGED <<drawer, inflight, searchScope, recents, linkDue>>

ClearScopeInDrawer ==
  /\ Intent
  /\ drawer.open /\ searchScope # None
  /\ setScope(None)
  /\ IF drawer.query # None THEN runSearch(drawer.query, None) ELSE UNCHANGED inflight
  /\ DrawerOnly /\ UNCHANGED <<drawer, selected, recents>>

\* Enter on the selected hit, or a click on any.
SelectInDrawer ==
  LET hits == groupSearchSections(hitsOf(drawer.of)) IN
  \E i \in DOMAIN hits :
    /\ Intent
    /\ drawer.open
    /\ handleSearchSelect(hits[i], drawer.query)
    /\ StaysRendered
    /\ UNCHANGED <<panelVars, searchOpen, searchInput, searchScope>>
    /\ Only(dialog)

\* The effect for #/search?q=...: it runs again whenever its handler is new.
SearchLinkEffect ==
  /\ linkDue
  /\ handleSearchOpenDrawer(shown.q)
  /\ DrawerOnly /\ UNCHANGED intents

-----------------------------------------------------------------------------
(* The frame: header, sidebar, dialogs and keyboard.                        *)

NotSearch == UNCHANGED <<panelVars, drawerVars, searchVars>>
Frame == NoNavigation /\ StaysRendered /\ UNCHANGED <<nav, pinVars>>

OpenSearch ==
  /\ Intent
  /\ ~searchOpen
  /\ OpenPanel(IF nav.searchHighlightQuery # None THEN nav.searchHighlightQuery ELSE searchInput,
               nav.activeSessionId)
  /\ Frame /\ UNCHANGED <<drawerVars, frameVars>>

\* The panel's backdrop.
DismissPanel ==
  /\ Intent
  /\ ClosesPanel
  /\ Frame /\ UNCHANGED <<drawerVars, recents, linkDue, frameVars>>

ToggleSidebar ==
  /\ Intent
  /\ sidebarOpen' = ~sidebarOpen
  /\ Frame /\ NotSearch /\ UNCHANGED dialog

\* The icon of the current section toggles the sidebar, another opens it.
PickSection(section) ==
  /\ Intent
  /\ IF section = nav.activeSection
     THEN sidebarOpen' = ~sidebarOpen /\ UNCHANGED nav /\ NoNavigation
     ELSE setSection(section) /\ sidebarOpen' = TRUE
  /\ StaysRendered /\ NotSearch /\ Only(dialog)

OpenDialog(d) ==
  /\ Intent
  /\ dialog = "none"
  /\ dialog' = d
  /\ Frame /\ NotSearch /\ UNCHANGED sidebarOpen

CloseDialog ==
  /\ Intent
  /\ dialog # "none"
  /\ dialog' = "none"
  /\ Frame /\ NotSearch /\ UNCHANGED sidebarOpen

\* Confirming a pin creates a scratch file in the session that is open now.
ConfirmPin ==
  /\ Intent
  /\ dialog = "pin" /\ nav.activeSessionId # None
  /\ pinCalls' = pinCalls \cup {nav.activeSessionId}
  /\ NoNavigation /\ StaysRendered /\ NotSearch
  /\ UNCHANGED <<nav, pinned, frameVars>>

\* The answer focuses the file and closes the dialog; a failure only closes it.
PinAnswer ==
  \E s \in pinCalls :
    /\ pinCalls' = pinCalls \ {s}
    /\ pinned' \in {s, pinned}
    /\ dialog' = IF dialog = "pin" THEN "none" ELSE dialog
    /\ NotSearch /\ UNCHANGED <<navVars, sidebarOpen>>

\* Ctrl-K.
ToggleSearchKey ==
  /\ Intent
  /\ drawer' = IF drawer.open THEN ClosedDrawer ELSE drawer
  /\ IF searchOpen THEN ClosePanel /\ UNCHANGED <<searchInput, searchScope, recents, linkDue>>
     ELSE OpenPanel(searchInput, nav.activeSessionId)
  /\ Frame /\ UNCHANGED <<selected, inflight, frameVars>>

\* Escape: the drawer, the panel, the highlight, the parent of a sub-agent. The
\* dialogs, the drawer and the panel's input have listeners of their own that
\* come first, and the handler on the window may see the state after those.
EscapeKey ==
  \E isInput \in BOOLEAN, rendered \in BOOLEAN :
    LET handled == rendered /\ (drawer.open \/ searchOpen)
        parent == IF nav.activeSessionId # None THEN Parent[nav.activeSessionId] ELSE None
    IN
    /\ Intent
    /\ dialog' = "none"
    /\ drawer' = IF drawer.open THEN ClosedDrawer ELSE drawer
    /\ IF searchOpen /\ (~drawer.open \/ isInput) THEN ClosePanel
       ELSE UNCHANGED <<searchOpen, panel, debounced, calls>>
    /\ IF (drawer.open \/ searchOpen) /\ ~handled
       THEN UNCHANGED nav /\ NoNavigation
       ELSE IF nav.searchHighlightQuery # None
       THEN /\ nav' = [nav EXCEPT !.searchHighlightQuery = None, !.focusPosition = None]
            /\ NoNavigation
       ELSE IF parent \in ToSet(sessions) /\ ~isInput /\ dialog = "none"
       THEN \E u \in BOOLEAN : handleSessionSelect(parent, u, NoTarget)
       ELSE UNCHANGED nav /\ NoNavigation
    /\ StaysRendered
    /\ UNCHANGED <<searchInput, searchScope, recents, linkDue, selected, inflight>>
    /\ Only(sidebarOpen)

\* Ctrl-1 and Ctrl-2.
TabKey(tab) ==
  /\ Intent
  /\ ~searchOpen /\ ~drawer.open
  /\ nav' = [nav EXCEPT !.activeTab = tab]
  /\ NoNavigation /\ StaysRendered /\ NotSearch
  /\ UNCHANGED <<pinVars, frameVars>>

\* j and k, with no panel or drawer open.
StepKey(delta) ==
  /\ Intent
  /\ ~searchOpen /\ ~drawer.open
  /\ navigateSession(delta)
  /\ StaysRendered /\ NotSearch
  /\ Only(frameVars)

-----------------------------------------------------------------------------
(* The intents that come from the panels and the view.                      *)

Payloads(s) ==
  {NoTarget} \cup {parseMessageTarget(k, m, 1) : k \in {"position", "legacy", "index"},
                                                 m \in ToSet(Transcript[s])}

Navigate ==
  /\ Intent
  /\ \/ \E s \in ToSet(sessions) : \/ handleSessionSelect(s, FALSE, NoTarget)
                                   \/ \E t \in Payloads(s) : handleSessionSelect(s, TRUE, t)
     \/ \E s \in ToSet(sessions), m \in {None} \cup Messages :
          /\ m \in {None} \cup ToSet(Transcript[s])
          /\ \E k \in {"message", "plan"} : handleBookmarkSelect(s, k, m)
     \/ \E s \in ToSet(sessions), t \in UNION {Payloads(x) : x \in Sessions} :
          t \in Payloads(s) /\ handleNotificationClick(s, t)
     \/ nav.activeSessionId # None /\ \E i \in Indices, m \in {None} \cup Messages :
          handleDiffNavigateToMessage(i, m)
     \/ goHome
  /\ StaysRendered /\ NotSearch
  /\ Only(frameVars)

OpenTagFromPanel ==
  \E name \in Tags :
    /\ Intent
    /\ openTag(name)
    /\ sidebarOpen' = TRUE
    /\ StaysRendered /\ NotSearch
    /\ Only(dialog)

\* The tag filter and the search highlight are cleared in place.
ClearInPlace ==
  /\ Intent
  /\ \/ nav.filterTag # None /\ nav' = [nav EXCEPT !.filterTag = None]
     \/ nav.searchHighlightQuery # None
        /\ nav' = [nav EXCEPT !.searchHighlightQuery = None, !.focusPosition = None]
  /\ NoNavigation /\ StaysRendered /\ NotSearch /\ UNCHANGED <<pinVars, frameVars>>

RouteIsRendered ==
  /\ ApplyRoute
  /\ linkDue' = IF shown' # shown THEN IsLink(shown') ELSE linkDue
  /\ UNCHANGED <<panelVars, drawerVars, searchOpen, searchInput, searchScope, recents>>
  /\ Only(frameVars)

RecentsArrive ==
  /\ recents = <<>> /\ \E q \in Queries : setSearches(<<q>>)
  /\ Intent
  /\ UNCHANGED <<nav, panelVars, drawerVars, searchOpen, searchInput, searchScope,
                 pinVars, frameVars>>
  /\ NoNavigation /\ StaysRendered

Beside(A) == A /\ NotSearch /\ UNCHANGED <<pinVars, frameVars>>

-----------------------------------------------------------------------------

Init ==
  /\ nav = initialNavigationState
  /\ entries \in {<<r>> : r \in Entrances} /\ at = 1
  /\ shown = entries[1] /\ pending = TRUE /\ applied = FALSE
  /\ sessions = <<>> /\ intents = 0
  /\ searchOpen = FALSE /\ searchInput = None /\ searchScope = None
  /\ panel = EmptyPanel /\ debounced = NoText /\ calls = {}
  /\ drawer = [open |-> FALSE, query |-> None, of |-> None] /\ selected = 1 /\ inflight = None
  /\ recents = <<>> /\ linkDue = IsLink(entries[1])
  /\ sidebarOpen = TRUE /\ dialog = "none" /\ pinned = None /\ pinCalls = {}

Effects == RouteIsRendered \/ SearchLinkEffect \/ Beside(DropDeadJump)

PanelActs ==
  \/ \E t \in Text : TypeInPanel(t)
  \/ ClearPanel \/ \E d \in {1, -1} : MoveInPanel(d)
  \/ \E i \in 1..MaxSearches : PickRecent(i)
  \/ ClearRecents \/ ClearScopeInPanel \/ EnterInPanel \/ ClickInPanel \/ DismissPanel

DrawerActs ==
  \/ CloseDrawer \/ \E d \in {1, -1} : MoveInDrawer(d)
  \/ ClearScopeInDrawer \/ SelectInDrawer

FrameActs ==
  \/ OpenSearch \/ ToggleSidebar \/ \E s \in Sections : PickSection(s)
  \/ \E d \in Dialogs \ {"none"} : OpenDialog(d)
  \/ CloseDialog \/ ConfirmPin \/ ToggleSearchKey \/ EscapeKey
  \/ \E t \in {"session", "plan"} : TabKey(t)
  \/ \E d \in {1, -1} : StepKey(d)

Next ==
  \/ Effects \/ DebounceFires \/ PanelAnswer \/ DrawerAnswer \/ PinAnswer
  \/ Beside(SessionsArrive) \/ RecentsArrive
  \/ PanelActs \/ DrawerActs \/ FrameActs
  \/ Navigate \/ OpenTagFromPanel \/ ClearInPlace
  \/ Beside(Traverse) \/ Beside(ReleaseJumpFocus)

\* React runs the effects of what it rendered, timers fire, requests are answered.
Fairness ==
  /\ WF_vars(RouteIsRendered) /\ WF_vars(SearchLinkEffect) /\ WF_vars(DrawerAnswer)
  /\ WF_vars(DebounceFires) /\ WF_vars(PanelAnswer) /\ WF_vars(PinAnswer)

Spec == Init /\ [][Next]_vars /\ Fairness
-----------------------------------------------------------------------------
(* Properties                                                               *)

\* Once the location is rendered, the reducer and the URL name the same session
\* and section, whatever order clicks, Back, Forward and lists came in
\* (useRouteSync: the URL is the source of truth, useNavigation pushes it).
RouteAgreement ==
  applied /\ ~pending =>
    /\ nav.activeSessionId = pathToRoute(shown).sessionId
    /\ nav.activeSection = pathToRoute(shown).section

\* A position that outlives its message must not be rescued by a raw index or id
\* of another transcript: while a position is the target, it is the only one.
FocusIsSingle ==
  nav.focusPosition # None => nav.focusMessageIndex = None /\ nav.focusMessageId = None

\* The address changes without an intent of the user only to leave a session
\* that a loaded list does not have: a deep link survives the loading.
LeavesDeadLink(r) == r.path = "session" /\ r.id \notin ToSet(sessions')
OnlyDeadLinksAreReplaced ==
  [][Location' # Location /\ intents' = intents
       => sessions' # <<>> /\ (LeavesDeadLink(Location) \/ LeavesDeadLink(shown))]_vars

\* The drawer never shows the results of one text under the title of another,
\* whichever searches were aborted, failed or were repeated without the scope.
ResultsMatchQuery == drawer.of # None => drawer.of.q = drawer.query

\* Enter in the drawer has a highlighted hit to open whenever there are hits,
\* whatever arrows were pressed before the results changed under the selection.
SelectionIsShown ==
  drawer.open /\ hitsOf(drawer.of) # <<>>
    => selected \in DOMAIN groupSearchSections(hitsOf(drawer.of))

-----------------------------------------------------------------------------
(* Why they hold.                                                           *)

\* The reducer keeps its fields, and the lists are lists of sessions, so that a
\* family has a root; navigateTo skips a route only when it is the one on the screen,
\* which agrees with what the reducer does not change.
NavShape == DOMAIN nav = DOMAIN initialNavigationState /\ sessions \in Seq(Sessions)
NavInv == NavShape /\ FocusIsSingle /\ RouteAgreement

\* Only an answer brings results, together with its text.
DrawerInv == DOMAIN drawer = {"open", "query", "of"} /\ ResultsMatchQuery

\* The texts a route, the panel or the drawer hands to a search are texts one can
\* search for, and the link effect runs for a search link: so what is searched has
\* hits, and an answer brings a selection with it.
HistoryInv ==
  /\ entries \in Seq(ToSet(entries)) /\ at \in DOMAIN entries
  /\ \A route \in ToSet(entries) \cup {shown} : route.q \in Text
TextInv ==
  /\ {searchInput, drawer.query, nav.searchHighlightQuery} \subseteq Text
  /\ recents \in Seq(Queries)
  /\ linkDue => IsLink(shown)
  /\ \A search \in {drawer.of, inflight} \ {None} : search.q \in Queries
SearchInv == HistoryInv /\ TextInv /\ SelectionIsShown

ShellInv == NavInv /\ DrawerInv /\ SearchInv
=============================================================================
