------------------------------ MODULE Navigation ------------------------------
(***************************************************************************)
(* The browser client's navigation: the pure reducer, the hook that turns   *)
(* user intents into transitions and history entries, and the effect that   *)
(* feeds the URL back into the reducer.                                     *)
(*                                                                          *)
(* The router commits a new location in a transition: between navigate()    *)
(* and the effect that applies the route, handlers run against the route    *)
(* that was rendered last (shown).                                          *)
(***************************************************************************)
EXTENDS Integers, Sequences, SequencesExt, FiniteSets

CONSTANTS
  Sessions,       \* session ids
  Parent,         \* Parent[s]: the session that spawned s, or None
  Lists,          \* session lists the server may answer with, as sequences
  Transcript,     \* Transcript[s]: the messages of s, in order
  Tags,           \* tag names
  Queries,        \* search texts
  Sections,       \* sections of the sidebar
  Entrances,      \* routes the application may be opened with
  MaxIntents,     \* bound: user intents in a behaviour
  None

Least(x, y) == IF x < y THEN x ELSE y

Messages == UNION {ToSet(Transcript[s]) : s \in Sessions}
Indices == 1..4          \* raw positions in a transcript, from 1
Tabs == {"session", "plan", "scratch"}

ASSUME NavigationAssumption ==
  /\ None \notin Sessions \cup Messages \cup Tags \cup Queries \cup Indices
  /\ Parent \in [Sessions -> Sessions \cup {None}]
  /\ Lists \subseteq Seq(Sessions)
  /\ DOMAIN Transcript = Sessions
  /\ {"sessions", "bookmarks", "tags"} \subseteq Sections
  /\ MaxIntents \in Nat

VARIABLES
  nav,        \* the reducer's state
  entries,    \* the browser's history, a sequence of routes
  at,         \* the current history entry
  shown,      \* the route of the last render: useLocation, pathKey
  pending,    \* a location is committed to history and not yet rendered
  applied,    \* appliedRef
  sessions,   \* the session list of useSessions
  intents     \* user intents so far

navVars == <<nav, entries, at, shown, pending, applied, sessions, intents>>

-----------------------------------------------------------------------------
(* Routes.                                                                  *)

\* A route is a path, the session it names, the section (from the query or, for
\* a bare section path, the path) and the query of the search route.
Route(path, id, section, q) == [path |-> path, id |-> id, section |-> section, q |-> q]
Routes == [path: {"home", "sessions", "search", "section", "session", "unknown"},
           id: Sessions \cup {None}, section: Sections, q: Queries \cup {None}]

HOME_ROUTE == Route("home", None, "sessions", None)
sessionRoute(id) == Route("session", id, "sessions", None)
sessionRouteWithSection(id, section) == Route("session", id, section, None)
sectionRoute(section) ==
  IF section = "sessions" THEN Route("sessions", None, section, None)
                          ELSE Route("section", None, section, None)

pathToRoute(r) ==
  [sessionId |-> IF r.path = "session" THEN r.id ELSE None,
   showOverview |-> r.path # "session",
   section |-> r.section]

-----------------------------------------------------------------------------
(* The reducer.                                                             *)

initialNavigationState ==
  [activeSessionId |-> None, showOverview |-> TRUE, activeSection |-> "sessions",
   activeTab |-> "session", focusPosition |-> None, focusMessageIndex |-> None,
   focusMessageId |-> None, focusMessageKey |-> 0, searchHighlightQuery |-> None,
   filterTag |-> None]

\* What a notification's payload, a bookmark or a search hit names: a position
\* (with the raw id of an old payload), a raw index, or nothing.
Target(position, index, id) == [position |-> position, messageIndex |-> index, messageId |-> id]
NoTarget == Target(None, None, None)
parseMessageTarget(kind, m, i) ==
  CASE kind = "position" -> Target(m, None, None)
    [] kind = "legacy"   -> Target(m, None, m)
    [] kind = "index"    -> Target(None, i, None)
    [] OTHER             -> NoTarget

\* A position wins over the raw index and the raw id.
jumpFields(n, t) ==
  [n EXCEPT !.focusPosition = t.position,
            !.focusMessageIndex = IF t.position # None THEN None ELSE t.messageIndex,
            !.focusMessageKey = @ + 1,
            !.focusMessageId = IF t.position # None THEN None ELSE t.messageId]

ClearFocus(n) ==
  [n EXCEPT !.focusPosition = None, !.focusMessageIndex = None,
            !.focusMessageId = None, !.focusMessageKey = 0]

SessionSelect(n, id) ==
  [ClearFocus(n) EXCEPT !.activeSessionId = id, !.showOverview = FALSE,
                        !.activeTab = "session", !.searchHighlightQuery = None]

GoHome(n) ==
  [ClearFocus(n) EXCEPT !.activeSessionId = None, !.showOverview = TRUE,
                        !.activeTab = "session", !.searchHighlightQuery = None]

Open(n, id, tab) ==
  [n EXCEPT !.showOverview = FALSE, !.activeSessionId = id, !.activeTab = tab]

\* m is the bookmark's message, None for a bookmark without one.
BookmarkSelect(n, id, kind, m) ==
  LET focused == IF kind = "plan" THEN n
                 ELSE IF m # None THEN jumpFields(n, Target(m, None, None))
                 ELSE [n EXCEPT !.focusPosition = None, !.focusMessageKey = 0]
  IN  [Open(focused, id, IF kind = "plan" THEN "plan" ELSE "session")
         EXCEPT !.searchHighlightQuery = None]

NotificationSelect(n, id, t) ==
  LET focused == IF t.position # None \/ t.messageIndex # None THEN jumpFields(n, t)
                 ELSE [n EXCEPT !.focusPosition = None, !.focusMessageKey = 0]
  IN  [Open(focused, id, "session") EXCEPT !.activeSection = "sessions",
                                           !.searchHighlightQuery = None]

DiffNavToMessage(n, i, m) ==
  [jumpFields(n, IF m # None THEN Target(m, None, None) ELSE Target(None, i, None))
     EXCEPT !.activeTab = "session"]

\* Mutant of SearchHitSelect: the position of an earlier jump is not reset.
SearchHitSelect_KeepsPosition(n, id, tab, q, i) ==
  [Open(n, id, tab) EXCEPT !.searchHighlightQuery = q,
                           !.focusMessageIndex = i, !.focusMessageKey = @ + 1]

SearchHitSelect(n, id, tab, q, i) ==
  [Open(n, id, tab) EXCEPT !.searchHighlightQuery = q, !.focusPosition = None,
                           !.focusMessageIndex = i, !.focusMessageKey = @ + 1]

\* The session one step from prevId in the list, prevId itself at the ends.
nextSessionId(list, prevId, delta) ==
  LET n == Len(list)
      idx == IF prevId = None THEN IF delta = 1 THEN 0 ELSE n + 1
             ELSE IF \E k \in 1..n : list[k] = prevId
                  THEN CHOOSE k \in 1..n : list[k] = prevId /\ \A j \in 1..(k - 1) : list[j] # prevId
                  ELSE 0
      stay == IF prevId # None THEN prevId ELSE IF n > 0 THEN list[1] ELSE None
  IN  IF delta = 1 THEN IF idx < n THEN list[idx + 1] ELSE stay
                   ELSE IF idx > 1 THEN list[idx - 1] ELSE stay

NavSessionDelta(n, list, anchor, delta) ==
  [n EXCEPT !.activeSessionId =
              nextSessionId(list, IF anchor # None THEN anchor ELSE @, delta),
            !.showOverview = FALSE, !.searchHighlightQuery = None]

\* What the route effect dispatches: SET_SECTION, SET_OVERVIEW, HYDRATE_*.
Hydrate(n, r) ==
  LET route == pathToRoute(r)
  IN  [n EXCEPT !.activeSection = route.section,
                !.activeSessionId = route.sessionId,
                !.showOverview = (route.sessionId = None)]

-----------------------------------------------------------------------------
(* Families.                                                                *)

MAX_FAMILY_DEPTH == 64

\* The ways up from id: each session the listed parent of the one before, none twice.
chains(list, id) ==
  {c \in UNION {[1..n -> ToSet(list)] : n \in 1..Least(Cardinality(ToSet(list)), MAX_FAMILY_DEPTH + 1)} :
     /\ c[1] = id
     /\ IsInjective(c)
     /\ \A k \in 1..(Len(c) - 1) : c[k + 1] = Parent[c[k]]}

longest(list, id) == {c \in chains(list, id) : \A d \in chains(list, id) : Len(d) <= Len(c)}

\* The root of id's family among the listed sessions, the end of the longest way up;
\* id itself when it is not listed.
resolveFamilyRoot(list, id) ==
  IF longest(list, id) = {} THEN id ELSE Last(CHOOSE c \in longest(list, id) : TRUE)

rootSessions(list) == SelectSeq(list, LAMBDA s : Parent[s] = None)

-----------------------------------------------------------------------------
(* The router and the hook.                                                 *)

Location == entries[at]

\* Mutant of navigateTo: a route to the session that is shown is not pushed.
navigateTo_SameSession(r) ==
  IF applied /\ r.id = shown.id
  THEN UNCHANGED <<entries, at, pending>>
  ELSE /\ entries' = Append(SubSeq(entries, 1, at), r)
       /\ at' = at + 1
       /\ pending' = TRUE

\* Push r, unless it is the route that was rendered last.
navigateTo(r) ==
  IF applied /\ r = shown
  THEN UNCHANGED <<entries, at, pending>>
  ELSE /\ entries' = Append(SubSeq(entries, 1, at), r)
       /\ at' = at + 1
       /\ pending' = TRUE

Intent == intents < MaxIntents /\ intents' = intents + 1
NoNavigation == UNCHANGED <<entries, at, pending>>
StaysRendered == UNCHANGED <<shown, applied, sessions>>

\* Mutant of stale: the list need not be there.
stale_WhileLoading(r, list) == r.path = "session" /\ r.id \notin ToSet(list)

\* An id the list does not have falls back to the overview (replace).
stale(r, list) == r.path = "session" /\ list # <<>> /\ r.id \notin ToSet(list)

\* The location is rendered: the route effect applies it, and the second effect
\* replaces an entry that names an unlisted session.
ApplyRoute ==
  /\ pending
  /\ shown' = Location
  /\ nav' = Hydrate(nav, Location)
  /\ applied' = TRUE
  /\ pending' = stale(Location, sessions)
  /\ entries' = IF stale(Location, sessions) THEN [entries EXCEPT ![at] = HOME_ROUTE] ELSE entries
  /\ UNCHANGED <<at, sessions, intents>>

\* A new session list; the second effect looks at the rendered route again.
SessionsArrive ==
  \E list \in Lists :
    /\ list # sessions
    /\ sessions' = list
    /\ IF applied /\ stale(shown, list)
       THEN entries' = [entries EXCEPT ![at] = HOME_ROUTE] /\ pending' = TRUE
       ELSE UNCHANGED <<entries, pending>>
    /\ UNCHANGED <<nav, at, shown, applied, intents>>

\* Back and Forward, once the last navigation has been rendered.
Traverse ==
  /\ Intent
  /\ ~pending
  /\ \E k \in {at - 1, at + 1} \cap DOMAIN entries : at' = k
  /\ pending' = TRUE
  /\ UNCHANGED <<nav, entries, shown, applied, sessions>>

\* id with the message its first unread notification points to, if it has any.
handleSessionSelect(id, unread, t) ==
  /\ nav' = LET n == SessionSelect(nav, id) IN IF unread THEN jumpFields(n, t) ELSE n
  /\ navigateTo(sessionRouteWithSection(id, nav.activeSection))

handleBookmarkSelect(id, kind, m) ==
  /\ nav' = BookmarkSelect(nav, id, kind, m)
  /\ navigateTo(sessionRouteWithSection(id, "bookmarks"))

handleNotificationClick(id, t) ==
  /\ nav' = NotificationSelect(nav, id, t)
  /\ navigateTo(sessionRoute(id))

handleDiffNavigateToMessage(i, m) ==
  /\ nav' = DiffNavToMessage(nav, i, m)
  /\ NoNavigation

selectSearchHit(id, tab, q, i) ==
  /\ nav' = SearchHitSelect(nav, id, tab, q, i)
  /\ navigateTo(sessionRoute(id))

\* Switching the section keeps an open session open.
setSection(section) ==
  /\ nav' = [nav EXCEPT !.activeSection = section]
  /\ navigateTo(IF nav.activeSessionId # None /\ ~nav.showOverview
                THEN sessionRouteWithSection(nav.activeSessionId, section)
                ELSE sectionRoute(section))

goHome == nav' = GoHome(nav) /\ navigateTo(HOME_ROUTE)

openTag(name) ==
  /\ nav' = [nav EXCEPT !.filterTag = name, !.activeSection = "tags"]
  /\ navigateTo(sectionRoute("tags"))

\* j and k, as the keyboard hook calls them: the highlight is cleared and the
\* overview is left before the step along the roots.
navigateSession(delta) ==
  LET roots == rootSessions(sessions)
      anchor == resolveFamilyRoot(sessions, nav.activeSessionId)
      next == nextSessionId(roots, anchor, delta)
      left == [nav EXCEPT !.searchHighlightQuery = None, !.focusPosition = None,
                          !.showOverview = FALSE]
  IN  /\ nav' = NavSessionDelta(left, roots, anchor, delta)
      /\ navigateTo(IF next = None THEN HOME_ROUTE ELSE sessionRoute(next))


-----------------------------------------------------------------------------
(* The view's part: what a jump resolves to in the open session.            *)

resolveJump(n) ==
  LET msgs == IF n.activeSessionId = None THEN <<>> ELSE Transcript[n.activeSessionId]
  IN  IF n.focusMessageKey = 0 THEN None
      ELSE IF n.focusPosition # None /\ n.focusPosition \in ToSet(msgs) THEN n.focusPosition
      ELSE IF n.focusMessageId # None /\ n.focusMessageId \in ToSet(msgs) THEN n.focusMessageId
      ELSE IF n.focusMessageIndex # None /\ n.focusMessageIndex <= Len(msgs)
           THEN msgs[n.focusMessageIndex] ELSE None

SessionOpen == nav.activeSessionId \in ToSet(sessions) /\ ~nav.showOverview

\* A jump that cannot be resolved in a loaded transcript is dropped.
DropDeadJump ==
  /\ SessionOpen
  /\ nav.focusMessageKey # 0
  /\ Transcript[nav.activeSessionId] # <<>>
  /\ resolveJump(nav) = None
  /\ nav' = ClearFocus(nav)
  /\ NoNavigation /\ StaysRendered
  /\ UNCHANGED intents

\* Moving the timeline, or isolating a turn, releases the jump.
ReleaseJumpFocus ==
  /\ Intent
  /\ SessionOpen
  /\ nav.focusMessageKey # 0
  /\ nav' = ClearFocus(nav)
  /\ NoNavigation /\ StaysRendered
===============================================================================
