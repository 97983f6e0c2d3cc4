------------------------------- MODULE SessionRow -------------------------------
(***************************************************************************)
(* The layout of the open session (CinematicSessionView, useResizable,         *)
(* useElementWidth): the activity drawer that the user collapses and a narrow   *)
(* row collapses too, the console, the drawer's tab, a pane that is dragged,    *)
(* and the terminal that takes the row's place.  Widths are numbers: 2 to 4 is  *)
(* what a pane may have, 3 its default.                                         *)
(***************************************************************************)
EXTENDS Requests

VARIABLES
  wide,               \* the row has room for the drawer
  rowWidth,           \* what was measured last: "wide", "narrow" or None
  wasNarrow,          \* wasNarrowRef
  observed,           \* the observer's node is the row that is shown
  terminalOpen,
  drawerCollapsedPref, autoCollapsed, autoCollapseOverride,
  consoleCollapsed, activityTab,
  value, drag,        \* useResizable: the width, and the width at mousedown or None
  navTab,             \* activeTab: "session", "plan" or "scratch"
  stored              \* localStorage

rowVars == <<wide, rowWidth, wasNarrow, observed, terminalOpen, drawerCollapsedPref, autoCollapsed,
             autoCollapseOverride, consoleCollapsed, activityTab, value, drag, navTab, stored>>
measured == <<rowWidth, wasNarrow, observed>>
drawer == <<drawerCollapsedPref, autoCollapsed, autoCollapseOverride>>
panes == <<consoleCollapsed, value, drag>>
requestRest == UNCHANGED <<calls, faults, missed>>

Widths == 1..5

Clamp(n) == IF n < 2 THEN 2 ELSE IF n > 4 THEN 4 ELSE n

drawerCollapsed == drawerCollapsedPref \/ (autoCollapsed /\ ~autoCollapseOverride)

\* expandDrawer, and what it stores.
expandDrawer(tab, store) ==
  /\ drawerCollapsedPref' = FALSE /\ autoCollapseOverride' = TRUE /\ activityTab' = tab
  /\ stored' = [store EXCEPT !.drawer = FALSE, !.tab = tab]
  /\ UNCHANGED autoCollapsed

\* The routing effect shows a tab and opens the drawer; at mount only when the
\* view is mounted for a plan or a jump.
Mounted(store, tab, jump) ==
  /\ navTab' = tab /\ consoleCollapsed' = store.console /\ value' = store.width /\ drag' = None
  /\ autoCollapsed' = FALSE
  /\ IF tab = "plan" \/ (jump /\ tab = "session")
     THEN LET shown == IF tab = "plan" THEN "plan" ELSE "activity" IN
          /\ drawerCollapsedPref' = FALSE /\ autoCollapseOverride' = TRUE /\ activityTab' = shown
          /\ stored' = [store EXCEPT !.drawer = FALSE, !.tab = shown]
     ELSE /\ drawerCollapsedPref' = store.drawer /\ autoCollapseOverride' = FALSE
          /\ activityTab' = store.tab /\ stored' = store

RowInit ==
  /\ wide \in BOOLEAN /\ rowWidth = None /\ wasNarrow = FALSE /\ observed = TRUE
  /\ terminalOpen = FALSE /\ drawerCollapsedPref = FALSE /\ autoCollapsed = FALSE
  /\ autoCollapseOverride = FALSE /\ consoleCollapsed = FALSE /\ activityTab = "activity"
  /\ value = 3 /\ drag = None /\ navTab = "session"
  /\ stored = [drawer |-> FALSE, console |-> FALSE, tab |-> "activity", width |-> 3]

-----------------------------------------------------------------------------
(* The width of the row.                                                    *)

\* A node that left the page is 0 wide, and the one that replaces it is not observed.
Seen == IF observed /\ wide THEN "wide" ELSE "narrow"

\* Only a fresh narrow episode clears the override.
override(narrow) == IF narrow /\ wasNarrow THEN autoCollapseOverride ELSE FALSE

\* useElementWidth's first measure and its observer, and the effect on rowWidth.
Observe ==
  /\ rowWidth # Seen /\ rowWidth' = Seen
  /\ wasNarrow' = (Seen = "narrow") /\ autoCollapsed' = (Seen = "narrow")
  /\ autoCollapseOverride' = override(Seen = "narrow")
  /\ requestRest
  /\ UNCHANGED <<acts, wide, observed, terminalOpen, drawerCollapsedPref, panes, activityTab,
                 navTab, stored>>

\* The window, or the session list beside the row, is resized.
ResizeRow ==
  /\ Act /\ wide' = ~wide /\ requestRest
  /\ UNCHANGED <<measured, terminalOpen, drawer, panes, activityTab, navTab, stored>>

handleJumpTerminal ==
  /\ Act /\ terminalOpen' = ~terminalOpen /\ observed' = FALSE /\ requestRest
  /\ UNCHANGED <<wide, rowWidth, wasNarrow, drawer, panes, activityTab, navTab, stored>>

-----------------------------------------------------------------------------
(* The drawer, its tabs, the console.                                       *)

\* toggleDrawer stores what it sets.
toggleStored(collapsed) == [stored EXCEPT !.drawer = collapsed]

toggleDrawer ==
  /\ Act /\ ~terminalOpen
  /\ IF drawerCollapsed
     THEN expandDrawer(activityTab, stored)
     ELSE /\ drawerCollapsedPref' = TRUE /\ stored' = toggleStored(TRUE)
          /\ UNCHANGED <<autoCollapsed, autoCollapseOverride, activityTab>>
  /\ requestRest /\ UNCHANGED <<wide, measured, terminalOpen, panes, navTab>>

\* handleActivityTabChange, and handleCollapsedActivitySelect which also expands.
SelectActivityTab ==
  /\ Act /\ ~terminalOpen
  /\ \E tab \in {"activity", "prompt", "plan"} \ {activityTab} :
       IF drawerCollapsed
       THEN expandDrawer(tab, stored)
       ELSE /\ activityTab' = tab /\ stored' = [stored EXCEPT !.tab = tab] /\ UNCHANGED drawer
  /\ requestRest /\ UNCHANGED <<wide, measured, terminalOpen, panes, navTab>>

toggleConsole ==
  /\ Act /\ ~terminalOpen
  /\ consoleCollapsed' = ~consoleCollapsed /\ stored' = [stored EXCEPT !.console = ~consoleCollapsed]
  /\ requestRest
  /\ UNCHANGED <<wide, measured, terminalOpen, drawer, value, drag, activityTab, navTab>>

\* The routing effect: a jump to a message, the plan, a scratch file (SessionFiles),
\* and back.
RouteRow ==
  /\ Act
  /\ \/ navTab = "session" /\ expandDrawer("activity", stored) /\ UNCHANGED navTab
     \/ navTab' = "plan" /\ navTab # "plan" /\ expandDrawer("plan", stored)
     \/ navTab' = "session" /\ navTab # "session" /\ expandDrawer("activity", stored)
     \/ navTab' = "scratch" /\ navTab # "scratch" /\ UNCHANGED <<drawer, activityTab, stored>>
  /\ requestRest /\ UNCHANGED <<wide, measured, terminalOpen, panes>>

-----------------------------------------------------------------------------
(* useResizable.  The listeners are the document's: a drag goes on anywhere. *)

startResize ==
  /\ Act /\ ~terminalOpen /\ drag = None /\ drag' = value /\ requestRest
  /\ UNCHANGED <<wide, measured, terminalOpen, drawer, consoleCollapsed, value, activityTab, navTab,
                 stored>>

onMove ==
  /\ drag # None /\ \E n \in Widths : value' = Clamp(n) /\ value' # value
  /\ requestRest
  /\ UNCHANGED <<acts, wide, measured, terminalOpen, drawer, consoleCollapsed, drag, activityTab,
                 navTab, stored>>

onUp ==
  /\ drag # None /\ drag' = None
  /\ \E n \in Widths : value' = Clamp(n) /\ stored' = [stored EXCEPT !.width = Clamp(n)]
  /\ requestRest
  /\ UNCHANGED <<acts, wide, measured, terminalOpen, drawer, consoleCollapsed, activityTab, navTab>>

\* The page is reloaded, or the session left and opened again: for its own sake, for
\* its plan or for a message.
Remount ==
  /\ Act /\ \E tab \in {"session", "plan", "scratch"}, jump \in BOOLEAN : Mounted(stored, tab, jump)
  /\ rowWidth' = None /\ wasNarrow' = FALSE /\ observed' = TRUE /\ terminalOpen' = FALSE
  /\ requestRest /\ UNCHANGED wide

RowNext ==
  \/ Observe \/ ResizeRow \/ handleJumpTerminal \/ toggleDrawer \/ SelectActivityTab \/ toggleConsole
  \/ RouteRow \/ startResize \/ onMove \/ onUp \/ Remount
=============================================================================
