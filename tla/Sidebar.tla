--------------------------------- MODULE Sidebar ---------------------------------
(***************************************************************************)
(* The session list beside the open session (SessionPanel), its settings         *)
(* (useSessionListSettings) and what localStorage keeps of it.                   *)
(***************************************************************************)
EXTENDS SessionTrees, Requests

CONSTANTS
  Lists,           \* lists the server may give: sequences of sessions, which have a
                   \* status too: "active", "done" (idle 10 days) or "archived"
  Days             \* what staleDays may be: 7 at first

ASSUME SidebarAssumption == Lists # {} /\ \A list \in Lists : IsSessionList(list)

VARIABLES
  sessions, active, unread,                 \* props: the list, the open session, ids
  collapsed, groupMode, displayMode, dismissed,
  filter,                                   \* a repository or None
  hideStale, staleDays, settingsLoaded,
  srvSettings,                              \* [hideStale, staleDays] as the server keeps them
  menuSession, tagsSession,                 \* context menu, ManageTagsDialog
  kept,                                     \* localStorage
  raced                                     \* history: a setting changed before they were loaded

sidebarVars == <<sessions, active, unread, collapsed, groupMode, displayMode, dismissed, filter,
                 hideStale, staleDays, settingsLoaded, srvSettings, menuSession, tagsSession, kept,
                 raced>>
props == <<sessions, active, unread>>
stored == <<collapsed, groupMode, displayMode, dismissed, kept>>
settings == <<hideStale, staleDays, settingsLoaded, srvSettings, raced>>
menus == <<menuSession, tagsSession>>
noCalls == UNCHANGED <<calls, faults, missed>>

SettingOp(key, v) == [key |-> key, value |-> v]

SidebarInit ==
  /\ sessions \in Lists /\ active = None /\ unread = {}
  /\ collapsed = {} /\ groupMode = "repo" /\ displayMode = "condensed" /\ dismissed = FALSE
  /\ filter = None /\ hideStale = TRUE /\ staleDays = 7 /\ settingsLoaded = FALSE
  /\ srvSettings \in [hideStale : BOOLEAN, staleDays : {7}]
  /\ menuSession = None /\ tagsSession = None /\ raced = FALSE
  /\ kept = [collapsed |-> {}, group |-> "repo", display |-> "condensed", dismissed |-> FALSE]

-----------------------------------------------------------------------------
(* What is listed.                                                          *)

filterSessions == IF filter = None THEN sessions ELSE Where(sessions, LAMBDA s : s.repo = filter)

isStaleSession(s) == s.status = "archived" \/ (s.status = "done" /\ 10 > staleDays)

keepIds == unread \cup (IF active = None THEN {} ELSE {active})

\* Mutant of Hidden: the active session is kept, its root is not.
Hidden_ByActive(s) == isStaleSession(s) /\ s.id # active

\* splitStaleSessions.
Hidden(s) == isStaleSession(s) /\ s.id \notin keepIds

treeSessions == IF hideStale THEN Where(filterSessions, LAMBDA s : ~Hidden(s)) ELSE filterSessions

\* Workspaces need git data in the list, filtered or not.
effectiveGroup == IF groupMode = "workspace" /\ ~hasWorkspaceData(sessions) THEN "repo" ELSE groupMode

shownTree == TreeOf(treeSessions, effectiveGroup)
rows == RowsOf(shownTree, collapsed)

allCollapsed == groupPaths(shownTree) # {} /\ groupPaths(shownTree) \subseteq collapsed

showWorkspaceNudge == /\ hasWorkspaceData(sessions) /\ effectiveGroup # "workspace"
                      /\ hasMultipleWorktrees(treeSessions) /\ ~dismissed

-----------------------------------------------------------------------------
(* The panel.                                                               *)

panelRest == noCalls /\ UNCHANGED <<props, settings, menus>>

\* Mutant of Keep: an empty set is not stored.
Keep_NotEmpty(field, v) == IF field = "collapsed" /\ v = {} THEN kept ELSE [kept EXCEPT ![field] = v]

\* What a handler stores, it stores where the next page reads it.
Keep(field, v) == [kept EXCEPT ![field] = v]

Collapse(set) ==
  /\ collapsed' = set /\ kept' = Keep("collapsed", set)
  /\ UNCHANGED <<groupMode, displayMode, dismissed, filter>> /\ panelRest

toggleCollapse ==
  /\ Act
  /\ \E n \in {m \in ToSet(rows) : ~IsLeaf(m)} :
       Collapse(IF n.id \in collapsed THEN collapsed \ {n.id} ELSE collapsed \cup {n.id})

\* The button: collapseAll and expandAll leave nothing of the other groupings.
CollapseOrExpandAll ==
  /\ Act /\ effectiveGroup # "none" /\ Collapse(IF allCollapsed THEN {} ELSE groupPaths(shownTree))

\* From the menu, or the nudge.
setGroup ==
  /\ Act
  /\ groupMode' \in {"workspace", "repo", "cwd", "none"} \ {groupMode}
  /\ groupMode' = "workspace" => hasWorkspaceData(sessions)
  /\ kept' = Keep("group", groupMode')
  /\ UNCHANGED <<collapsed, displayMode, dismissed, filter>> /\ panelRest

toggleDisplayMode ==
  /\ Act /\ displayMode' = (IF displayMode = "condensed" THEN "verbose" ELSE "condensed")
  /\ kept' = Keep("display", displayMode')
  /\ UNCHANGED <<collapsed, groupMode, dismissed, filter>> /\ panelRest

dismiss ==
  /\ Act /\ showWorkspaceNudge /\ dismissed' = TRUE /\ kept' = Keep("dismissed", TRUE)
  /\ UNCHANGED <<collapsed, groupMode, displayMode, filter>> /\ panelRest

\* setFilter and clearFilters; the values are those of the whole list.
setFilter ==
  /\ Act /\ filter' \in ({s.repo : s \in ToSet(sessions)} \cup {None}) \ {filter}
  /\ UNCHANGED stored /\ panelRest

\* The context menu of a row, and the dialog it opens.
Menus ==
  /\ \/ menuSession = None /\ Act /\ menuSession' \in ToSet(LeafIds(rows)) /\ UNCHANGED tagsSession
     \/ menuSession # None /\ menuSession' = None /\ tagsSession' \in {tagsSession, menuSession}
        /\ UNCHANGED acts
     \/ tagsSession # None /\ tagsSession' = None /\ UNCHANGED <<menuSession, acts>>
  /\ noCalls /\ UNCHANGED <<props, stored, filter, settings>>

-----------------------------------------------------------------------------
(* The settings: set here and in SettingsPanel, saved without a word of failure. *)

ChangeSetting ==
  /\ Act
  /\ \/ hideStale' = ~hideStale /\ Send(SettingOp("hideStale", hideStale')) /\ UNCHANGED staleDays
     \/ /\ staleDays' \in Days \ {staleDays} /\ Send(SettingOp("staleDays", staleDays'))
        /\ UNCHANGED hideStale
  /\ raced' = (raced \/ ~settingsLoaded)
  /\ UNCHANGED <<faults, missed, props, stored, filter, settingsLoaded, srvSettings, menus>>

ServeSettings ==
  \E i \in ToServe :
    LET op == calls[i].op IN
    /\ Serve(i, IF op.key = "load" THEN srvSettings ELSE "done")
    /\ srvSettings' = IF op.key = "load" THEN srvSettings ELSE [srvSettings EXCEPT ![op.key] = op.value]
    /\ UNCHANGED <<acts, missed, props, stored, filter, hideStale, staleDays, settingsLoaded, menus, raced>>

\* A load that fails gives the defaults; it does not ask what was set meanwhile.
Loaded(i) == IF ok(i) THEN calls[i].answer ELSE [hideStale |-> TRUE, staleDays |-> 7]

SettingsAnswer ==
  \E i \in ToAnswer :
    /\ IF calls[i].op.key = "load"
       THEN /\ hideStale' = Loaded(i).hideStale /\ staleDays' = Loaded(i).staleDays
            /\ settingsLoaded' = TRUE
       ELSE UNCHANGED <<hideStale, staleDays, settingsLoaded>>
    /\ missed' = (missed \/ ~ok(i)) /\ Answered(i, <<>>)
    /\ UNCHANGED <<faults, acts, props, stored, filter, srvSettings, menus, raced>>

-----------------------------------------------------------------------------
(* What happens around it.                                                  *)

panelState == <<stored, filter, settings, menus>>

\* The list is loaded again: sessions come, go, move to another branch, end.
ListChanges ==
  /\ Act /\ sessions' \in Lists \ {sessions} /\ noCalls
  /\ UNCHANGED <<active, unread, panelState>>

\* Any listed session is opened: a row, a member of its family, a search hit.
OpenSession ==
  /\ Act /\ active' \in (Ids(sessions) \cup {None}) \ {active} /\ noCalls
  /\ UNCHANGED <<sessions, unread, panelState>>

Notified ==
  /\ Act /\ \E s \in Ids(sessions) : unread' = IF s \in unread THEN unread \ {s} ELSE unread \cup {s}
  /\ noCalls /\ UNCHANGED <<sessions, active, panelState>>

\* The page is opened again: the storage is read, the settings are loaded.
Reopen ==
  /\ Act /\ calls = <<>>
  /\ collapsed' = kept.collapsed /\ groupMode' = kept.group /\ displayMode' = kept.display
  /\ dismissed' = kept.dismissed /\ filter' = None /\ menuSession' = None /\ tagsSession' = None
  /\ hideStale' = TRUE /\ staleDays' = 7 /\ settingsLoaded' = FALSE /\ raced' = FALSE
  /\ missed' = FALSE /\ Send(SettingOp("load", None))
  /\ UNCHANGED <<faults, props, kept, srvSettings>>

SidebarNext ==
  \/ toggleCollapse \/ CollapseOrExpandAll \/ setGroup \/ toggleDisplayMode \/ dismiss \/ setFilter
  \/ Menus \/ ChangeSetting \/ ServeSettings \/ SettingsAnswer \/ ListChanges \/ OpenSession
  \/ Notified \/ Reopen
  \/ LoseRequest /\ UNCHANGED <<acts, missed, sidebarVars>>
=============================================================================
