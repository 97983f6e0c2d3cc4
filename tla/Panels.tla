--------------------------------- MODULE Panels ---------------------------------
(***************************************************************************)
(* The panels beside a session: the session list, the files of a session, and   *)
(* those that edit what the user keeps on the server.  They share apiClient and *)
(* nothing else: a behaviour follows one, or looks at one list of sessions of   *)
(* many.                                                                      *)
(***************************************************************************)
EXTENDS Sidebar, FileTree, Prompts, Tags, Shelf

CONSTANTS
  Samples,         \* lists of sessions that are looked at as they are
  MaxLibraryActs   \* bound: acts where what is kept is edited

ASSUME SamplesAssumption == \A list \in Samples : IsSessionList(list)

VARIABLE part

libraryVars == <<promptVars, tagVars, shelfVars>>
vars == <<part, requestVars, sidebarVars, treeVars, libraryVars>>

\* What each asks for when it is mounted (and App's count of the prompts).
Mounts == [list    |-> <<>>,
           sidebar |-> <<SettingOp("load", None)>>,
           files   |-> <<>>,
           prompts |-> <<CountPrompts, LoadPrompts>>,
           tags    |-> <<Tags("panel"), SessionTags("header", Open)>>,
           shelf   |-> <<ShelfOp("bookmarks", None), ShelfOp("sources", "mount")>>]

\* Only the panel that is followed starts from each of its initial states.
Init ==
  /\ SidebarInit /\ FileTreeInit /\ PromptInit /\ TagInit /\ ShelfInit
  /\ part \in DOMAIN Mounts
  /\ part # "sidebar" => sessions = CHOOSE l \in Lists : TRUE
  /\ part # "sidebar" => srvSettings.hideStale
  /\ part # "tags" => srvTagged = [t \in TagIds |-> {}]
  /\ part # "shelf" => srvSources = {}
  /\ calls = Sent(Mounts[part]) /\ faults = 0 /\ acts = 0 /\ missed = FALSE

\* Another list, of any sessions.
Sample ==
  /\ part = "list" /\ acts = 0 /\ acts' = 1 /\ sessions' \in Samples \cup Lists
  /\ UNCHANGED <<part, calls, faults, missed, active, unread, panelState, treeVars, libraryVars>>

LibraryNext ==
  /\ \/ part = "prompts" /\ PromptNext /\ UNCHANGED <<tagVars, shelfVars>>
     \/ part = "tags" /\ TagNext /\ UNCHANGED <<promptVars, shelfVars>>
     \/ part = "shelf" /\ ShelfNext /\ UNCHANGED <<promptVars, tagVars>>
  /\ acts' <= MaxLibraryActs

Next ==
  \/ Sample
  \/ part = "sidebar" /\ SidebarNext /\ UNCHANGED <<part, treeVars, libraryVars>>
  \/ part = "files" /\ FileTreeNext /\ UNCHANGED <<part, sidebarVars, libraryVars>>
  \/ LibraryNext /\ UNCHANGED <<part, sidebarVars, treeVars>>

Spec == Init /\ [][Next]_vars

-----------------------------------------------------------------------------
(* Properties of the trees                                                  *)

Modes == {"workspace", "repo", "cwd", "none"}

IsPermutation(ids, set) == ToSet(ids) = set /\ Len(ids) = Cardinality(set)

\* Of a tree: every root session is one leaf of it, no two nodes have the id that React
\* and the collapsed set know them by, a group counts the sessions under it, and outside
\* the workspaces the first session is the latest.
IsWhole(tree, list, mode) ==
  LET all == Nodes(tree)
      leaves == LeafIds(RowsOf(tree, {}))
  IN /\ IsPermutation(leaves, Ids(rootSessions(list)))
     /\ Cardinality({n.id : n \in ToSet(all)}) = Len(all)
     /\ \A n \in ToSet(all) : n.count = Len(LeafIds(Nodes(<<n>>)))
     /\ mode # "workspace" /\ leaves # <<>> =>
          \A s \in ToSet(rootSessions(list)) : s.updated <= SessionOf(list, leaves[1]).updated

\* projectTree.ts:10-11 "so nothing disappears": so it is whatever the grouping, hoisting
\* and branch level included.
TreeIsComplete ==
  part = "list" => \A mode \in Modes : IsWhole(TreeOf(sessions, mode), sessions, mode)

\* buildTree.ts:37-39: sub-agents are in the family selector instead.  A session
\* whose ancestors are all listed, in no circle and no more than MaxFamilyDepth, is in
\* the family of the root it is resolved to, with every other session of that root,
\* each once, the root first.
SubAgentsAreReached ==
  part = "list" => \A id \in Ids(sessions) :
    LET root == resolveFamilyRoot(sessions, id)
        family == activeSessionFamily(sessions, id)
    IN SessionOf(sessions, root).parent = Nil =>
         /\ IsPermutation(family, {t \in Ids(sessions) : resolveFamilyRoot(sessions, t) = root})
         /\ family[1] = root

\* Nothing disappears: roots are in the list, sub-agents in a family.
NothingDisappears == TreeIsComplete /\ SubAgentsAreReached

\* Of what is shown: a root session that is open or has unread notifications is in the
\* tree though it is stale, as is one that is not stale, and no row is hidden but under
\* a group that is collapsed.
KeepsListed(tree) ==
  LET all == Nodes(tree)
      shown == RowsOf(tree, collapsed)
      listed == ToSet(LeafIds(all))
  IN /\ \A s \in ToSet(rootSessions(filterSessions)) :
          s.id \in keepIds \/ ~isStaleSession(s) \/ ~hideStale => s.id \in listed
     /\ allCollapsed => LeafIds(shown) = <<>>
     /\ groupPaths(tree) \cap collapsed = {} => Len(shown) = Len(all)

\* SessionPanel.tsx:115-116: that is so of the tree that is shown, in whatever grouping.
KeptIsListed == part = "sidebar" => KeepsListed(shownTree)

\* What the user chose is what the next page starts from; and once all is answered the
\* settings are the server's, unless one was changed before they were loaded.
ChoicesAreKept ==
  /\ kept = [collapsed |-> collapsed, group |-> groupMode, display |-> displayMode,
             dismissed |-> dismissed]
  /\ keptKinds = visibility
  /\ part = "sidebar" /\ Ordered /\ calls = <<>> /\ ~missed /\ ~raced =>
       hideStale = srvSettings.hideStale /\ staleDays = srvSettings.staleDays

\* Files come and go, kinds are hidden, directories collapse: what the tree has
\* selected is one of its rows whenever it shows a file.
SelectionIsVisible ==
  part = "files" /\ selectedScratch = None /\ (\E p \in ToSet(treeRows) : IsFile(p)) =>
    selectedPath \in ToSet(treeRows) /\ IsFile(selectedPath)

\* Only the user opens a directory: one that is closed and still shown after files
\* came, went or were hidden stays closed.
ClosedStaysClosed ==
  [][accesses' # accesses \/ visibility' # visibility =>
       \A d \in closedDirs : d \in ShownDirs(filesShown)' => d \in closedDirs']_vars

-----------------------------------------------------------------------------
(* Properties of what is kept                                               *)

Settled(p) == part = p /\ Ordered /\ calls = <<>> /\ ~missed

\* PromptsPanel changes the list before the server does and creates, edits,
\* drags and deletes overlap with failures and with another tab: once nothing is
\* under way, the list is the server's, in its order and each prompt once.
PromptsConverge == Settled("prompts") /\ announced = 0 => prompts = View(srvPrompts)

\* Panel and header agree with the server and with each other once nothing is
\* under way, through the version they share; of the sessions under the tags
\* that holds for those expanded when the panel was mounted.
TagsConverge ==
  Settled("tags") =>
    /\ tags = Live /\ sessionTags = TagsOf(Open)
    /\ \A t \in Named(tags) \cap InitialExpanded : tagSessions[t] = srvTagged[t]

\* A toggle may create or remove on the server, a failed one may have done
\* either: what is shown afterwards is what is bookmarked.
BookmarksConverge == Settled("shelf") => bookmarks = srvBookmarks

\* Adds and removals of sources overlap: once all are answered the list is the
\* server's and no row is still shown as being removed.
SourcesConverge == Settled("shelf") => sources = srvSources /\ removing = None

\* What the library panels show is the server's, however their requests, their
\* failures and the changes of another tab overlapped.
PanelsConverge ==
  PromptsConverge /\ TagsConverge /\ BookmarksConverge /\ SourcesConverge
=================================================================================
