--------------------------------- MODULE FileTree ---------------------------------
(***************************************************************************)
(* The tree of the files a session touched (FileAccessTree): directories that   *)
(* hold one directory are shown as one row, some kinds of access are hidden,     *)
(* directories collapse, and the keyboard moves a focus over the rows.  A path   *)
(* is a sequence of numbers, in the order of their names.  No file has the path  *)
(* of a directory.                                                             *)
(***************************************************************************)
EXTENDS Arrays, Requests

CONSTANTS
  Accesses,        \* what the agent touches, in order: [path, kind], one of a path
  ScratchFiles     \* ids of the scratch files below the tree

Kinds == {"read", "edit", "delete"}

ASSUME AccessAssumption ==
  Accesses \in Seq([path : Seq(Nat), kind : Kinds]) /\ None \notin ScratchFiles

VARIABLES
  accesses,        \* prop: a sequence of some of Accesses
  selectedPath, selectedScratch,   \* props: what the session view has selected
  visibility,      \* the kinds that are shown: of "read", "edit", "delete"
  closedDirs,      \* expandedMap[d] = FALSE
  focusedPath,
  scratchFiles, scratchExpanded, renamingId, renamed,  \* renamed: the input differs
  keptKinds        \* localStorage

treeVars == <<accesses, selectedPath, selectedScratch, visibility, closedDirs, focusedPath,
              scratchFiles, scratchExpanded, renamingId, renamed, keptKinds>>
scratchVars == <<scratchFiles, scratchExpanded, renamingId, renamed>>

FileTreeInit ==
  /\ accesses = <<>> /\ selectedPath = None /\ selectedScratch = None
  /\ visibility = Kinds /\ keptKinds = Kinds /\ closedDirs = {} /\ focusedPath = None
  /\ scratchFiles = {} /\ scratchExpanded = TRUE /\ renamingId = None /\ renamed = FALSE

-----------------------------------------------------------------------------
(* The rows.                                                                *)

PathsOf(acc) == {a.path : a \in ToSet(acc)}

FilteredPaths(acc, kinds) == PathsOf(Where(acc, LAMBDA a : a.kind \in kinds))

Dirs(files) == UNION {{SubSeq(f, 1, k) : k \in 1..(Len(f) - 1)} : f \in files}

Children(d, nodes) == {c \in nodes : Len(c) = Len(d) + 1 /\ IsPrefix(d, c)}

\* flattenDirectoryChains: a directory whose only child is one is shown with it.
ShownDirs(files) ==
  LET dirs == Dirs(files)
      only(d) == LET under == Children(d, dirs \cup files)
                 IN Cardinality(under) = 1 /\ under \subseteq dirs
  IN {d \in dirs : ~only(d)}

\* sortNodes: directories first, then by name, at every level.
Before(p, q, files) ==
  \/ IsStrictPrefix(p, q)
  \/ /\ ~IsPrefix(q, p) /\ ~IsPrefix(p, q)
     /\ LET k == CHOOSE i \in 1..Min({Len(p), Len(q)}) : p[i] # q[i] /\ \A j \in 1..(i - 1) : p[j] = q[j]
            isDir(x) == SubSeq(x, 1, k) \notin files
        IN IF isDir(p) # isDir(q) THEN isDir(p) ELSE p[k] < q[k]

\* flattenVisibleNodes.
RowsIn(files, closed) ==
  LET shown == ShownDirs(files)
      open == {p \in shown \cup files : \A d \in shown \cap closed : ~IsStrictPrefix(d, p)}
  IN Sorted(open, LAMBDA p, q : Before(p, q, files))

filesShown == FilteredPaths(accesses, visibility)
treeRows == RowsIn(filesShown, closedDirs)
IsFile(p) == p \in PathsOf(accesses)

-----------------------------------------------------------------------------
(* The effects, run to their end after each change.                          *)

\* The session view's choice when the selection is not among the accesses, then
\* the tree's when it is not a row: its first file, if it has one.
Chosen(acc, rows, sel) ==
  LET files == Where(rows, LAMBDA p : p \in PathsOf(acc))
      first == IF acc = <<>> THEN None ELSE acc[1].path
      wanted == IF sel \in PathsOf(acc) THEN sel ELSE first
  IN IF files = <<>> \/ wanted \in ToSet(files) THEN wanted ELSE files[1]

\* Mutant of Rebuilt: files that come or go open every directory.
Rebuilt_Forgets(closed, files) == IF files = FilteredPaths(accesses, visibility) THEN closed ELSE {}

\* The map is rebuilt: what is not a directory any more is forgotten.
Rebuilt(closed, files) == closed \cap ShownDirs(files)

\* Mutant of Target: an accessed file stays selected, visible or not.
Target_Accessed(acc, rows, sel) == IF sel \in PathsOf(acc) \/ acc = <<>> THEN sel ELSE acc[1].path

\* What is selected: nothing of it changes while a scratch file is.
Target(acc, rows, sel) == IF selectedScratch' # None THEN sel ELSE Chosen(acc, rows, sel)

\* Focus follows a selection that is a row, and takes it over at first.
Effects(acc, kinds, closed, sel, focus) ==
  LET files == FilteredPaths(acc, kinds)
      rows == RowsIn(files, closed)
  IN /\ accesses' = acc /\ visibility' = kinds /\ closedDirs' = Rebuilt(closed, files)
     /\ selectedPath' = Target(acc, rows, sel)
     /\ focusedPath' = IF selectedPath' # None /\ selectedPath' # selectedPath
                          /\ selectedPath' \in ToSet(rows) THEN selectedPath'
                       ELSE IF focus = None THEN selectedPath' ELSE focus

same == UNCHANGED <<calls, faults, missed>>

-----------------------------------------------------------------------------
(* The tree.                                                                *)

\* The cursor moves, the agent works: other accesses, in the order of the timeline.
AccessesChange ==
  /\ Act /\ selectedScratch' = selectedScratch
  /\ \E set \in SUBSET ToSet(Accesses) :
       LET acc == Where(Accesses, LAMBDA a : a \in set) IN
       acc # accesses /\ Effects(acc, visibility, closedDirs, selectedPath, focusedPath)
  /\ same /\ UNCHANGED <<scratchVars, keptKinds>>

\* toggleReads, toggleEdits, toggleDeletes, and showAllKinds where nothing is shown.
ToggleKinds ==
  /\ Act /\ selectedScratch' = selectedScratch
  /\ \E kinds \in SUBSET Kinds :
       /\ \/ \E k \in Kinds : kinds = (visibility \ {k}) \cup ({k} \ visibility)
          \/ accesses # <<>> /\ filesShown = {} /\ kinds = Kinds
       /\ keptKinds' = kinds
       /\ Effects(accesses, kinds, closedDirs, selectedPath, focusedPath)
  /\ same /\ UNCHANGED scratchVars

SetDirs(closed, focus) ==
  /\ Act /\ selectedScratch' = selectedScratch
  /\ Effects(accesses, visibility, closed, selectedPath, focus)
  /\ same /\ UNCHANGED <<scratchVars, keptKinds>>

Toggled(d) == (closedDirs \ {d}) \cup ({d} \ closedDirs)

toggleDir == \E d \in ToSet(treeRows) : ~IsFile(d) /\ SetDirs(Toggled(d), focusedPath)

\* handleExpandAll, handleCollapseAll: the button does the first unless all are open.
FoldAll ==
  /\ ShownDirs(filesShown) # {}
  /\ SetDirs(IF closedDirs = {} THEN ShownDirs(filesShown) ELSE {}, focusedPath)

\* onSelect: a file of the tree leaves the scratch file.
SelectFile(p, focus) ==
  /\ Act /\ selectedScratch' = None
  /\ Effects(accesses, visibility, closedDirs, p, focus)
  /\ same /\ UNCHANGED <<scratchVars, keptKinds>>

ClickFile == \E p \in ToSet(treeRows) : IsFile(p) /\ SelectFile(p, p)

\* The row the keyboard is at, or 0.
currentIdx(rows) ==
  LET at(p) == {k \in DOMAIN rows : rows[k] = p}
  IN CHOOSE k \in 0..Len(rows) : IF at(focusedPath) # {} THEN k \in at(focusedPath)
                                 ELSE IF at(selectedPath) # {} THEN k \in at(selectedPath) ELSE k = 0

FocusRow(p) == IF IsFile(p) THEN SelectFile(p, p) ELSE SetDirs(closedDirs, p)

\* A closed directory opens; from an open one to the first row inside it.
ArrowRight(rows, idx) ==
  /\ idx # 0 /\ ~IsFile(rows[idx])
  /\ IF rows[idx] \in closedDirs THEN SetDirs(closedDirs \ {rows[idx]}, focusedPath)
     ELSE FocusRow(rows[idx + 1])

\* An open directory closes; from anything else to the directory it is in.
ArrowLeft(rows, idx) ==
  /\ idx # 0
  /\ LET p == rows[idx]
         above == {d \in ToSet(rows) : IsStrictPrefix(d, p)}
     IN IF ~IsFile(p) /\ p \notin closedDirs THEN SetDirs(closedDirs \cup {p}, focusedPath)
        ELSE above # {} /\ \E d \in above : /\ \A e \in above : Len(e) <= Len(d)
                                            /\ SetDirs(closedDirs, d)

Enter(rows, idx) ==
  /\ idx # 0
  /\ IF IsFile(rows[idx]) THEN SelectFile(rows[idx], focusedPath)
     ELSE SetDirs(Toggled(rows[idx]), focusedPath)

\* ArrowDown and ArrowUp stay at the last and the first row.
handleKeyDown ==
  LET rows == treeRows
      idx == currentIdx(rows)
  IN /\ rows # <<>>
     /\ \/ FocusRow(rows[IF idx < Len(rows) THEN idx + 1 ELSE idx])
        \/ FocusRow(rows[IF idx > 1 THEN idx - 1 ELSE 1])
        \/ ArrowRight(rows, idx) \/ ArrowLeft(rows, idx) \/ Enter(rows, idx)

\* The tree gets the keyboard.
Focus ==
  /\ focusedPath = None /\ treeRows # <<>> /\ acts' = acts
  /\ focusedPath' = IF selectedPath # None THEN selectedPath ELSE treeRows[1]
  /\ same
  /\ UNCHANGED <<accesses, selectedPath, selectedScratch, visibility, closedDirs, scratchVars, keptKinds>>

-----------------------------------------------------------------------------
(* The scratch files.                                                       *)

treeState == <<accesses, selectedPath, visibility, closedDirs, focusedPath, keptKinds>>

\* The list is loaded again; a file that is being renamed may be gone, one that is
\* selected is left then, which the tree notices.
ScratchChanges ==
  /\ Act /\ scratchFiles' \in SUBSET ScratchFiles \ {scratchFiles}
  /\ renamingId' = IF renamingId \in scratchFiles' THEN renamingId ELSE None
  /\ selectedScratch' = IF selectedScratch \in scratchFiles' THEN selectedScratch ELSE None
  /\ Effects(accesses, visibility, closedDirs, selectedPath, focusedPath)
  /\ same /\ UNCHANGED <<scratchExpanded, renamed, keptKinds>>

SelectScratch ==
  /\ Act /\ scratchExpanded /\ selectedScratch' \in scratchFiles \ {renamingId} /\ same
  /\ UNCHANGED <<treeState, scratchVars>>

ExpandScratch ==
  /\ Act /\ scratchExpanded' = ~scratchExpanded /\ same
  /\ UNCHANGED <<treeState, selectedScratch, scratchFiles, renamingId, renamed>>

\* A double click; the title is typed; then it is committed, which SessionFiles sends
\* (handleRenameScratch), or given up.
Rename ==
  /\ scratchExpanded
  /\ \/ renamingId = None /\ Act /\ renamingId' \in scratchFiles /\ renamed' = FALSE
     \/ renamingId # None /\ ~renamed /\ renamed' = TRUE /\ UNCHANGED <<acts, renamingId>>
     \/ renamingId # None /\ renamingId' = None /\ renamed' = FALSE /\ UNCHANGED acts
  /\ same /\ UNCHANGED <<treeState, selectedScratch, scratchFiles, scratchExpanded>>

FileTreeNext ==
  \/ AccessesChange \/ ToggleKinds \/ toggleDir \/ FoldAll \/ ClickFile \/ handleKeyDown \/ Focus
  \/ ScratchChanges \/ SelectScratch \/ ExpandScratch \/ Rename
=============================================================================
