-------------------------------- MODULE Workbench --------------------------------
(***************************************************************************)
(* What surrounds the transcript of an open session: its files, the layout of   *)
(* its row, the editor of a scratch file, its terminal and its resume menu.      *)
(* Each has state of its own: a behaviour follows one.                          *)
(***************************************************************************)
EXTENDS SessionFiles, SessionRow, ScratchEditor, Terminal, ResumeMenu

VARIABLE part      \* what is followed

Parts == {"files", "row", "editor", "terminal", "resume"}

vars == <<part, requestVars, fileVars, rowVars, editorVars, terminalVars, resumeVars>>

\* What each asks for when it is mounted.
Mounts == [p \in Parts |-> CASE p = "files"  -> LoadAll(FALSE)
                             [] p = "editor" -> <<EditorOp("file", Blank, None)>>
                             [] OTHER        -> <<>>]

\* Only the part that is followed starts from each of its initial states.
Init ==
  /\ FilesInit /\ RowInit /\ EditorInit /\ TerminalInit /\ ResumeInit
  /\ part \in Parts
  /\ part # "files" => srvFiles = {} /\ Scratch = {}
  /\ part # "row" => wide
  /\ part # "editor" => ~srvText.raw /\ srvTitle = "Untitled" /\ srvMode = "writable"
  /\ calls = Sent(Mounts[part]) /\ faults = 0 /\ acts = 0 /\ missed = FALSE

Next ==
  \/ /\ part = "files" /\ FilesNext
     /\ UNCHANGED <<part, rowVars, editorVars, terminalVars, resumeVars>>
  \/ /\ part = "row" /\ RowNext
     /\ UNCHANGED <<part, fileVars, editorVars, terminalVars, resumeVars>>
  \/ /\ part = "editor" /\ EditorNext
     /\ UNCHANGED <<part, fileVars, rowVars, terminalVars, resumeVars>>
  \/ /\ part = "terminal" /\ TerminalNext
     /\ UNCHANGED <<part, fileVars, rowVars, editorVars, resumeVars>>
  \/ /\ part = "resume" /\ ResumeNext
     /\ UNCHANGED <<part, fileVars, rowVars, editorVars, terminalVars>>

\* The browser and the server go on: xterm loads, a connection opens, the wait
\* before a retry ends.
Fairness ==
  /\ WF_vars(part = "terminal" /\ (loadXterm \/ onopen \/ RetryFires \/ FrameFires) /\
             UNCHANGED <<part, fileVars, rowVars, editorVars, resumeVars>>)

Spec == Init /\ [][Next]_vars /\ Fairness

-----------------------------------------------------------------------------
(* Properties                                                               *)

Settled(p) == part = p /\ Ordered /\ calls = <<>> /\ ~missed

\* Loads, creations, renames, deletions and pins overlap: once all are answered the
\* files, the edits and the plan are the server's, and what is selected is a
\* scratch file there is, or a file of the tree, if there is one.
FilesConverge ==
  Settled("files") =>
    /\ scratchFiles = ScratchList
    /\ accessed = srvFiles /\ edits = srvFiles /\ plan = srvPlan
    /\ selectedScratchId # None => selectedScratchId \in Scratch
    /\ selectedScratchId = None => selectedPath = First(tree)
                                   \/ selectedPath \in tree

\* Typing, changes of mode, saves under way and a file opened again: when nothing
\* is left to save, the server has what the editor shows.
EditorConverges ==
  Settled("editor") /\ mounted /\ ~readOnly /\ timer = None => srvText = Shown

\* A menu that was opened, closed and opened again while its request was under way
\* is not left empty.
ResumeConverges == Settled("resume") /\ menuOpen => options

\* The drawer, console, tab and width the user chose, by whatever way, are what the
\* next mounting starts from; the collapse a narrow row imposes is not among them
\* and ends with it, as long as the row is the one that is observed.
LayoutIsKept ==
  part = "row" =>
    /\ drag = None => stored = [drawer |-> drawerCollapsedPref, console |-> consoleCollapsed,
                                tab |-> activityTab, width |-> value]
    /\ observed /\ wide /\ rowWidth = Seen => drawerCollapsed = drawerCollapsedPref

\* What the panes of an open session end with is what the server, or the user, has.
PanesConverge == FilesConverge /\ EditorConverges /\ ResumeConverges /\ LayoutIsKept

\* However often the connection is refused or lost, the terminal that is shown is
\* connected again, and its agent knows the size of the container, whatever was
\* resized or reconnected meanwhile.
TerminalReconnects ==
  (part = "terminal" /\ panel = "shown") ~>
    (panel # "shown" \/ (status = "connected" /\ IsOpen(wsRef) /\ sockets[wsRef].pty = size))

\* A panel has one socket, and one that was left has none that is still used.
OneSocket ==
  /\ Cardinality({s \in DOMAIN sockets : sockets[s].state \in {"connecting", "open"}}) <= 1
  /\ panel = "closed" => \A s \in DOMAIN sockets : sockets[s].state \in {"closing", "closed"}

===============================================================================
