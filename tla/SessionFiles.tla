------------------------------ MODULE SessionFiles ------------------------------
(***************************************************************************)
(* The files of the open session (CinematicSessionView): what its transcript    *)
(* touched, its edits, its plan and its scratch files, and which of them is     *)
(* selected.  The view is keyed by the session, so one mounting is followed.    *)
(***************************************************************************)
EXTENDS Requests

CONSTANTS
  Files,           \* numbers: the files the agent touches, in the order of the tree
  ScratchIds,      \* ids the server may give to a scratch file
  Titles,          \* what a user may call one; "Untitled" at first
  MaxFileActs      \* bound: MaxActs here, where each load is four requests

Rows == [id : ScratchIds, title : Titles \cup {"Untitled"}]

ASSUME FileAssumption ==
  /\ ScratchIds \subseteq Nat /\ None \notin Titles \cup {"Untitled"}
  /\ Waiting \notin Nat \cup {"done"}
  /\ \A listed \in SUBSET Rows, touched \in SUBSET Files : Waiting \notin {listed, touched}

VARIABLES
  srvScratch, srvFiles, srvPlan,   \* id -> title or None; files touched; version of the plan
  scratchFiles,                    \* {[id, title]}: those that are listed
  accessed, edits, plan,           \* what messages, edits and plan said last
  window,                          \* the files of the part of the timeline that is shown
  selectedPath, selectedScratchId,
  createScratchOpen, deleteScratchId, markdownModal,
  activeTab,                       \* the scratch file it names; None: session or plan
  pinnedScratchId

fileVars == <<srvScratch, srvFiles, srvPlan, scratchFiles, accessed, edits, plan, window,
              selectedPath, selectedScratchId, createScratchOpen, deleteScratchId,
              markdownModal, activeTab, pinnedScratchId>>
srvFileVars == <<srvScratch, srvFiles, srvPlan>>
loaded == <<scratchFiles, accessed, edits, plan>>
selection == <<selectedPath, selectedScratchId>>
dialogs == <<createScratchOpen, deleteScratchId, markdownModal>>
props == <<activeTab, pinnedScratchId>>

FileAct == acts < MaxFileActs /\ Act

FileOp(kind, arg) == [kind |-> kind, arg |-> arg]

\* loadMessages, loadPlan, loadEdits and loadScratchFiles, all at once.
LoadAll(background) == <<FileOp("messages", background), FileOp("plan", background),
                         FileOp("edits", background), FileOp("scratch", background)>>

FilesInit ==
  /\ srvScratch \in {[i \in ScratchIds |-> None],
                     [i \in ScratchIds |-> IF i = 1 THEN "Untitled" ELSE None]}
  /\ srvFiles \in SUBSET Files /\ srvPlan = 0
  /\ scratchFiles = {} /\ accessed = {} /\ edits = {} /\ plan = None
  /\ window = Files /\ selectedPath = None /\ selectedScratchId = None
  /\ createScratchOpen = FALSE /\ deleteScratchId = None /\ markdownModal = None
  /\ activeTab = None /\ pinnedScratchId = None

Scratch == {i \in ScratchIds : srvScratch[i] # None}
Fresh == CHOOSE i \in ScratchIds \ Scratch : \A j \in ScratchIds \ Scratch : i <= j
ScratchList == {[id |-> i, title |-> srvScratch[i]] : i \in Scratch}
IsListed(list, id) == \E f \in list : f.id = id

-----------------------------------------------------------------------------
(* The tree: what is read and edited in the part of the timeline that is shown. *)

treeAccesses(acc, ed, w) == (acc \cup ed) \cap w

First(tree) == IF tree = {} THEN None ELSE CHOOSE p \in tree : \A q \in tree : p <= q

\* The effects on the selection, run to their end: a scratch file that is not
\* listed is left, and a path that is not in the tree gives way to the first one.
Select(path, id, list, tree) ==
  LET kept == IF id # None /\ IsListed(list, id) THEN id ELSE None IN
  /\ selectedScratchId' = kept
  /\ selectedPath' = IF kept # None \/ path \in tree THEN path ELSE First(tree)

tree == treeAccesses(accessed, edits, window)

-----------------------------------------------------------------------------
(* The server.                                                              *)

ServeFiles ==
  \E i \in ToServe :
    LET op == calls[i].op
        creates == op.kind = "create" /\ Scratch # ScratchIds
    IN
    /\ Serve(i, CASE op.kind \in {"messages", "edits"} -> srvFiles
                  [] op.kind = "plan"                  -> srvPlan
                  [] op.kind \in {"scratch", "pin"}    -> ScratchList
                  [] op.kind = "create" -> IF creates THEN Fresh ELSE Failed
                  [] OTHER              -> "done")
    /\ srvScratch' = CASE creates -> [srvScratch EXCEPT ![Fresh] = "Untitled"]
                       [] op.kind = "delete" -> [srvScratch EXCEPT ![op.arg.id] = None]
                       [] op.kind = "rename" /\ srvScratch[op.arg.id] # None ->
                            [srvScratch EXCEPT ![op.arg.id] = op.arg.title]
                       [] OTHER -> srvScratch
    /\ UNCHANGED <<acts, missed, srvFiles, srvPlan, loaded, window, selection, dialogs, props>>

-----------------------------------------------------------------------------
(* Answers.                                                                 *)

\* A background load of the plan that fails keeps the plan; the others empty
\* what they load.
LoadedFiles(i) ==
  LET op == calls[i].op
      answer(empty) == IF ok(i) THEN calls[i].answer ELSE empty
  IN
  /\ accessed' = IF op.kind = "messages" THEN answer({}) ELSE accessed
  /\ edits' = IF op.kind = "edits" THEN answer({}) ELSE edits
  /\ plan' = IF op.kind = "plan" THEN answer(IF op.arg THEN plan ELSE None) ELSE plan
  /\ scratchFiles' = IF op.kind = "scratch" THEN answer({}) ELSE scratchFiles
  /\ Select(selectedPath, selectedScratchId, scratchFiles', treeAccesses(accessed', edits', window))
  /\ UNCHANGED dialogs

\* Mutant of AfterCreate: the new file is left to the next load.
AfterCreate_Unlisted(list, id) == list

\* What handleCreateScratch, handleRenameScratch and handleDeleteScratch make of the list.
AfterCreate(list, id) == list \cup {[id |-> id, title |-> "Untitled"]}
AfterRename(list, id, title) == {IF f.id = id THEN [f EXCEPT !.title = title] ELSE f : f \in list}
AfterDelete(list, id) == {f \in list : f.id # id}

Created(i) ==
  LET id == calls[i].answer IN
  /\ IF ok(i)
     THEN /\ scratchFiles' = AfterCreate(scratchFiles, id) /\ createScratchOpen' = FALSE
          /\ Select(None, id, scratchFiles', tree)
     ELSE UNCHANGED <<scratchFiles, selection, createScratchOpen>>
  /\ UNCHANGED <<accessed, edits, plan, deleteScratchId, markdownModal>>

Renamed(i) ==
  LET op == calls[i].op IN
  /\ scratchFiles' = IF ok(i) THEN AfterRename(scratchFiles, op.arg.id, op.arg.title)
                     ELSE scratchFiles
  /\ UNCHANGED <<accessed, edits, plan, selection, dialogs>>

\* handleDeleteScratch compares with what was selected at the click, not now;
\* whatever the outcome, the question is closed.
Deleted(i) ==
  LET op == calls[i].op IN
  /\ scratchFiles' = IF ok(i) THEN AfterDelete(scratchFiles, op.arg.id) ELSE scratchFiles
  /\ Select(selectedPath, IF ok(i) /\ op.arg.selected = op.arg.id THEN None ELSE selectedScratchId,
            scratchFiles', tree)
  /\ deleteScratchId' = None
  /\ UNCHANGED <<accessed, edits, plan, createScratchOpen, markdownModal>>

\* The effect on pinnedScratchId: the list first, then the file, unless another
\* was pinned since.
Pinned(i) ==
  LET id == calls[i].op.arg IN
  /\ scratchFiles' = IF ok(i) THEN calls[i].answer ELSE {}
  /\ IF pinnedScratchId = id
     THEN Select(None, id, scratchFiles', tree)
     ELSE Select(selectedPath, selectedScratchId, scratchFiles', tree)
  /\ UNCHANGED <<accessed, edits, plan, dialogs>>

\* handleOpenMarkdown shows the file that was selected at the click.
Opened(i) ==
  /\ markdownModal' = IF ok(i) THEN calls[i].op.arg ELSE markdownModal
  /\ UNCHANGED <<loaded, selection, createScratchOpen, deleteScratchId>>

FilesAnswer ==
  \E i \in ToAnswer :
    /\ CASE calls[i].op.kind = "create" -> Created(i)
         [] calls[i].op.kind = "rename" -> Renamed(i)
         [] calls[i].op.kind = "delete" -> Deleted(i)
         [] calls[i].op.kind = "pin"    -> Pinned(i)
         [] calls[i].op.kind = "open"   -> Opened(i)
         [] OTHER                       -> LoadedFiles(i)
    /\ missed' = (missed \/ ~ok(i)) /\ Answered(i, <<>>)
    /\ UNCHANGED <<faults, acts, srvFileVars, window, props>>

-----------------------------------------------------------------------------
(* The user, the timeline, the agent.                                       *)

filesRest == UNCHANGED <<faults, missed, srvFileVars, loaded>>

handleSelectFile ==
  /\ FileAct /\ \E p \in tree : Select(p, None, scratchFiles, tree)
  /\ UNCHANGED <<calls, window, dialogs, props>> /\ filesRest

handleSelectScratch ==
  /\ FileAct /\ \E f \in scratchFiles : Select(selectedPath, f.id, scratchFiles, tree)
  /\ UNCHANGED <<calls, window, dialogs, props>> /\ filesRest

\* The dialogs: opened, closed, and what they send; nothing stops a second click.
ScratchDialog ==
  /\ \/ /\ createScratchOpen' = ~createScratchOpen
        /\ UNCHANGED <<calls, acts, deleteScratchId, markdownModal>>
     \/ createScratchOpen /\ FileAct /\ Send(FileOp("create", None)) /\ UNCHANGED dialogs
     \/ /\ deleteScratchId' \in ({f.id : f \in scratchFiles} \cup {None})
                                \ {deleteScratchId}
        /\ UNCHANGED <<calls, acts, createScratchOpen, markdownModal>>
     \/ /\ deleteScratchId # None /\ FileAct /\ UNCHANGED dialogs
        /\ Send(FileOp("delete", [id |-> deleteScratchId, selected |-> selectedScratchId]))
     \/ markdownModal # None /\ markdownModal' = None
        /\ UNCHANGED <<calls, acts, createScratchOpen, deleteScratchId>>
  /\ UNCHANGED <<window, selection, props>> /\ filesRest

handleRenameScratch ==
  /\ FileAct
  /\ \E f \in scratchFiles : \E t \in Titles \ {f.title} :
       Send(FileOp("rename", [id |-> f.id, title |-> t]))
  /\ UNCHANGED <<window, selection, dialogs, props>> /\ filesRest

handleOpenMarkdown ==
  /\ FileAct /\ selectedPath # None /\ selectedScratchId = None /\ Send(FileOp("open", selectedPath))
  /\ UNCHANGED <<window, selection, dialogs, props>> /\ filesRest

\* The cursor or a selected span shows another part of the timeline.
Scrub ==
  /\ FileAct /\ window' \in {Files, {1}, {}} \ {window}
  /\ Select(selectedPath, selectedScratchId, scratchFiles, treeAccesses(accessed, edits, window'))
  /\ UNCHANGED <<calls, dialogs, props>> /\ filesRest

\* The routing effect: `scratch:<id>` selects the file, if it is listed by now.
Route ==
  /\ FileAct /\ activeTab' \in (ScratchIds \cup {None}) \ {activeTab}
  /\ IF activeTab' # None THEN Select(None, activeTab', scratchFiles, tree)
     ELSE UNCHANGED selection
  /\ UNCHANGED <<calls, window, dialogs, pinnedScratchId>> /\ filesRest

\* The server created a read-only file for a pinned message (useScratchFiles) and
\* App passes its id.
Pin ==
  /\ FileAct /\ Scratch # ScratchIds
  /\ srvScratch' = [srvScratch EXCEPT ![Fresh] = "Untitled"]
  /\ pinnedScratchId' = Fresh /\ Send(FileOp("pin", Fresh))
  /\ UNCHANGED <<faults, missed, srvFiles, srvPlan, loaded, window, selection, dialogs, activeTab>>

\* The agent touches a file and its plan; the page is told and reloads (Transcript
\* has the timers).
AgentWorks ==
  /\ FileAct
  /\ \E p \in Files : srvFiles' = srvFiles \cup {p}
  /\ srvPlan' = srvPlan + 1 /\ calls' = calls \o Sent(LoadAll(TRUE))
  /\ UNCHANGED <<faults, missed, srvScratch, loaded, window, selection, dialogs, props>>

FilesNext ==
  \/ ServeFiles \/ FilesAnswer
  \/ LoseRequest /\ UNCHANGED <<acts, missed, fileVars>>
  \/ handleSelectFile \/ handleSelectScratch \/ ScratchDialog \/ handleRenameScratch
  \/ handleOpenMarkdown \/ Scrub \/ Route \/ Pin \/ AgentWorks
=============================================================================
