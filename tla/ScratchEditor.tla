------------------------------ MODULE ScratchEditor ------------------------------
(***************************************************************************)
(* The editor of one scratch file (ScratchEditor): a visual and a source mode    *)
(* over one text, saved 800 ms after it last changed.  A text is a version and  *)
(* whether its Markdown is raw: what the visual mode holds is normalised.        *)
(***************************************************************************)
EXTENDS Requests

CONSTANT Retype    \* the user may come back to an earlier version of the text

VARIABLES
  srvText, srvTitle, srvMode,
  opened,          \* how often the file was opened; the editor is that mounting
  mounted, loading, readOnly,
  editorMode,      \* "wysiwyg" or "source"
  source, html,    \* sourceContent; what the visual editor holds
  lastSaved, originalTitle,
  timer,           \* the text the debounced save will send, or None
  saveStatus,
  versions         \* typed so far

editorVars == <<srvText, srvTitle, srvMode, opened, mounted, loading, readOnly, editorMode, source,
                html, lastSaved, originalTitle, timer, saveStatus, versions>>
srvEditorVars == <<srvText, srvTitle, srvMode>>
fileRefs == <<readOnly, lastSaved, originalTitle>>

Texts == [version : Nat, raw : BOOLEAN]
Headings == {"Untitled", "Pinned", "Heading", "Renamed"}
Answers == [text : Texts, title : Headings, mode : {"writable", "readonly"}]

ASSUME EditorAssumption ==
  Retype \in BOOLEAN /\ None \notin Texts /\ Waiting \notin Answers \cup {"done"}

Text(v, raw) == [version |-> v, raw |-> raw]
Blank == Text(0, FALSE)
Normal(text) == [text EXCEPT !.raw = FALSE]

EditorOp(kind, text, title) == [kind |-> kind, mounting |-> opened, text |-> text, title |-> title]

\* The title follows the first heading while the file has none of its own; odd
\* versions have a heading.
TitleFor(text) ==
  IF originalTitle # "Untitled" THEN originalTitle
  ELSE IF text.version % 2 = 1 THEN "Heading" ELSE "Untitled"

Shown == IF editorMode = "wysiwyg" THEN html ELSE source

EditorInit ==
  /\ srvText \in {Text(1, FALSE), Text(1, TRUE)} /\ srvTitle \in {"Untitled", "Pinned"}
  /\ srvMode \in {"writable", "readonly"}
  /\ opened = 1 /\ mounted = TRUE /\ loading = TRUE /\ readOnly = FALSE /\ editorMode = "wysiwyg"
  /\ source = Blank /\ html = Blank /\ lastSaved = Blank /\ originalTitle = "Untitled"
  /\ timer = None /\ saveStatus = "idle" /\ versions = 1

-----------------------------------------------------------------------------
(* The server.                                                              *)

ServeEditor ==
  \E i \in ToServe :
    LET op == calls[i].op IN
    /\ Serve(i, IF op.kind = "file" THEN [text |-> srvText, title |-> srvTitle, mode |-> srvMode]
                ELSE "done")
    /\ srvText' = IF op.kind = "save" THEN op.text ELSE srvText
    /\ srvTitle' = IF op.kind = "save" THEN op.title ELSE srvTitle
    /\ UNCHANGED <<acts, missed, srvMode, opened, mounted, loading, fileRefs, editorMode, source,
                   html, timer, saveStatus, versions>>

\* The file is renamed in the tree; the editor is not told.
RenameFile ==
  /\ Act /\ srvTitle # "Renamed" /\ srvTitle' = "Renamed"
  /\ UNCHANGED <<calls, faults, missed, srvText, srvMode, opened, mounted, loading, fileRefs,
                 editorMode, source, html, timer, saveStatus, versions>>

-----------------------------------------------------------------------------
(* The editor.                                                              *)

\* The autosave effects: each change of what is shown starts the wait again.
Rearmed(text, saved, ro) == IF ro \/ text = saved THEN None ELSE text

editorRest == UNCHANGED <<faults, missed, srvText, srvTitle, srvMode>>

Editable == mounted /\ ~loading /\ ~readOnly

\* onUpdate keeps the source in step with the visual editor, never the reverse.
Type ==
  /\ Act /\ Editable
  /\ \E v \in IF Retype THEN 1..(versions + 1) ELSE {versions + 1}, raw \in BOOLEAN :
       /\ source' = Text(v, raw /\ editorMode = "source") /\ source' # Shown
       /\ versions' = IF v > versions THEN v ELSE versions
  /\ html' = IF editorMode = "wysiwyg" THEN source' ELSE html
  /\ timer' = Rearmed(source', lastSaved, readOnly)
  /\ UNCHANGED <<calls, opened, mounted, loading, fileRefs, editorMode, saveStatus>> /\ editorRest

toggleMode ==
  /\ Act /\ Editable
  /\ IF editorMode = "wysiwyg"
     THEN editorMode' = "source" /\ source' = html /\ UNCHANGED html
     ELSE editorMode' = "wysiwyg" /\ html' = Normal(source) /\ UNCHANGED source
  /\ timer' = Rearmed(IF editorMode = "wysiwyg" THEN source' ELSE html', lastSaved, readOnly)
  /\ UNCHANGED <<calls, opened, mounted, loading, fileRefs, saveStatus, versions>> /\ editorRest

doSave ==
  /\ timer # None /\ timer' = None /\ saveStatus' = "saving"
  /\ Send(EditorOp("save", timer, TitleFor(timer)))
  /\ UNCHANGED <<acts, opened, mounted, loading, fileRefs, editorMode, source, html, versions>>
  /\ editorRest

\* loadFile, and the effect that fills the visual editor: Markdown that is not
\* normal differs from what was loaded, and is saved.  A load that fails leaves an
\* empty editor.
loadFile(i) ==
  LET file == calls[i].answer IN
  /\ loading' = FALSE
  /\ IF ok(i)
     THEN /\ source' = file.text /\ html' = Normal(file.text) /\ lastSaved' = file.text
          /\ originalTitle' = file.title /\ readOnly' = (file.mode = "readonly")
          /\ timer' = Rearmed(html', lastSaved', readOnly')
     ELSE UNCHANGED <<source, html, fileRefs, timer>>
  /\ UNCHANGED saveStatus

Saved(i) ==
  /\ lastSaved' = IF ok(i) THEN calls[i].op.text ELSE lastSaved
  /\ saveStatus' = IF ok(i) THEN "saved" ELSE "error"
  /\ UNCHANGED <<loading, source, html, originalTitle, readOnly, timer>>

EditorAnswer ==
  \E i \in ToAnswer :
    /\ IF calls[i].op.mounting # opened \/ ~mounted
       THEN UNCHANGED <<loading, source, html, fileRefs, timer, saveStatus>>
       ELSE IF calls[i].op.kind = "file" THEN loadFile(i) ELSE Saved(i)
    /\ missed' = (missed \/ ~ok(i)) /\ Answered(i, <<>>)
    /\ UNCHANGED <<acts, faults, srvEditorVars, opened, mounted, editorMode, versions>>

\* Another file is selected: the timer is cancelled with the editor.
CloseEditor ==
  /\ Act /\ mounted /\ mounted' = FALSE /\ timer' = None
  /\ UNCHANGED <<calls, opened, loading, fileRefs, editorMode, source, html, saveStatus, versions>>
  /\ editorRest

OpenEditor ==
  /\ Act /\ ~mounted /\ mounted' = TRUE /\ opened' = opened + 1 /\ loading' = TRUE /\ readOnly' = FALSE
  /\ editorMode' = "wysiwyg" /\ source' = Blank /\ html' = Blank /\ lastSaved' = Blank
  /\ originalTitle' = "Untitled" /\ timer' = None /\ saveStatus' = "idle"
  /\ Send([EditorOp("file", Blank, None) EXCEPT !.mounting = opened'])
  /\ UNCHANGED versions /\ editorRest

EditorNext ==
  \/ ServeEditor \/ RenameFile \/ Type \/ toggleMode \/ doSave \/ EditorAnswer \/ CloseEditor
  \/ OpenEditor
  \/ LoseRequest /\ UNCHANGED <<acts, missed, editorVars>>
=============================================================================
