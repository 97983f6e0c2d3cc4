-------------------------------- MODULE Prompts --------------------------------
(***************************************************************************)
(* PromptsPanel: the user's prompts, changed at once in the list and then on  *)
(* the server, reloaded when a change fails and when the server announces a   *)
(* change of this tab or another one.                                         *)
(***************************************************************************)
EXTENDS Requests

CONSTANT MaxPrompts   \* bound: prompts ever created

VARIABLES
  srvPrompts, born,       \* the server's table (a set of rows) and its last id
  announced,              \* "prompts-changed" events on their way
  prompts,                \* the list of the panel
  inputText, submitting,  \* the composer: something is typed; a create is under way
  awaitingPaste,          \* the next native paste creates a prompt
  clipboard,              \* submitting as handlePaste saw it, None when no read is pending
  editing, dragId

promptVars == <<srvPrompts, born, announced, prompts, inputText, submitting, awaitingPaste,
                clipboard, editing, dragId>>
composer == <<inputText, submitting, awaitingPaste, clipboard>>

Row(id, position) ==
  [id |-> id, status |-> "open", pinned |-> FALSE, position |-> position, text |-> "first"]

\* ORDER BY pinned DESC, position ASC.
View(rows) ==
  SetToSortSeq(rows, LAMBDA a, b :
    IF a.pinned # b.pinned THEN a.pinned
    ELSE a.position < b.position \/ (a.position = b.position /\ a.id < b.id))

open == SelectSeq(prompts, LAMBDA p : p.status = "open")
done == SelectSeq(prompts, LAMBDA p : p.status = "done")
PromptIds(rows) == [i \in DOMAIN rows |-> rows[i].id]

PromptInit ==
  /\ srvPrompts = {Row(1, 0), Row(2, 1)} /\ born = 2 /\ announced = 0
  /\ prompts = <<>> /\ inputText = FALSE /\ submitting = FALSE /\ awaitingPaste = FALSE
  /\ clipboard = None /\ editing = None /\ dragId = None

-----------------------------------------------------------------------------
(* What a change does to a row, to the table and to the list.               *)

Change(kind, id, value) == [kind |-> kind, id |-> id, value |-> value]
LoadPrompts == Change("prompts", None, None)
CountPrompts == Change("count", None, None)

Patch(p, op) ==
  IF op.kind = "reorder"
  THEN IF p.id \in Range(op.value)
       THEN [p EXCEPT !.position = (CHOOSE i \in DOMAIN op.value : op.value[i] = p.id) - 1] ELSE p
  ELSE IF p.id # op.id THEN p
  ELSE CASE op.kind = "status" -> [p EXCEPT !.status = op.value]
         [] op.kind = "pinned" -> [p EXCEPT !.pinned = op.value]
         [] op.kind = "text"   -> [p EXCEPT !.text = op.value]

\* A new prompt goes before all others.
created == Row(born + 1, IF srvPrompts = {} THEN 0
                         ELSE (CHOOSE m \in {p.position : p \in srvPrompts} :
                                 \A p \in srvPrompts : m <= p.position) - 1)

Stored(op) ==
  CASE op.kind = "create" -> srvPrompts \cup {created}
    [] op.kind = "delete" -> {p \in srvPrompts : p.id # op.id}
    [] OTHER              -> {Patch(p, op) : p \in srvPrompts}

Edited(op) ==
  IF op.kind = "delete" THEN SelectSeq(prompts, LAMBDA p : p.id # op.id)
  ELSE [i \in DOMAIN prompts |-> Patch(prompts[i], op)]

-----------------------------------------------------------------------------
(* The server.                                                              *)

IsChange(op) == op.kind \notin {"prompts", "count"}

ServePrompt ==
  \E i \in ToServe :
    LET op == calls[i].op IN
    /\ Serve(i, CASE op.kind = "prompts" -> View(srvPrompts)
                  [] op.kind = "create"  -> created
                  [] OTHER               -> "done")
    /\ IF IsChange(op)
       THEN srvPrompts' = Stored(op) /\ announced' = announced + 1
            /\ born' = IF op.kind = "create" THEN born + 1 ELSE born
       ELSE UNCHANGED <<srvPrompts, announced, born>>
    /\ UNCHANGED <<acts, missed, prompts, composer, editing, dragId>>

\* Another tab changes a row.
OtherTabChange ==
  /\ Act
  /\ \E p \in srvPrompts, kind \in {"status", "delete"} :
       srvPrompts' = Stored(Change(kind, p.id, "done"))
  /\ announced' = announced + 1
  /\ UNCHANGED <<calls, faults, missed, born, prompts, composer, editing, dragId>>

\* App counts the open prompts on the event; only then the panel reloads.
PromptsChanged ==
  /\ announced > 0 /\ announced' = announced - 1
  /\ Send(CountPrompts)
  /\ UNCHANGED <<faults, acts, missed, srvPrompts, born, prompts, composer, editing, dragId>>

-----------------------------------------------------------------------------
(* Answers.                                                                 *)

\* Mutant of AfterChange: no reload.
AfterChange_Nothing(op, succeeded) == <<>>

AfterChange(op, succeeded) == IF succeeded THEN <<>> ELSE <<LoadPrompts>>

PromptAnswer ==
  \E i \in ToAnswer :
    LET op == calls[i].op IN
    /\ CASE op.kind = "prompts" ->
              /\ prompts' = IF ok(i) THEN calls[i].answer ELSE prompts
              /\ missed' = ~ok(i) /\ Answered(i, <<>>) /\ UNCHANGED composer
         [] op.kind = "count" ->
              /\ missed' = (missed \/ ~ok(i))
              /\ Answered(i, IF ok(i) THEN <<LoadPrompts>> ELSE <<>>)
              /\ UNCHANGED <<prompts, composer>>
         [] op.kind = "create" ->
              /\ prompts' = IF ok(i) THEN <<calls[i].answer>> \o prompts ELSE prompts
              /\ inputText' = IF ok(i) THEN FALSE ELSE inputText
              /\ submitting' = FALSE /\ Answered(i, <<>>)
              /\ UNCHANGED <<missed, awaitingPaste, clipboard>>
         [] OTHER ->
              /\ Answered(i, AfterChange(op, ok(i)))
              /\ UNCHANGED <<prompts, missed, composer>>
    /\ UNCHANGED <<faults, acts, srvPrompts, born, announced, editing, dragId>>

-----------------------------------------------------------------------------
(* The composer.                                                            *)

quiet == UNCHANGED <<faults, missed, srvPrompts, born, announced, editing, dragId>>

\* handleCreate, called with text, by a closure that saw `busy`.
handleCreate(busy) ==
  /\ ~busy
  /\ born + Cardinality({i \in DOMAIN calls : calls[i].op.kind = "create"}) < MaxPrompts
  /\ awaitingPaste' = FALSE /\ submitting' = TRUE
  /\ Send(Change("create", None, None))

Type == /\ Act /\ inputText' = TRUE /\ awaitingPaste' = FALSE
        /\ UNCHANGED <<calls, prompts, submitting, clipboard>> /\ quiet

EnterPrompt == /\ inputText /\ handleCreate(submitting) /\ Act
         /\ UNCHANGED <<prompts, inputText, clipboard>> /\ quiet

\* handlePaste reads the clipboard; when it cannot, the next paste is awaited.
handlePaste == /\ Act /\ clipboard = None /\ clipboard' = submitting
               /\ UNCHANGED <<calls, prompts, inputText, submitting, awaitingPaste>> /\ quiet

ClipboardRead ==
  /\ clipboard # None /\ clipboard' = None
  /\ \/ handleCreate(clipboard)
     \/ clipboard /\ UNCHANGED <<calls, submitting, awaitingPaste>>
     \/ awaitingPaste' = TRUE /\ UNCHANGED <<calls, submitting>>
  /\ UNCHANGED <<acts, prompts, inputText>> /\ quiet

handleComposerPaste ==
  /\ awaitingPaste /\ Act
  /\ \/ handleCreate(submitting)
     \/ submitting /\ awaitingPaste' = FALSE /\ UNCHANGED <<calls, submitting>>
  /\ UNCHANGED <<prompts, inputText, clipboard>> /\ quiet

-----------------------------------------------------------------------------
(* The rows.                                                                *)

\* The controls a row shows: a done row only reopens and deletes.
Offered(p) ==
  {Change("status", p.id, IF p.status = "open" THEN "done" ELSE "open"),
   Change("delete", p.id, None)}
  \cup IF p.status = "open" /\ editing # p.id THEN {Change("pinned", p.id, ~p.pinned)} ELSE {}

\* handleToggleDone, handleTogglePin, handleDelete.
RowAction ==
  /\ Act
  /\ \E p \in Range(prompts) : \E op \in Offered(p) : prompts' = Edited(op) /\ Send(op)
  /\ UNCHANGED <<faults, missed, srvPrompts, born, announced, composer, editing, dragId>>

\* An edit and a drag are one act each, counted when they begin.
handleStartEdit ==
  /\ Act
  /\ \E p \in Range(open) : editing' = p.id
  /\ UNCHANGED <<calls, faults, missed, srvPrompts, born, announced, prompts, composer, dragId>>

handleSaveEdit ==
  /\ editing # None
  /\ \/ LET op == Change("text", editing, "second") IN prompts' = Edited(op) /\ Send(op)
     \/ UNCHANGED <<calls, prompts>>
  /\ editing' = None
  /\ UNCHANGED <<faults, acts, missed, srvPrompts, born, announced, composer, dragId>>

DragStart ==
  /\ Act /\ dragId = None
  /\ \E p \in Range(open) : p.id # editing /\ dragId' = p.id
  /\ UNCHANGED <<calls, faults, missed, srvPrompts, born, announced, prompts, composer, editing>>

\* Moves the dragged row to the place of the target among the open ones; a row
\* that has gone meanwhile is not moved.  Or the drag ends elsewhere.
Moved(from, to) ==
  LET rest == RemoveAt(open, from) IN InsertAt(rest, to, open[from])

handleDrop ==
  /\ dragId # None /\ dragId' = None
  /\ \/ \E from, to \in DOMAIN open :
          LET rows == Moved(from, to) IN
          /\ from # to /\ open[from].id = dragId
          /\ prompts' = [i \in DOMAIN rows |-> [rows[i] EXCEPT !.position = i - 1]] \o done
          /\ Send(Change("reorder", None, PromptIds(rows)))
     \/ UNCHANGED <<calls, prompts>>
  /\ UNCHANGED <<faults, acts, missed, srvPrompts, born, announced, composer, editing>>

PromptNext ==
  \/ ServePrompt \/ OtherTabChange \/ PromptsChanged \/ PromptAnswer
  \/ LoseRequest /\ UNCHANGED <<acts, missed, promptVars>>
  \/ Type \/ EnterPrompt \/ handlePaste \/ ClipboardRead \/ handleComposerPaste
  \/ RowAction \/ handleStartEdit \/ handleSaveEdit \/ DragStart \/ handleDrop
=============================================================================
