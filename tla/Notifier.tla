------------------------------- MODULE Notifier ------------------------------
(***************************************************************************)
(* The notifier (internal/server/notifier.go, internal/notify/notify.go),  *)
(* the tables it keeps (notifications and notification_state, store.go)    *)
(* and the handlers that change its settings and its tables (server.go).   *)
(*                                                                         *)
(* ClassifyChanges runs in the pass, one at a time (RefreshPipeline proves *)
(* it), so a pass is the only one to move the seen cursors.  Every message *)
(* of the model asks a question, of a kind that the settings enable; its   *)
(* id is its dedup key.  `now` counts how often notifications have been    *)
(* enabled, from 1: a message carries the count at which it was written,   *)
(* or NoTime if its agent does not say.  A pass is named the sessions that *)
(* changed since the last one; that a liveness pass may absorb a change,   *)
(* or name a session for its status alone, is RefreshPipeline's matter.    *)
(***************************************************************************)
EXTENDS Integers, FiniteSets, SequencesExt

CONSTANTS
  Ids,        \* sessions
  Cap,        \* sessions classified per pass (50 in the code)
  Keep,       \* notifications kept by a prune (500 in the code)
  Scopes,     \* scopes a user may choose, of "all" and "opened"
  MaxMsgs,    \* bound: messages written
  MaxActs,    \* bound: what the user does (save settings, open a session, clear)
  MaxTrouble  \* bound: failed calls, restarts, message lists cut short

ASSUME NotifierAssumption ==
  /\ IsFiniteSet(Ids) /\ Ids # {}
  /\ Cap \in Nat /\ Keep \in Nat \ {0}
  /\ Scopes \subseteq {"all", "opened"} /\ Scopes # {}
  /\ MaxMsgs \in Nat /\ MaxActs \in Nat /\ MaxTrouble \in Nat

VARIABLES
  msgs,     \* msgs[i]: the session's messages, as its adapter reads them
  changed,  \* changed[i]: the next full pass will name i as changed
  now,      \* times that notifications have been enabled
  settings, \* the settings row of the config table
  opened,   \* opened[i]: first_viewed_at is set
  viewed,   \* viewed[i]: activeViews has a report of the last five minutes
  seen,     \* seen[i]: last_seen_message_count
  notes,    \* the notifications table, oldest first
  pass,     \* the locals of ClassifyChanges
  emitted,  \* history: emitted[k] counts the events sent for message k
  over,     \* history: messages that a pass has read and gone past
  deleted,  \* history: messages whose notification was cleared or pruned
  written, acts, cuts, faults, crashes

userVars == <<now, settings, opened, viewed>>
tableVars == <<seen, notes>>
histVars == <<emitted, over, deleted>>
bounds == <<written, acts, cuts, faults, crashes>>
vars == <<msgs, changed, userVars, tableVars, pass, histVars, bounds>>

-----------------------------------------------------------------------------
(* Types *)

Key == 1 .. MaxMsgs
NoTime == 0

DefaultSettings == [enabled |-> FALSE, since |-> 0, scope |-> CHOOSE s \in Scopes : TRUE]

RestingPass ==
  [at |-> "idle", skip |-> {}, todo |-> {}, settings |-> DefaultSettings,
   id |-> CHOOSE i \in Ids : TRUE, read |-> <<>>, cands |-> {}, any |-> FALSE]

Init ==
  /\ msgs = [i \in Ids |-> <<>>]
  /\ changed = [i \in Ids |-> TRUE]
  /\ now = 1
  /\ settings = DefaultSettings
  /\ opened = [i \in Ids |-> FALSE]
  /\ viewed = [i \in Ids |-> FALSE]
  /\ seen = [i \in Ids |-> 0]
  /\ notes = <<>>
  /\ pass = RestingPass
  /\ emitted = [k \in Key |-> 0]
  /\ over = {} /\ deleted = {}
  /\ written = 0 /\ acts = 0 /\ cuts = 0 /\ faults = 0 /\ crashes = 0

Trouble == cuts + faults + crashes < MaxTrouble
Fault == Trouble /\ faults' = faults + 1
UserActs == acts < MaxActs /\ acts' = acts + 1

KeysOf(list) == {list[k].key : k \in DOMAIN list}

-----------------------------------------------------------------------------
(* The agents *)

AgentAsks(i) ==
  /\ written < MaxMsgs
  /\ written' = written + 1
  /\ \E time \in {NoTime, now} :
       msgs' = [msgs EXCEPT ![i] = Append(@, [key |-> written + 1, time |-> time])]
  /\ changed' = [changed EXCEPT ![i] = TRUE]
  /\ UNCHANGED <<userVars, tableVars, pass, histVars, acts, cuts, faults, crashes>>

\* The agent takes its last message back (an undo, a fork, a compaction).
AgentCuts(i) ==
  /\ msgs[i] # <<>>
  /\ Trouble
  /\ cuts' = cuts + 1
  /\ msgs' = [msgs EXCEPT ![i] = Front(@)]
  /\ changed' = [changed EXCEPT ![i] = TRUE]
  /\ UNCHANGED <<userVars, tableVars, pass, histVars, written, acts, faults, crashes>>

-----------------------------------------------------------------------------
(* The user *)

\* PUT /notifications/settings, with the stamp of ResolveEnabledAt.
SaveSettings(enabled, scope) ==
  LET fresh == enabled /\ (~settings.enabled \/ settings.since = 0) IN
  /\ UserActs
  /\ now' = IF fresh THEN now + 1 ELSE now
  /\ settings' = [enabled |-> enabled, scope |-> scope,
                  since |-> IF fresh THEN now' ELSE IF enabled THEN settings.since ELSE 0]
  /\ UNCHANGED <<msgs, changed, opened, viewed, tableVars, pass, histVars,
                 written, cuts, faults, crashes>>

\* POST /notifications/active-view, and the end of the five minutes.
View(i) ==
  /\ ~viewed[i]
  /\ UserActs
  /\ viewed' = [viewed EXCEPT ![i] = TRUE]
  /\ opened' = [opened EXCEPT ![i] = TRUE]
  /\ UNCHANGED <<msgs, changed, now, settings, tableVars, pass, histVars,
                 written, cuts, faults, crashes>>

ViewExpires(i) ==
  /\ viewed[i]
  /\ viewed' = [viewed EXCEPT ![i] = FALSE]
  /\ UNCHANGED <<msgs, changed, now, settings, opened, tableVars, pass, histVars, bounds>>

\* DELETE /notifications.
ClearNotifications ==
  /\ notes # <<>>
  /\ UserActs
  /\ deleted' = deleted \union ToSet(notes)
  /\ notes' = <<>>
  /\ UNCHANGED <<msgs, changed, userVars, seen, pass, emitted, over,
                 written, cuts, faults, crashes>>

-----------------------------------------------------------------------------
(* ClassifyChanges *)

\* A full pass comes to its classification with the changed sessions.  They are
\* all skipped if notifications are off, else those beyond the cap are.
Begin ==
  LET ids == {i \in Ids : changed[i]} IN
  /\ pass.at = "idle"
  /\ ids # {}
  /\ \E some \in SUBSET ids :
       /\ IF settings.enabled
            THEN Cardinality(some) = (IF Cardinality(ids) > Cap THEN Cap ELSE Cardinality(ids))
            ELSE some = {}
       /\ pass' = [RestingPass EXCEPT !.at = "session", !.skip = ids \ some, !.todo = some,
                                      !.settings = settings]
  /\ changed' = [i \in Ids |-> FALSE]
  /\ UNCHANGED <<msgs, userVars, tableVars, emitted, over, deleted, bounds>>

\* Mutant of AdvanceSeenCursor: the cursor moves only while notifications are on.
AdvanceSeenCursor_IfEnabled(i) ==
  /\ seen' = [seen EXCEPT ![i] = IF settings.enabled THEN Len(msgs[i]) ELSE @]
  /\ over' = over \union KeysOf(msgs[i])

\* AdvanceSeenCursor: the messages there are now count as seen.
AdvanceSeenCursor(i) ==
  /\ seen' = [seen EXCEPT ![i] = Len(msgs[i])]
  /\ over' = over \union KeysOf(msgs[i])

Skip(i) ==
  /\ pass.at = "session"
  /\ i \in pass.skip
  /\ \/ AdvanceSeenCursor(i) /\ UNCHANGED faults
     \/ Fault /\ UNCHANGED <<seen, over>>
  /\ pass' = [pass EXCEPT !.skip = @ \ {i}]
  /\ UNCHANGED <<msgs, changed, userVars, notes, emitted, deleted,
                 written, acts, cuts, crashes>>

InScope(i) == pass.settings.scope = "opened" => opened[i]

\* Out of scope: only the cursor moves.
OutOfScope(i) ==
  /\ pass.at = "session"
  /\ pass.skip = {} /\ i \in pass.todo
  /\ ~InScope(i)
  /\ AdvanceSeenCursor(i)
  /\ pass' = [pass EXCEPT !.todo = @ \ {i}]
  /\ UNCHANGED <<msgs, changed, userVars, notes, emitted, deleted, bounds>>

\* notify.Classify: the places of what is beyond the cursor and not older than the
\* enabling.
Suppresses(s, m) == m.time # NoTime /\ s.since > 0 /\ m.time < s.since
Classify(list, from, s) ==
  {n \in DOMAIN list : n > from /\ ~Suppresses(s, list[n])}

\* In scope: read the messages and the cursor, and classify; a session that is
\* being viewed gets no candidates.
ReadSession(i) ==
  /\ pass.at = "session"
  /\ pass.skip = {} /\ i \in pass.todo
  /\ InScope(i)
  /\ pass' = [pass EXCEPT !.at = "insert", !.todo = @ \ {i}, !.id = i,
                          !.read = msgs[i],
                          !.cands = IF viewed[i] THEN {}
                                    ELSE Classify(msgs[i], seen[i], pass.settings)]
  /\ UNCHANGED <<msgs, changed, userVars, tableVars, histVars, bounds>>

\* The session, its messages or its state cannot be read: it is left as it is.
ReadFails(i) ==
  /\ pass.at = "session"
  /\ pass.skip = {} /\ i \in pass.todo
  /\ Fault
  /\ pass' = [pass EXCEPT !.todo = @ \ {i}]
  /\ UNCHANGED <<msgs, changed, userVars, tableVars, histVars,
                 written, acts, cuts, crashes>>

\* The candidates are taken in the order of the messages.
NextCandidate(n) == n \in pass.cands /\ \A other \in pass.cands : n <= other

\* InsertNotification; a key that is in the table already is passed over.
Insert(n) ==
  LET key == pass.read[n].key IN
  /\ pass.at = "insert"
  /\ NextCandidate(n)
  /\ IF key \in ToSet(notes)
       THEN pass' = [pass EXCEPT !.cands = @ \ {n}] /\ UNCHANGED notes
       ELSE /\ notes' = Append(notes, key)
            /\ pass' = [pass EXCEPT !.at = "emit", !.any = TRUE]
  /\ UNCHANGED <<msgs, changed, userVars, seen, histVars, bounds>>

\* The insertion fails: this candidate is lost.
InsertFails(n) ==
  /\ pass.at = "insert"
  /\ NextCandidate(n)
  /\ Fault
  /\ pass' = [pass EXCEPT !.cands = @ \ {n}]
  /\ UNCHANGED <<msgs, changed, userVars, tableVars, histVars,
                 written, acts, cuts, crashes>>

Emit(n) ==
  /\ pass.at = "emit"
  /\ NextCandidate(n)
  /\ emitted' = [emitted EXCEPT ![pass.read[n].key] = @ + 1]
  /\ pass' = [pass EXCEPT !.at = "insert", !.cands = @ \ {n}]
  /\ UNCHANGED <<msgs, changed, userVars, tableVars, over, deleted, bounds>>

\* Mutants of FinishSession: the cursor goes to where the list ends by now; it
\* goes one too far.
FinishSession_ToTheEnd ==
  /\ pass.at = "insert"
  /\ pass.cands = {}
  /\ seen' = [seen EXCEPT ![pass.id] = Len(msgs[pass.id])]
  /\ over' = over \union KeysOf(pass.read)
  /\ pass' = [pass EXCEPT !.at = "session", !.id = RestingPass.id, !.read = <<>>]
  /\ UNCHANGED <<msgs, changed, userVars, notes, emitted, deleted, bounds>>

\* advanceCursor, to the end of the list that was classified.
FinishSession ==
  /\ pass.at = "insert"
  /\ pass.cands = {}
  /\ \/ /\ seen' = [seen EXCEPT ![pass.id] = Len(pass.read)]
        /\ UNCHANGED faults
     \/ Fault /\ UNCHANGED seen
  /\ over' = IF seen'[pass.id] = Len(pass.read) THEN over \union KeysOf(pass.read) ELSE over
  /\ pass' = [pass EXCEPT !.at = "session", !.id = RestingPass.id, !.read = <<>>]
  /\ UNCHANGED <<msgs, changed, userVars, notes, emitted, deleted,
                 written, acts, cuts, crashes>>

\* PruneNotifications, if anything was emitted.
End ==
  LET kept == SubSeq(notes, Len(notes) - Keep + 1, Len(notes)) IN
  /\ pass.at = "session"
  /\ pass.skip = {} /\ pass.todo = {}
  /\ notes' = IF pass.any /\ Len(notes) > Keep THEN kept ELSE notes
  /\ deleted' = deleted \union (ToSet(notes) \ ToSet(notes'))
  /\ pass' = RestingPass
  /\ UNCHANGED <<msgs, changed, userVars, seen, emitted, over, bounds>>

-----------------------------------------------------------------------------
(* The system *)

\* The process dies and starts again: to the boot pass every session is new.
Crash ==
  /\ Trouble
  /\ crashes' = crashes + 1
  /\ pass' = RestingPass
  /\ viewed' = [i \in Ids |-> FALSE]
  /\ changed' = [i \in Ids |-> TRUE]
  /\ UNCHANGED <<msgs, now, settings, opened, tableVars, histVars,
                 written, acts, cuts, faults>>

PassStep ==
  \/ Begin
  \/ \E i \in Ids : Skip(i) \/ OutOfScope(i) \/ ReadSession(i) \/ ReadFails(i)
  \/ \E n \in pass.cands : Insert(n) \/ InsertFails(n) \/ Emit(n)
  \/ FinishSession \/ End

Next ==
  \/ \E i \in Ids : AgentAsks(i) \/ AgentCuts(i) \/ View(i) \/ ViewExpires(i)
  \/ \E enabled \in BOOLEAN, scope \in Scopes : SaveSettings(enabled, scope)
  \/ ClearNotifications
  \/ PassStep
  \/ Crash

\* A pass comes when a session has changed, and runs to its end.
Spec == Init /\ [][Next]_vars /\ WF_vars(PassStep)

-----------------------------------------------------------------------------
(* Properties *)

\* A question is announced once, across restarts and re-reads, as long as its
\* notification stands ("Re-seeing the same event never creates a second row",
\* docs/NOTIFICATIONS.md).
AnnouncedOnce == \A k \in Key : emitted[k] > 1 => k \in deleted

\* A message that a pass has gone past is never announced later, whatever the
\* user turns on and off, and whether or not it carries a time: "re-enabling
\* notifications never replays a backlog".
NoBacklog == [][\A k \in over : emitted'[k] = emitted[k]]_vars

\* Never twice, never late.
AnnouncedInTime == []AnnouncedOnce /\ NoBacklog

\* The notification of a question that no pass has read yet comes in the end,
\* crashes or not, unless the user turns notifications off or looks on, the
\* session is beyond the cap, the agent takes messages back, or a call fails
\* (notifier.go, ClassifyChanges).
Waiting(i, k) ==
  /\ pass.at = "idle"
  /\ k \notin over
  /\ \E m \in ToSet(msgs[i]) : m.key = k /\ ~Suppresses(settings, m)
Excused(i) ==
  \/ ~settings.enabled \/ settings.scope # "all" \/ viewed[i]
  \/ i \in pass.skip
  \/ cuts > 0 \/ faults > 0
QuestionIsNotified ==
  \A i \in Ids, k \in Key :
    Waiting(i, k) ~> (k \in ToSet(notes) \/ k \in deleted \/ Excused(i))
=============================================================================
