------------------------------- MODULE Transcript -------------------------------
(***************************************************************************)
(* How CinematicSessionView gets the messages it shows: the load with its     *)
(* abort, the three things that repeat it (a flagged change, a moved session  *)
(* row, the 5 s poll of an active session), and the jump that waits for a     *)
(* message.  A transcript is its version; version 0 has no messages.          *)
(***************************************************************************)
EXTENDS Integers, Sequences, FiniteSets, SequencesExt

CONSTANTS
  None, Waiting, Failed,
  Content,        \* [0..MaxVersion -> sequence of messages]
  Targets,        \* message ids a jump can name
  MaxVersion,     \* bound: versions of the transcript
  MaxGrowth,      \* bound: versions while the loads are followed step by step
  MaxFaults,      \* bound: loads that fail, and changes of other sessions
  MaxJumps,       \* bound: jumps
  PollsOvertake   \* TRUE: the first load may take longer than the poll interval

ASSUME TranscriptAssumption ==
  /\ MaxVersion \in Nat \ {0} /\ MaxGrowth \in 0..MaxVersion /\ MaxFaults \in Nat /\ MaxJumps \in Nat /\ PollsOvertake \in BOOLEAN
  /\ Content[0] = <<>> /\ \A v \in 1..MaxVersion : Content[v] # <<>>

\* A transcript is a sequence of messages; only an answer calls tools.
ASSUME ContentAssumption ==
  \A v \in 0..MaxVersion :
    /\ Content[v] \in Seq(Range(Content[v]))
    /\ \A i \in DOMAIN Content[v] :
         /\ Content[v][i].tools \in Seq(STRING)
         /\ Content[v][i].tools # <<>> => Content[v][i].role = "assistant"

VARIABLES
  srv,                     \* the version the server has
  toFlag,                  \* a session-changed event is on its way
  row, active,             \* the session's row as the page knows it: version, status
  flagged,                 \* liveChangedIds has the session
  tick, tickTimer,         \* lastSessionTickRef; the 300 ms timer of its effect
  calls, loading, shown,   \* loadMessages
  focus, landed,           \* the jump's target; the drawer has scrolled to it
  faults, jumps            \* bounds

transcriptVars == <<srv, toFlag, row, active, flagged, tick, tickTimer,
                    calls, loading, shown, focus, landed, faults, jumps>>

messages == Content[shown]
Has(v, id) == \E i \in DOMAIN Content[v] : Content[v][i].id = id

NewCall(background) == [bg |-> background, live |-> TRUE, reply |-> Waiting]

TranscriptInit ==
  /\ srv \in 0..1 /\ toFlag = FALSE /\ row = srv /\ active \in BOOLEAN /\ flagged = FALSE
  /\ tick = row /\ tickTimer = FALSE
  /\ calls = <<NewCall(FALSE)>> /\ loading = TRUE /\ shown = 0
  /\ focus = None /\ landed = FALSE /\ faults = 0 /\ jumps = 0

-----------------------------------------------------------------------------
(* Effects.  They run after every render whose dependencies changed, before   *)
(* anything else happens.                                                     *)

\* The effect on the session's row: an idle session only remembers it; a moved
\* row arms the timer unless the first load or a flagged change will do.  Any
\* other change of a dependency disarms a timer that is set.
TickEffect(otherSet) ==
  LET same == /\ row' = row /\ active' = active /\ flagged' = flagged /\ ~otherSet
              /\ loading' = loading /\ Len(Content[shown']) = Len(messages)
  IN IF same THEN UNCHANGED <<tick, tickTimer>>
     ELSE /\ tick' = row'
          /\ tickTimer' = (/\ active' /\ row' # tick /\ ~flagged'
                           /\ ~(Content[shown'] = <<>> /\ loading'))

\* Mutant of JumpEffect: a stale target stays.
JumpEffect_Kept(f) == focus' = f

\* useCinematicSearchJump: a target that the loaded messages do not have is stale.
JumpEffect(f) ==
  LET stale == f # None /\ ~loading' /\ Content[shown'] # <<>> /\ ~Has(shown', f)
  IN focus' = IF stale THEN None ELSE f

\* Mutant of StartLoad: the load under way is not aborted.
StartLoad_NoAbort(bg) ==
  calls' = Append(SubSeq(calls, IF calls = <<>> THEN 1 ELSE Len(calls), Len(calls)), NewCall(bg))

\* loadMessages aborts the load under way; of what was aborted before, nothing is
\* left.  The aborted one may have its answer already.
StartLoad(bg) ==
  LET dead == [i \in DOMAIN calls |-> [calls[i] EXCEPT !.live = FALSE]]
  IN calls' = Append(SubSeq(dead, IF calls = <<>> THEN 1 ELSE Len(calls), Len(calls)), NewCall(bg))

-----------------------------------------------------------------------------
(* The server and the page's other hooks.                                     *)

TranscriptGrows ==
  /\ srv < MaxGrowth /\ srv' = srv + 1 /\ toFlag' = TRUE
  /\ UNCHANGED <<row, active, flagged, tick, tickTimer, calls, loading, shown, focus, landed, faults, jumps>>

\* The session list is loaded again: the row moves, the status may change.
RowArrives ==
  /\ row # srv /\ row' = srv /\ active' \in BOOLEAN
  /\ UNCHANGED <<srv, toFlag, flagged, calls, loading, shown, focus, landed, faults, jumps>>
  /\ TickEffect(FALSE)

\* onSessionChanged replaces the set: with this session, or with others only.
FlagArrives ==
  /\ toFlag /\ toFlag' = FALSE /\ flagged' = TRUE
  /\ UNCHANGED <<srv, row, active, calls, loading, shown, focus, landed, faults, jumps>>
  /\ TickEffect(FALSE)

OthersChange ==
  /\ faults < MaxFaults /\ faults' = faults + 1
  /\ flagged' = FALSE
  /\ UNCHANGED <<srv, toFlag, row, active, calls, loading, shown, focus, landed, jumps>>
  /\ TickEffect(TRUE)

-----------------------------------------------------------------------------
(* What starts a load.                                                        *)

\* Mutant of LiveFires: a change that comes during a load is dropped.
LiveFires_Dropped ==
  /\ flagged /\ ~(messages = <<>> /\ loading) /\ flagged' = FALSE
  /\ IF \E i \in DOMAIN calls : calls[i].live THEN UNCHANGED calls ELSE StartLoad(TRUE)
  /\ UNCHANGED <<srv, toFlag, row, active, loading, shown, focus, landed, faults, jumps>>
  /\ TickEffect(FALSE)

\* The live-change effect's timer, set while the session is flagged unless the
\* first load is still under way: it acknowledges the change and loads.
LiveFires ==
  /\ flagged /\ ~(messages = <<>> /\ loading)
  /\ flagged' = FALSE /\ StartLoad(TRUE)
  /\ UNCHANGED <<srv, toFlag, row, active, loading, shown, focus, landed, faults, jumps>>
  /\ TickEffect(FALSE)

TickFires ==
  /\ tickTimer /\ tickTimer' = FALSE /\ StartLoad(TRUE)
  /\ UNCHANGED <<srv, toFlag, row, active, flagged, tick, loading, shown, focus, landed, faults, jumps>>

FirstLoadUnderWay == \E i \in DOMAIN calls : calls[i].live /\ ~calls[i].bg

PollFires ==
  /\ active /\ (PollsOvertake \/ ~FirstLoadUnderWay)
  /\ StartLoad(TRUE)
  /\ UNCHANGED <<srv, toFlag, row, active, flagged, tick, tickTimer, loading, shown, focus, landed, faults, jumps>>

-----------------------------------------------------------------------------
(* Answers.                                                                   *)

ServeLoad(i) ==
  /\ calls[i].reply = Waiting
  /\ calls' = [calls EXCEPT ![i].reply = srv]
  /\ UNCHANGED <<srv, toFlag, row, active, flagged, tick, tickTimer, loading, shown, focus, landed, faults, jumps>>

FailLoad ==
  \E i \in DOMAIN calls :
    /\ calls[i].reply # Failed /\ faults < MaxFaults /\ faults' = faults + 1
    /\ calls' = [calls EXCEPT ![i].reply = Failed]
    /\ UNCHANGED <<srv, toFlag, row, active, flagged, tick, tickTimer, loading, shown, focus, landed, jumps>>

\* The rest of loadMessages: a superseded load changes nothing, a failed one
\* empties the list, and only the first kind of load ends `loading`.
LoadAnswer(i) ==
  /\ calls[i].reply # Waiting /\ calls' = RemoveAt(calls, i)
  /\ UNCHANGED <<srv, toFlag, row, active, flagged, faults, jumps>>
  /\ IF ~calls[i].live
     THEN UNCHANGED <<shown, loading, tick, tickTimer, focus, landed>>
     ELSE /\ shown' = IF calls[i].reply = Failed THEN 0 ELSE calls[i].reply
          /\ loading' = (loading /\ calls[i].bg)
          /\ TickEffect(FALSE) /\ JumpEffect(focus)
          /\ landed' = (landed /\ focus' # None /\ Has(shown', focus'))

-----------------------------------------------------------------------------
(* Jumps.  A new jump replaces the one before; the drawer lands it once when   *)
(* the message is shown; moving the timeline releases it (Timeline).          *)

JumpTo(m) ==
  /\ jumps < MaxJumps /\ jumps' = jumps + 1
  /\ landed' = FALSE
  /\ UNCHANGED <<srv, toFlag, row, active, flagged, tick, tickTimer, calls, loading, shown, faults>>
  /\ JumpEffect(m)

Land ==
  /\ focus # None /\ ~landed /\ Has(shown, focus) /\ landed' = TRUE
  /\ UNCHANGED <<srv, toFlag, row, active, flagged, tick, tickTimer, calls, loading, shown, focus, faults, jumps>>

Loads == \/ TranscriptGrows \/ RowArrives \/ FlagArrives \/ OthersChange
         \/ LiveFires \/ TickFires \/ PollFires \/ FailLoad
         \/ (\E i \in DOMAIN calls : ServeLoad(i) \/ LoadAnswer(i))
         \/ (\E m \in Targets : JumpTo(m)) \/ Land
=============================================================================
