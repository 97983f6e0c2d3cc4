-------------------------------- MODULE Timeline --------------------------------
(***************************************************************************)
(* The timeline of a session: the events of its messages, the cursor that     *)
(* follows them while it is at the end, playback, scrubbing, and the turns    *)
(* selected in the scrubber (useTimeline, TimelineScrubber and the handlers   *)
(* of CinematicSessionView).  Event indexes start at 0, as in the code.       *)
(***************************************************************************)
EXTENDS Transcript

CONSTANT MaxActs   \* bound: what the user does with the timeline

ASSUME TimelineAssumption == None \notin [start : Nat, end : Nat]

VARIABLES
  cursor, playing,
  wasAtLive, scrubbing,    \* wasAtLiveRef, isScrubbingRef
  dragging,                \* draggingRef of the scrubber
  span, anchor,            \* selectedSpan, anchorSpanRef
  acts

timelineVars == <<cursor, playing, wasAtLive, scrubbing, dragging, span, anchor, acts>>

Least(a, b) == IF a < b THEN a ELSE b
Most(a, b) == IF a > b THEN a ELSE b

\* The events of a message: a prompt is one, an answer one for each tool call
\* but report_intent, or one when it calls none; other roles have none.
EventsOf(m) ==
  LET one == [message |-> m.id, user |-> m.role = "user"]
  IN CASE m.role = "user" -> <<one>>
       [] m.role = "assistant" /\ m.tools = <<>> -> <<one>>
       [] m.role = "assistant" /\ m.tools # <<>> -> [k \in 1..Cardinality({j \in DOMAIN m.tools : m.tools[j] # "intent"}) |-> one]
       [] OTHER -> <<>>
buildEvents(msgs) == FlattenSeq([i \in DOMAIN msgs |-> EventsOf(msgs[i])])

events == buildEvents(messages)
LastIndex(n) == Most(n - 1, 0)
maxIndex == LastIndex(Len(events))

UserIndices(evs) == {i \in 0..(Len(evs) - 1) : evs[i + 1].user}

\* The turns of the scrubber: from a prompt to the next, or to the end.
spans(evs) ==
  {[start |-> u, end |-> IF \E w \in UserIndices(evs) : w > u
                         THEN CHOOSE w \in UserIndices(evs) : w > u /\ \A x \in UserIndices(evs) : x > u => w <= x
                         ELSE Len(evs)] : u \in UserIndices(evs)}

\* spanRange.ts
isSpanContained(outer, inner) == inner.start >= outer.start /\ inner.end <= outer.end
mergeSpanRange(a, c) == [start |-> Least(a.start, c.start), end |-> Most(a.end, c.end)]

Tracked(s) == [start |-> s.start, end |-> s.end, trailing |-> s.end = Len(events)]

TimelineInit ==
  /\ cursor = maxIndex /\ playing = FALSE /\ wasAtLive = TRUE /\ scrubbing = FALSE
  /\ dragging = FALSE /\ span = None /\ anchor = None /\ acts = 0

-----------------------------------------------------------------------------
(* What the timeline makes of a new list of messages.                         *)

\* A selection must lie within the events, start at a prompt, and end at a prompt
\* or, while it trails, at the end.
IsKept(s, evs) ==
  /\ evs # <<>> /\ s.start <= LastIndex(Len(evs)) /\ s.end <= Len(evs)
  /\ s.start \in UserIndices(evs)
  /\ s.trailing \/ s.end \in UserIndices(evs)

\* Mutant of ValidSpan: a selection stays as it was.
ValidSpan_Kept(evs) == span

\* The effect that keeps a selection valid.
ValidSpan(evs) ==
  IF span = None \/ ~IsKept(span, evs) THEN None
  ELSE [span EXCEPT !.end = IF span.trailing THEN Len(evs) ELSE @]

\* Mutant of CursorAfter: the cursor follows whatever is selected or scrubbed.
CursorAfter_EvenSelected(n) == IF wasAtLive \/ scrubbing THEN LastIndex(n) ELSE Least(cursor, LastIndex(n))

\* The layout effects: when the number of events changes, a cursor at the end
\* goes on with it unless a past turn is selected or the user is scrubbing.
CursorAfter(n) ==
  IF n = Len(events) THEN cursor
  ELSE IF (span # None => span.trailing) /\ wasAtLive /\ ~scrubbing THEN LastIndex(n)
  ELSE Least(cursor, LastIndex(n))

TimelineAfterLoad ==
  LET evs == buildEvents(Content[shown'])
  IN IF shown' = shown THEN UNCHANGED timelineVars
     ELSE /\ cursor' = CursorAfter(Len(evs))
          /\ wasAtLive' = (cursor' >= LastIndex(Len(evs)))
          /\ span' = ValidSpan(evs)
          /\ anchor' = IF span # None /\ span' = None THEN None ELSE anchor
          /\ UNCHANGED <<playing, scrubbing, dragging, acts>>

-----------------------------------------------------------------------------
(* The user's ways through the timeline.  All but playing on, selecting with   *)
(* Escape and letting go release a jump.                                       *)

Act == acts < MaxActs /\ acts' = acts + 1
ClearSpan == span' = None /\ anchor' = None
Released == /\ focus' = None /\ landed' = FALSE
            /\ UNCHANGED <<srv, toFlag, row, active, flagged, tick, tickTimer, calls, loading, shown, faults, jumps>>

\* setCursorScrub, from a drag, a click or the arrow keys: nothing but the end
\* of a drag, a click or Live takes the scrubbing mark back.
MoveCursor(next) ==
  LET clamped == Most(0, Least(next, maxIndex))
  IN /\ cursor' = clamped /\ wasAtLive' = (clamped >= maxIndex) /\ playing' = FALSE

Step(delta) ==
  /\ Act /\ ClearSpan /\ Released /\ MoveCursor(cursor + delta) /\ scrubbing' = TRUE
  /\ UNCHANGED dragging

Drag(at) ==
  /\ Act /\ maxIndex > 0
  /\ ClearSpan /\ Released /\ MoveCursor(at) /\ scrubbing' = TRUE /\ dragging' = TRUE

Drop ==
  /\ dragging /\ dragging' = FALSE /\ scrubbing' = FALSE
  /\ UNCHANGED <<transcriptVars, cursor, playing, wasAtLive, span, anchor, acts>>

TrackClick(at) ==
  /\ Act /\ maxIndex > 0 /\ ~dragging
  /\ ClearSpan /\ Released /\ MoveCursor(at) /\ scrubbing' = FALSE
  /\ UNCHANGED dragging

GoLive ==
  /\ Act /\ span = None /\ cursor < maxIndex
  /\ ClearSpan /\ Released
  /\ wasAtLive' = TRUE /\ scrubbing' = FALSE /\ cursor' = maxIndex /\ playing' = FALSE
  /\ UNCHANGED dragging

TogglePlay ==
  /\ Act /\ ClearSpan /\ Released /\ playing' = ~playing
  /\ UNCHANGED <<cursor, wasAtLive, scrubbing, dragging>>

\* The playback interval: at the end it stops.
PlayTick ==
  /\ playing /\ events # <<>>
  /\ IF cursor >= maxIndex THEN playing' = FALSE /\ UNCHANGED <<cursor, wasAtLive>>
     ELSE cursor' = cursor + 1 /\ wasAtLive' = (cursor + 1 >= maxIndex) /\ UNCHANGED playing
  /\ UNCHANGED <<transcriptVars, scrubbing, dragging, span, anchor, acts>>

\* handleSpanSelect, a plain click: a turn of the selection clears it, another
\* one is selected alone.
SelectTurn(s) ==
  /\ Act /\ Released
  /\ IF span # None /\ isSpanContained(span, s) THEN ClearSpan
     ELSE span' = Tracked(s) /\ anchor' = s
  /\ UNCHANGED <<cursor, playing, wasAtLive, scrubbing, dragging>>

\* handleSpanSelect with Shift: from the anchor to the turn, never less.
Extended(s) ==
  IF anchor = None THEN Tracked(s)
  ELSE IF span # None /\ isSpanContained(span, s) THEN span
  ELSE Tracked(mergeSpanRange(anchor, s))

\* The range is checked by the same effect as after a load.
ExtendTo(s) ==
  LET to == Extended(s)
      valid == IsKept(to, events)
  IN /\ Act /\ Released
     /\ span' = IF valid THEN to ELSE None
     /\ anchor' = IF ~valid THEN None ELSE IF anchor = None THEN s ELSE anchor
     /\ UNCHANGED <<cursor, playing, wasAtLive, scrubbing, dragging>>

Escape ==
  /\ Act /\ span # None /\ ClearSpan
  /\ UNCHANGED <<transcriptVars, cursor, playing, wasAtLive, scrubbing, dragging>>

\* handleJumpToMessage, from the file pane: the first event of the message.
JumpToMessage(id) ==
  LET at == {i \in 0..maxIndex : events # <<>> /\ events[i + 1].message = id}
  IN /\ Act /\ ClearSpan /\ Released
     /\ IF at = {} THEN UNCHANGED <<cursor, wasAtLive, playing, scrubbing>>
        ELSE MoveCursor(CHOOSE i \in at : \A j \in at : i <= j) /\ scrubbing' = TRUE
     /\ UNCHANGED dragging

Moves ==
  \/ (\E d \in {-1, 1} : Step(d)) \/ (\E at \in 0..maxIndex : Drag(at) \/ TrackClick(at)) \/ Drop
  \/ GoLive \/ TogglePlay \/ PlayTick \/ Escape
  \/ (\E s \in spans(events) : SelectTurn(s) \/ ExtendTo(s))
  \/ (\E i \in DOMAIN messages : JumpToMessage(messages[i].id))

-----------------------------------------------------------------------------
(* What the panes show.  They count the events of a message by themselves, and *)
(* count every tool call.                                                      *)

\* Mutant of Slots: the text of a message is not counted.
Slots_NoText(m) == Len(m.tools)

\* What the panes count a message as: report_intent too, unlike the timeline.
Slots(m) == IF m.role = "user" \/ m.tools = <<>> THEN 1 ELSE Len(m.tools)

\* What the first i members of a sequence of numbers come to.
Total(n, i) ==
  LET upTo[j \in 0..Len(n)] == IF j = 0 THEN 0 ELSE upTo[j - 1] + n[j]
  IN upTo[i]

Before(i) == Total([j \in DOMAIN messages |-> Slots(messages[j])], i - 1)

\* visibleMessages of the drawer, visibleEdits and the token counts of the console.
visibleMessages ==
  {i \in DOMAIN messages :
     LET first == Before(i)  last == first + Slots(messages[i]) - 1
     IN IF span # None THEN last >= span.start /\ first < span.end
        ELSE last <= cursor \/ cursor >= maxIndex}

\* visibleAccess of the tree and the tools of the console: <<message, call>>.
visibleTools ==
  {t \in UNION {{i} \X DOMAIN messages[i].tools : i \in DOMAIN messages} :
     LET at == Before(t[1]) + t[2] - 1
     IN IF span # None THEN at >= span.start /\ at < span.end
        ELSE at <= cursor \/ cursor >= maxIndex}

drawerMessages == visibleMessages \cup {i \in DOMAIN messages : messages[i].id = focus}
=============================================================================
