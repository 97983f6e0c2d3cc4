------------------------------ MODULE Conversation ------------------------------
(***************************************************************************)
(* The messages of a session and its timeline.  Two kinds of behaviour are     *)
(* followed: how the messages are loaded, with jumps that wait for them, and   *)
(* what the user does with the timeline while versions come in, each load      *)
(* taken as one step.                                                          *)
(***************************************************************************)
EXTENDS Timeline

VARIABLE part

vars == <<part, transcriptVars, timelineVars>>

Init == TranscriptInit /\ TimelineInit /\ part \in {"loads", "moves"}

\* A load from its start to its answer, on the way to a newer version or failed.
WholeLoad ==
  /\ \/ srv < MaxVersion /\ srv' = srv + 1 /\ UNCHANGED faults
     \/ srv' = srv /\ faults < MaxFaults /\ faults' = faults + 1
  /\ shown' = IF faults' = faults THEN srv' ELSE 0
  /\ shown' # shown /\ loading' = FALSE /\ calls' = <<>>
  /\ JumpEffect(focus) /\ landed' = (landed /\ focus' # None /\ Has(shown', focus'))
  /\ UNCHANGED <<toFlag, row, active, flagged, tick, tickTimer, jumps>>

Next ==
  /\ UNCHANGED part
  /\ \/ part = "loads" /\ Loads /\ TimelineAfterLoad
     \/ part = "moves" /\ WholeLoad /\ TimelineAfterLoad
     \/ part = "moves" /\ Moves
     \/ part = "moves" /\ ((\E m \in Targets : JumpTo(m)) \/ Land) /\ UNCHANGED timelineVars

Load(A) == part = "loads" /\ UNCHANGED part /\ A /\ TimelineAfterLoad

\* The list is loaded again, flags arrive, timers fire, effects run, the server
\* takes requests up.  A load that is aborted again and again while it could be
\* answered is answered at last.
Fairness ==
  /\ WF_vars(Load(RowArrives)) /\ WF_vars(Load(FlagArrives))
  /\ WF_vars(Load(LiveFires)) /\ WF_vars(Load(TickFires)) /\ WF_vars(Load(PollFires))
  /\ SF_vars(Load(\E i \in DOMAIN calls : calls[i].live /\ ServeLoad(i)))
  /\ SF_vars(Load(\E i \in DOMAIN calls : calls[i].live /\ LoadAnswer(i)))
  /\ WF_vars(Load(Land))

Spec == Init /\ [][Next]_vars /\ Fairness

-----------------------------------------------------------------------------
(* Properties                                                               *)

\* What is on the screen goes back to an older version only through a failure:
\* an answer that was superseded never overwrites a newer one.
ShownNeverGoesBack == [][shown' >= shown \/ shown' = 0]_vars

\* While a session stays active, or its last change was flagged and no other
\* session's change replaced the flag, the screen gets to what the server has.
TranscriptConverges ==
  []<>(shown = srv \/ part = "moves" \/ faults > 0)

\* A jump lands or is given up: a target that the transcript no longer has does
\* not stay around to take over a later render.
JumpIsAnswered ==
  \A m \in Targets : (focus = m /\ part = "loads") ~> (landed \/ focus # m \/ shown = 0)

\* A selection always covers whole turns of the events there are, and the anchor
\* of Shift lies in it; a selection of the last turn ends where the events end.
SpanIsWholeTurns ==
  span # None => /\ \E s \in spans(events) : s.start = span.start
                 /\ \E s \in spans(events) : s.end = span.end
                 /\ span.trailing <=> span.end = Len(events)
                 /\ anchor # None /\ anchor.start >= span.start /\ anchor.start < span.end

\* Who looks at the past is left there: new messages never move a cursor that is
\* before the end, unless the event it is at is gone.
PastIsHeld ==
  [][shown' # shown /\ cursor < maxIndex /\ cursor < Len(buildEvents(Content[shown'])) => cursor' = cursor]_vars

\* The timeline's index of call k of message i, or of its first event.
FirstEvent(i) == Total([j \in DOMAIN messages |-> Len(EventsOf(messages[j]))], i - 1)
EventOf(i, k) == FirstEvent(i) + Cardinality({j \in 1..(k - 1) : messages[i].tools[j] # "intent"})

\* The prefix filter of the panes, which count events in their own way: with no turn
\* selected nothing after the cursor is in the tree, the console or the drawer (but
\* the message of a jump), and at the end of the timeline all of it is.
NothingFromTheFuture ==
  span = None =>
    /\ \A t \in visibleTools :
         messages[t[1]].tools[t[2]] # "intent" => EventOf(t[1], t[2]) <= cursor
    /\ \A i \in visibleMessages : EventsOf(messages[i]) # <<>> => EventOf(i, 1) <= cursor
    /\ cursor = maxIndex /\ events # <<>> =>
         /\ drawerMessages = DOMAIN messages
         /\ \A i \in DOMAIN messages : {i} \X DOMAIN messages[i].tools \subseteq visibleTools
===============================================================================
