----------------------------- MODULE Reading_proofs -----------------------------
(***************************************************************************)
(* What was read of an agent's files some time ago does not pass for what they   *)
(* hold now: in the session cache of an adapter, and on the screen.              *)
(*                                                                               *)
(* The conversation, for any transcripts, any number of versions, failures,      *)
(* jumps and acts: a superseded answer never overwrites a newer transcript, who  *)
(* looks at the past is left there, a selection is of whole turns, and the panes *)
(* show no event after the cursor.  Then the cache, for any files, changes and   *)
(* passes: when it is kept, it is current, unless files changed while it was     *)
(* made.                                                                         *)
(***************************************************************************)
EXTENDS Conversation, AdapterCache, SequenceLemmas, FiniteSetTheorems

-----------------------------------------------------------------------------
(* The conversation *)

Call == [bg : BOOLEAN, live : BOOLEAN, reply : {Waiting, Failed} \cup Nat]

\* Loads are two at most, the last of which alone may be live.  An answer that the
\* live one has was read after what is shown.
LoadInv ==
  /\ srv \in Nat /\ shown \in 0..srv
  /\ calls \in Seq(Call) /\ Len(calls) <= 2
  /\ \A i \in DOMAIN calls :
       calls[i].live => /\ i = Len(calls)
                        /\ calls[i].reply \in {Waiting, Failed} \cup (shown..srv)

LEMMA LoadStarts == Init => LoadInv
  BY DEF Init, TranscriptInit, LoadInv, Call, NewCall

LEMMA LoadShape ==
  ASSUME LoadInv
  PROVE  /\ Len(calls) \in 0..2 /\ DOMAIN calls = 1..Len(calls) /\ calls \in Seq(Call)
         /\ \A i \in DOMAIN calls : calls[i] \in Call
<1>1. calls \in Seq(Call) /\ Len(calls) <= 2
  BY DEF LoadInv
<1>2. Len(calls) \in Nat /\ DOMAIN calls = 1..Len(calls)
  BY <1>1, LenProperties
<1>3. \A i \in DOMAIN calls : calls[i] \in Call
  BY <1>1, <1>2, ElementOfSeq
<1> QED BY <1>1, <1>2, <1>3

\* A sequence of loads, each changed into a load.
LEMMA Changed ==
  ASSUME LoadInv, NEW d, DOMAIN d = DOMAIN calls, d = [i \in DOMAIN calls |-> d[i]],
         \A i \in DOMAIN calls : d[i] \in Call
  PROVE  d \in Seq(Call) /\ Len(d) = Len(calls)
<1>1. Len(calls) \in Nat /\ d \in [1..Len(calls) -> Call]
  BY LoadShape
<1>2. d \in Seq(Call)
  BY <1>1, SeqDef
<1>3. Len(d) \in Nat /\ DOMAIN d = 1..Len(d)
  BY <1>2, LenProperties
<1>4. 1..Len(d) = 1..Len(calls)
  BY <1>1, <1>3
<1>5. Len(d) = Len(calls)
  BY <1>1, <1>3, <1>4
<1> QED BY <1>2, <1>5

\* loadMessages: what it aborts is dead, what it starts waits.
LEMMA StartKeeps ==
  ASSUME LoadInv, NEW bg \in BOOLEAN, StartLoad(bg), UNCHANGED <<srv, shown>>
  PROVE  LoadInv'
<1> DEFINE dead == [i \in DOMAIN calls |-> [calls[i] EXCEPT !.live = FALSE]]
           from == IF calls = <<>> THEN 1 ELSE Len(calls)
           kept == SubSeq(dead, from, Len(calls))
<1>1. \A i \in DOMAIN calls : dead[i] \in Call /\ ~dead[i].live
  BY LoadShape DEF Call
<1>2. dead \in Seq(Call) /\ Len(dead) = Len(calls) /\ DOMAIN dead = 1..Len(calls)
  BY <1>1, LoadShape, Changed
<1>3. from \in Int /\ Len(calls) \in Nat /\ from >= 1 /\ Len(calls) - from + 1 <= 1
      /\ from..Len(calls) \subseteq DOMAIN dead
  BY <1>2, LoadShape
<1> HIDE DEF dead, from
<1>4. /\ kept \in Seq(Call) /\ Len(kept) = IF from <= Len(calls) THEN Len(calls) - from + 1 ELSE 0
      /\ \A i \in 1..(Len(calls) - from + 1) : kept[i] = dead[from + i - 1]
  BY <1>1, <1>2, <1>3, LoadShape, SubSeqProperties
<1>5. Len(kept) \in 0..1 /\ DOMAIN kept = 1..Len(kept)
  BY <1>3, <1>4, LenProperties
<1>6. \A i \in DOMAIN kept : ~kept[i].live
  <2> SUFFICES ASSUME NEW i \in DOMAIN kept PROVE ~kept[i].live
    OBVIOUS
  <2>1. i \in 1..(Len(calls) - from + 1) /\ from + i - 1 \in DOMAIN dead
    BY <1>2, <1>3, <1>4, <1>5
  <2>2. from + i - 1 \in DOMAIN calls
    BY <2>1, <1>2, LoadShape
  <2> QED BY <1>1, <1>4, <2>1, <2>2
<1>7. NewCall(bg) \in Call /\ NewCall(bg).reply = Waiting
  BY DEF NewCall, Call
<1>8. calls' = Append(kept, NewCall(bg))
  BY DEF StartLoad, dead, from
<1> HIDE DEF kept
<1>9. /\ calls' \in Seq(Call) /\ Len(calls') = Len(kept) + 1 /\ Len(calls') <= 2
      /\ DOMAIN calls' = 1..Len(calls')
      /\ \A i \in DOMAIN kept : calls'[i] = kept[i]
      /\ calls'[Len(calls')] = NewCall(bg)
  BY <1>4, <1>5, <1>7, <1>8, LenProperties
<1>10. ASSUME NEW i \in DOMAIN calls', calls'[i].live
       PROVE  i = Len(calls') /\ calls'[i].reply = Waiting
  BY <1>5, <1>6, <1>7, <1>9, <1>10
<1> QED BY <1>9, <1>10 DEF LoadInv

\* A reply that is set, to what the server has now or to Failed.
LEMMA ReplyKeeps ==
  ASSUME LoadInv, NEW i \in DOMAIN calls, NEW r \in {Failed, srv},
         calls' = [calls EXCEPT ![i].reply = r], UNCHANGED <<srv, shown>>
  PROVE  LoadInv'
<1>1. DOMAIN calls' = DOMAIN calls /\ calls' = [j \in DOMAIN calls |-> calls'[j]]
  OBVIOUS
<1>2. \A j \in DOMAIN calls : /\ calls'[j] \in Call
                              /\ calls'[j].live = calls[j].live
                              /\ calls'[j].reply = IF j = i THEN r ELSE calls[j].reply
  <2>1. \A j \in DOMAIN calls : calls'[j] = IF j = i THEN [calls[i] EXCEPT !.reply = r] ELSE calls[j]
    OBVIOUS
  <2>2. r \in {Waiting, Failed} \cup Nat
    BY DEF LoadInv
  <2>3. /\ [calls[i] EXCEPT !.reply = r] \in Call
        /\ [calls[i] EXCEPT !.reply = r].live = calls[i].live
        /\ [calls[i] EXCEPT !.reply = r].reply = r
    BY <2>2, LoadShape DEF Call
  <2> QED BY <2>1, <2>3, LoadShape
<1>3. calls' \in Seq(Call) /\ Len(calls') = Len(calls)
  BY <1>1, <1>2, Changed
<1>4. r \in {Failed} \cup (shown..srv)
  BY DEF LoadInv
<1> QED BY <1>1, <1>2, <1>3, <1>4 DEF LoadInv

\* What is left when an answer is handled.
LEMMA LeftOver ==
  ASSUME LoadInv, NEW i \in DOMAIN calls, calls' = RemoveAt(calls, i)
  PROVE  /\ calls' \in Seq(Call) /\ Len(calls') = Len(calls) - 1
         /\ DOMAIN calls' = 1..Len(calls')
         /\ \A j \in DOMAIN calls' : calls'[j] = IF j < i THEN calls[j] ELSE calls[j + 1]
<1> DEFINE a == SubSeq(calls, 1, i - 1)
           b == SubSeq(calls, i + 1, Len(calls))
<1>1. calls' = a \o b
  BY DEF RemoveAt
<1>2. i \in Int /\ i >= 1 /\ i <= Len(calls) /\ Len(calls) \in Nat
  BY LoadShape
<1>3. a \in Seq(Call) /\ Len(a) = i - 1 /\ \A j \in 1..(i - 1) : a[j] = calls[j]
  <2>1. \A j \in 1..(i - 1) : calls[j] \in Call
    BY <1>2, LoadShape
  <2>2. /\ a \in Seq(Call) /\ Len(a) = IF 1 <= i - 1 THEN i - 1 - 1 + 1 ELSE 0
        /\ \A j \in 1..(i - 1 - 1 + 1) : a[j] = calls[1 + j - 1]
    BY <1>2, <2>1, SubSeqProperties
  <2> QED BY <1>2, <2>2
<1>4. /\ b \in Seq(Call) /\ Len(b) = Len(calls) - i
      /\ \A j \in 1..(Len(calls) - i) : b[j] = calls[i + j]
  <2>1. \A j \in (i + 1)..Len(calls) : calls[j] \in Call
    BY <1>2, LoadShape
  <2>2. /\ b \in Seq(Call)
        /\ Len(b) = IF i + 1 <= Len(calls) THEN Len(calls) - (i + 1) + 1 ELSE 0
        /\ \A j \in 1..(Len(calls) - (i + 1) + 1) : b[j] = calls[i + 1 + j - 1]
    BY <1>2, <2>1, SubSeqProperties
  <2> QED BY <1>2, <2>2
<1> HIDE DEF a, b
<1>5. /\ a \o b \in Seq(Call) /\ Len(a \o b) = Len(calls) - 1
      /\ \A j \in 1..(Len(calls) - 1) : (a \o b)[j] = IF j <= i - 1 THEN a[j] ELSE b[j - (i - 1)]
  <2>1. /\ a \o b \in Seq(Call) /\ Len(a \o b) = Len(a) + Len(b)
        /\ \A j \in 1..(Len(a) + Len(b)) : (a \o b)[j] = IF j <= Len(a) THEN a[j] ELSE b[j - Len(a)]
    BY <1>3, <1>4, ConcatProperties
  <2>2. Len(a) + Len(b) = Len(calls) - 1
    BY <1>2, <1>3, <1>4
  <2>3. \A j \in 1..(Len(calls) - 1) : (a \o b)[j] = IF j <= i - 1 THEN a[j] ELSE b[j - (i - 1)]
    BY <1>3, <2>1, <2>2
  <2> QED BY <2>1, <2>2, <2>3
<1>6. DOMAIN calls' = 1..(Len(calls) - 1) /\ Len(calls') = Len(calls) - 1
  BY <1>1, <1>5, LenProperties
<1>7. ASSUME NEW j \in DOMAIN calls'
      PROVE  calls'[j] = IF j < i THEN calls[j] ELSE calls[j + 1]
  <2>1. j \in 1..(Len(calls) - 1)
    BY <1>6
  <2>2. CASE j < i
    BY <1>1, <1>2, <1>3, <1>5, <2>1, <2>2
  <2>3. CASE j >= i
    <3>1. j - (i - 1) \in 1..(Len(calls) - i) /\ i + (j - (i - 1)) = j + 1
      BY <1>2, <2>1, <2>3
    <3>2. (a \o b)[j] = b[j - (i - 1)]
      <4>1. ~(j <= i - 1)
        BY <1>2, <2>1, <2>3
      <4> QED BY <1>5, <2>1, <4>1
    <3>3. b[j - (i - 1)] = calls[j + 1]
      BY <1>4, <3>1
    <3> QED BY <1>1, <1>2, <2>1, <2>3, <3>2, <3>3
  <2> QED BY <1>2, <2>1, <2>2, <2>3
<1> QED BY <1>1, <1>5, <1>6, <1>7

\* The answer of the live load is shown and leaves no live one; a dead one's changes
\* nothing.
LEMMA AnswerKeeps ==
  ASSUME LoadInv, NEW i \in DOMAIN calls, LoadAnswer(i)
  PROVE  LoadInv' /\ (shown' >= shown \/ shown' = 0)
<1>1. /\ calls' \in Seq(Call) /\ Len(calls') = Len(calls) - 1 /\ DOMAIN calls' = 1..Len(calls')
      /\ \A j \in DOMAIN calls' : calls'[j] = IF j < i THEN calls[j] ELSE calls[j + 1]
  BY LeftOver DEF LoadAnswer
<1>2. /\ Len(calls) \in 1..2 /\ i \in 1..Len(calls) /\ DOMAIN calls = 1..Len(calls)
      /\ srv' = srv
  BY LoadShape DEF LoadAnswer
<1>3. CASE ~calls[i].live
  <2>1. shown' = shown
    BY <1>3 DEF LoadAnswer
  <2>2. ASSUME NEW j \in DOMAIN calls', calls'[j].live
        PROVE  /\ j = Len(calls')
               /\ calls'[j].reply \in {Waiting, Failed} \cup (shown..srv)
    <3>1. CASE j < i
      <4>1. calls'[j] = calls[j] /\ j \in DOMAIN calls /\ j < Len(calls)
        BY <1>1, <1>2, <3>1
      <4> QED BY <2>2, <4>1 DEF LoadInv
    <3>2. CASE j >= i
      <4>1. calls'[j] = calls[j + 1] /\ j + 1 \in DOMAIN calls
        BY <1>1, <1>2, <3>2
      <4> QED BY <1>1, <1>2, <2>2, <4>1 DEF LoadInv
    <3> QED BY <1>1, <1>2, <3>1, <3>2
  <2> QED BY <1>1, <1>2, <2>1, <2>2 DEF LoadInv
<1>4. CASE calls[i].live
  <2>1. i = Len(calls) /\ calls[i].reply \in {Failed} \cup (shown..srv)
    BY <1>4 DEF LoadInv, LoadAnswer
  <2>2. shown' = IF calls[i].reply = Failed THEN 0 ELSE calls[i].reply
    BY <1>4 DEF LoadAnswer
  <2>3. shown' \in 0..srv /\ (shown' >= shown \/ shown' = 0)
    BY <2>1, <2>2 DEF LoadInv
  <2>4. ASSUME NEW j \in DOMAIN calls'
        PROVE  ~calls'[j].live
    <3>1. calls'[j] = calls[j] /\ j \in DOMAIN calls /\ j # Len(calls)
      BY <1>1, <1>2, <2>1
    <3> QED BY <3>1 DEF LoadInv
  <2> QED BY <1>1, <1>2, <2>3, <2>4 DEF LoadInv
<1> QED BY <1>3, <1>4

\* A step of the conversation keeps the loads in order and never shows an older
\* version but through a failure.
LEMMA LoadKept ==
  ASSUME LoadInv, [Next]_vars
  PROVE  LoadInv' /\ (shown' >= shown \/ shown' = 0)
<1>1. CASE UNCHANGED <<srv, shown, calls>>
  BY <1>1 DEF LoadInv
<1>2. CASE \E bg \in BOOLEAN : StartLoad(bg) /\ UNCHANGED <<srv, shown>>
  BY <1>2, StartKeeps DEF LoadInv
<1>3. CASE UNCHANGED vars
  BY <1>1, <1>3 DEF vars, transcriptVars
<1>4. CASE Loads
  <2>1. CASE TranscriptGrows
    BY <2>1 DEF TranscriptGrows, LoadInv
  <2>2. CASE RowArrives \/ FlagArrives \/ OthersChange
    BY <1>1, <2>2 DEF RowArrives, FlagArrives, OthersChange
  <2>3. CASE LiveFires \/ TickFires \/ PollFires
    BY <1>2, <2>3 DEF LiveFires, TickFires, PollFires
  <2>4. CASE FailLoad
    <3>1. PICK i \in DOMAIN calls : calls' = [calls EXCEPT ![i].reply = Failed]
                                    /\ UNCHANGED <<srv, shown>>
      BY <2>4 DEF FailLoad
    <3>2. LoadInv'
      BY <3>1, ReplyKeeps
    <3>3. shown' >= shown
      BY <3>1 DEF LoadInv
    <3> QED BY <3>2, <3>3
  <2>5. ASSUME NEW i \in DOMAIN calls, ServeLoad(i)
        PROVE  LoadInv' /\ (shown' >= shown \/ shown' = 0)
    <3>1. calls' = [calls EXCEPT ![i].reply = srv] /\ UNCHANGED <<srv, shown>>
      BY <2>5 DEF ServeLoad
    <3>2. LoadInv'
      BY <3>1, ReplyKeeps
    <3>3. shown' >= shown
      BY <3>1 DEF LoadInv
    <3> QED BY <3>2, <3>3
  <2>6. ASSUME NEW i \in DOMAIN calls, LoadAnswer(i)
        PROVE  LoadInv' /\ (shown' >= shown \/ shown' = 0)
    BY <2>6, AnswerKeeps
  <2>7. CASE (\E m \in Targets : JumpTo(m)) \/ Land
    BY <1>1, <2>7 DEF JumpTo, Land
  <2> QED BY <1>4, <2>1, <2>2, <2>3, <2>4, <2>5, <2>6, <2>7 DEF Loads
<1>5. CASE WholeLoad
  <2>1. calls' = <<>> /\ srv' \in Nat /\ srv' >= srv /\ shown' \in {0, srv'}
    BY <1>5 DEF WholeLoad, LoadInv
  <2> QED BY <2>1 DEF LoadInv
<1>6. CASE Moves
  <2>1. CASE Drop \/ PlayTick \/ Escape
    BY <1>1, <2>1 DEF Drop, PlayTick, Escape, transcriptVars
  <2>2. CASE Released
    BY <1>1, <2>2 DEF Released
  <2>3. CASE \E d \in {-1, 1} : Step(d)
    BY <2>2, <2>3 DEF Step
  <2>4. CASE \E at \in 0..maxIndex : Drag(at) \/ TrackClick(at)
    BY <2>2, <2>4 DEF Drag, TrackClick
  <2>5. CASE GoLive \/ TogglePlay
    BY <2>2, <2>5 DEF GoLive, TogglePlay
  <2>6. CASE \E s \in spans(events) : SelectTurn(s) \/ ExtendTo(s)
    BY <2>2, <2>6 DEF SelectTurn, ExtendTo
  <2>7. CASE \E i \in DOMAIN messages : JumpToMessage(messages[i].id)
    BY <2>2, <2>7 DEF JumpToMessage
  <2> QED BY <1>6, <2>1, <2>3, <2>4, <2>5, <2>6, <2>7 DEF Moves
<1>7. CASE (\E m \in Targets : JumpTo(m)) \/ Land
  BY <1>1, <1>7 DEF JumpTo, Land
<1> QED BY <1>3, <1>4, <1>5, <1>6, <1>7 DEF Next

\* loadMessages (its AbortController): what is on the screen goes back to an older
\* version only through a failure.
THEOREM NeverOlder == Spec => ShownNeverGoesBack
<1>1. LoadInv /\ [Next]_vars => [shown' >= shown \/ shown' = 0]_vars
  BY LoadKept
<1> QED BY <1>1, LoadStarts, LoadKept, PTL DEF Spec, ShownNeverGoesBack

-----------------------------------------------------------------------------
(* The cursor.                                                              *)

\* The events of each message of a transcript.
LEMMA EventsByMessage ==
  ASSUME NEW v \in 0..MaxVersion
  PROVE  /\ Len(Content[v]) \in Nat /\ DOMAIN Content[v] = 1..Len(Content[v])
         /\ \E S : [i \in DOMAIN Content[v] |-> EventsOf(Content[v][i])] \in Seq(Seq(S))
<1> DEFINE msgs == Content[v]
           S == {[message |-> msgs[i].id, user |-> msgs[i].role = "user"] : i \in DOMAIN msgs}
           each == [i \in DOMAIN msgs |-> EventsOf(msgs[i])]
<1>1. msgs \in Seq(Range(msgs)) /\ \A i \in DOMAIN msgs : msgs[i].tools \in Seq(STRING)
  BY ContentAssumption
<1>2. Len(msgs) \in Nat /\ DOMAIN msgs = 1..Len(msgs)
  BY <1>1, LenProperties
<1>3. ASSUME NEW i \in DOMAIN msgs
      PROVE  EventsOf(msgs[i]) \in Seq(S)
  <2> DEFINE one == [message |-> msgs[i].id, user |-> msgs[i].role = "user"]
             n == Cardinality({j \in DOMAIN msgs[i].tools : msgs[i].tools[j] # "intent"})
  <2>1. one \in S
    OBVIOUS
  <2>2. n \in Nat
    <3>1. DOMAIN msgs[i].tools = 1..Len(msgs[i].tools) /\ Len(msgs[i].tools) \in Nat
      BY <1>1, LenProperties
    <3>2. IsFiniteSet(DOMAIN msgs[i].tools)
      BY <3>1, FS_Interval
    <3>3. IsFiniteSet({j \in DOMAIN msgs[i].tools : msgs[i].tools[j] # "intent"})
      BY <3>2, FS_Subset
    <3> QED BY <3>3, FS_CardinalityType
  <2> HIDE DEF n, S
  <2>3. [k \in 1..n |-> one] \in Seq(S)
    BY <2>1, <2>2, SeqDef
  <2>4. <<one>> \in Seq(S) /\ << >> \in Seq(S)
    BY <2>1
  <2>5. EventsOf(msgs[i]) \in {<<one>>, [k \in 1..n |-> one], <<>>}
    BY DEF EventsOf, n
  <2> QED BY <2>3, <2>4, <2>5
<1> HIDE DEF S
<1>4. each \in [1..Len(msgs) -> Seq(S)]
  BY <1>2, <1>3
<1>5. each \in Seq(Seq(S))
  BY <1>2, <1>4, SeqDef
<1> QED BY <1>2, <1>5

LEMMA EventsAreSequences ==
  ASSUME NEW v \in 0..MaxVersion
  PROVE  /\ Len(buildEvents(Content[v])) \in Nat
         /\ buildEvents(Content[v]) = <<>> <=> Len(buildEvents(Content[v])) = 0
<1> DEFINE each == [i \in DOMAIN Content[v] |-> EventsOf(Content[v][i])]
<1>1. PICK S : each \in Seq(Seq(S))
  BY EventsByMessage
<1>2. buildEvents(Content[v]) = FlattenSeq(each)
  BY DEF buildEvents
<1> HIDE DEF each
<1>3. buildEvents(Content[v]) \in Seq(S)
  BY <1>1, <1>2, FlattenType
<1> QED BY <1>3, LenProperties, EmptySeq

\* The versions there are.
VersionInv == LoadInv /\ srv <= MaxVersion

\* The mark of being live is where the cursor is.
CursorInv == cursor \in 0..maxIndex /\ (wasAtLive <=> cursor >= maxIndex)

Turn == [start : Nat, end : Nat]

\* A selection is of whole turns, and has an anchor in it.
SpanInv ==
  /\ span # None =>
       /\ span \in [start : Nat, end : Nat, trailing : BOOLEAN]
       /\ span.start \in UserIndices(events)
       /\ span.end \in UserIndices(events) \cup {Len(events)}
       /\ span.trailing <=> span.end = Len(events)
       /\ anchor # None /\ span.start <= anchor.start /\ anchor.start < span.end
  /\ anchor # None => anchor \in Turn /\ anchor.start < anchor.end

\* A load answers with a version the server has.
LEMMA VersionsKept ==
  ASSUME VersionInv, [Next]_vars
  PROVE  VersionInv'
<1>1. LoadInv'
  BY LoadKept DEF VersionInv
<1>2. srv' = srv \/ (srv < MaxGrowth /\ srv' = srv + 1) \/ (srv < MaxVersion /\ srv' = srv + 1)
  BY DEF Next, vars, transcriptVars, Loads, TranscriptGrows, RowArrives, FlagArrives, OthersChange,
         LiveFires, TickFires, PollFires, FailLoad, ServeLoad, LoadAnswer, JumpTo, Land, WholeLoad,
         Moves, Step, Drag, TrackClick, Drop, GoLive, TogglePlay, PlayTick, Escape, SelectTurn,
         ExtendTo, JumpToMessage, Released
<1>3. srv \in Nat /\ srv <= MaxVersion
  BY DEF VersionInv, LoadInv
<1>4. srv' <= MaxVersion
  BY <1>2, <1>3, TranscriptAssumption
<1> QED BY <1>1, <1>4 DEF VersionInv

\* How many events there are.
LEMMA EventsShape ==
  ASSUME VersionInv
  PROVE  /\ shown \in 0..MaxVersion
         /\ events = buildEvents(Content[shown])
         /\ Len(events) \in Nat /\ (events = <<>> <=> Len(events) = 0)
         /\ maxIndex = IF Len(events) = 0 THEN 0 ELSE Len(events) - 1
         /\ maxIndex \in Nat
         /\ UserIndices(events) \subseteq 0..(Len(events) - 1)
<1>1. shown \in 0..MaxVersion
  BY TranscriptAssumption DEF VersionInv, LoadInv
<1>2. events = buildEvents(Content[shown])
  BY DEF events, messages
<1>3. Len(events) \in Nat /\ (events = <<>> <=> Len(events) = 0)
  BY <1>1, <1>2, EventsAreSequences
<1>4. maxIndex = IF Len(events) = 0 THEN 0 ELSE Len(events) - 1
  BY <1>3 DEF maxIndex, LastIndex, Most
<1>5. UserIndices(events) \subseteq 0..(Len(events) - 1)
  BY DEF UserIndices
<1> QED BY <1>1, <1>2, <1>3, <1>4, <1>5

\* The same of the transcript that is shown next.
LEMMA NextEvents ==
  ASSUME VersionInv, VersionInv'
  PROVE  /\ events' = buildEvents(Content[shown']) /\ Len(events') \in Nat
         /\ events' = <<>> <=> Len(events') = 0
         /\ maxIndex' = LastIndex(Len(events'))
         /\ maxIndex' = IF Len(events') = 0 THEN 0 ELSE Len(events') - 1
         /\ shown' = shown => events' = events /\ maxIndex' = maxIndex
<1>1. shown' \in 0..MaxVersion
  BY TranscriptAssumption DEF VersionInv, LoadInv
<1>2. events' = buildEvents(Content[shown'])
  BY DEF events, messages
<1>3. Len(events') \in Nat /\ (events' = <<>> <=> Len(events') = 0)
  BY <1>1, <1>2, EventsAreSequences
<1>4. maxIndex' = LastIndex(Len(events')) /\ maxIndex' = IF Len(events') = 0 THEN 0 ELSE Len(events') - 1
  BY <1>3 DEF maxIndex, LastIndex, Most
<1>5. shown' = shown => events' = events /\ maxIndex' = maxIndex
  BY DEF events, messages, maxIndex
<1> QED BY <1>2, <1>3, <1>4, <1>5

\* setCursorScrub: the cursor stays within the events and the mark is set anew.
LEMMA CursorMoves ==
  ASSUME VersionInv, VersionInv', NEW next \in Int, MoveCursor(next), shown' = shown
  PROVE  CursorInv'
<1>1. maxIndex \in Nat /\ maxIndex' = maxIndex
  BY EventsShape, NextEvents
<1> DEFINE clamped == Most(0, Least(next, maxIndex))
<1>2. clamped \in 0..maxIndex
  BY <1>1 DEF Most, Least
<1>3. cursor' = clamped /\ wasAtLive' = (clamped >= maxIndex)
  BY DEF MoveCursor
<1> QED BY <1>1, <1>2, <1>3 DEF CursorInv

\* The layout effects of a load: who is before the end is not moved, but to stay
\* within the events.
LEMMA CursorLoads ==
  ASSUME VersionInv, VersionInv', CursorInv, TimelineAfterLoad
  PROVE  /\ CursorInv'
         /\ shown' # shown /\ cursor < maxIndex /\ cursor < Len(events') => cursor' = cursor
<1> DEFINE n == Len(events')
<1>1. /\ Len(events) \in Nat /\ maxIndex = IF Len(events) = 0 THEN 0 ELSE Len(events) - 1
      /\ n \in Nat /\ maxIndex' = IF n = 0 THEN 0 ELSE n - 1
      /\ maxIndex' = LastIndex(n) /\ events' = buildEvents(Content[shown'])
      /\ shown' = shown => events' = events /\ maxIndex' = maxIndex
  BY EventsShape, NextEvents
<1>2. CASE shown' = shown
  BY <1>1, <1>2 DEF TimelineAfterLoad, timelineVars, CursorInv
<1>3. CASE shown' # shown
  <2>1. cursor' = CursorAfter(n) /\ wasAtLive' = (cursor' >= maxIndex')
    BY <1>1, <1>3 DEF TimelineAfterLoad
  <2>2. cursor' \in {cursor, LastIndex(n), Least(cursor, LastIndex(n))}
    BY <2>1 DEF CursorAfter
  <2>3. cursor \in Nat /\ cursor <= maxIndex /\ (wasAtLive <=> cursor >= maxIndex)
    BY <1>1 DEF CursorInv
  <2>4. n = Len(events) => cursor' = cursor
    BY <2>1 DEF CursorAfter
  <2>5. n # Len(events) => ((cursor' = LastIndex(n) /\ wasAtLive) \/ cursor' = Least(cursor, LastIndex(n)))
    BY <2>1 DEF CursorAfter
  <2> HIDE DEF n
  <2>6. cursor' \in 0..maxIndex'
    BY <1>1, <2>3, <2>4, <2>5 DEF Least
  <2>7. cursor < maxIndex /\ cursor < n => cursor' = cursor
    BY <1>1, <2>3, <2>4, <2>5 DEF Least
  <2> QED BY <2>1, <2>6, <2>7 DEF CursorInv, n
<1> QED BY <1>2, <1>3

\* What does not load leaves what is shown alone.
LEMMA OnlyLoadsShow ==
  ASSUME [Next]_vars
  PROVE  \/ TimelineAfterLoad
         \/ UNCHANGED timelineVars /\ shown' = shown
         \/ Moves /\ shown' = shown
<1>1. CASE UNCHANGED vars
  BY <1>1 DEF vars, transcriptVars
<1>2. CASE Moves
  BY <1>2 DEF Moves, Step, Drag, TrackClick, Drop, GoLive, TogglePlay, PlayTick, Escape, SelectTurn,
              ExtendTo, JumpToMessage, Released, transcriptVars
<1>3. CASE ((\E m \in Targets : JumpTo(m)) \/ Land) /\ UNCHANGED timelineVars
  BY <1>3 DEF JumpTo, Land
<1> QED BY <1>1, <1>2, <1>3 DEF Next

LEMMA CursorKept ==
  ASSUME VersionInv, CursorInv, [Next]_vars
  PROVE  /\ CursorInv'
         /\ shown' # shown /\ cursor < maxIndex /\ cursor < Len(events') => cursor' = cursor
<1>1. VersionInv'
  BY VersionsKept
<1>2. /\ events' = buildEvents(Content[shown']) /\ maxIndex \in Nat /\ cursor \in Nat
      /\ shown' = shown => events' = events /\ maxIndex' = maxIndex
      /\ maxIndex = IF Len(events) = 0 THEN 0 ELSE Len(events) - 1
      /\ Len(events) \in Nat /\ (events = <<>> <=> Len(events) = 0)
  BY <1>1, EventsShape, NextEvents DEF CursorInv
<1>3. CASE TimelineAfterLoad
  BY <1>1, <1>3, CursorLoads
<1>4. CASE UNCHANGED <<cursor, wasAtLive, shown>>
  BY <1>2, <1>4 DEF CursorInv
<1>5. CASE Moves /\ shown' = shown
  <2>1. CASE \E d \in {-1, 1} : Step(d)
    <3>1. PICK d \in {-1, 1} : MoveCursor(cursor + d)
      BY <2>1 DEF Step
    <3>2. cursor + d \in Int
      BY <1>2
    <3> QED BY <1>1, <1>5, <3>1, <3>2, CursorMoves
  <2>2. CASE \E at \in 0..maxIndex : Drag(at) \/ TrackClick(at)
    <3>1. PICK at \in 0..maxIndex : MoveCursor(at)
      BY <2>2 DEF Drag, TrackClick
    <3>2. at \in Int
      OBVIOUS
    <3> QED BY <1>1, <1>5, <3>1, <3>2, CursorMoves
  <2>3. CASE Drop \/ Escape \/ TogglePlay
    BY <1>4, <1>5, <2>3 DEF Drop, Escape, TogglePlay
  <2>4. CASE GoLive
    BY <1>2, <1>5, <2>4 DEF GoLive, CursorInv
  <2>5. CASE PlayTick
    <3>1. cursor \in 0..maxIndex /\ (wasAtLive <=> cursor >= maxIndex)
          /\ maxIndex' = maxIndex
      BY <1>2, <1>5 DEF CursorInv
    <3>2. CASE cursor >= maxIndex
      <4>1. cursor' = cursor /\ wasAtLive' = wasAtLive
        BY <2>5, <3>2 DEF PlayTick
      <4> QED BY <3>1, <4>1 DEF CursorInv
    <3>3. CASE ~(cursor >= maxIndex)
      <4>1. cursor' = cursor + 1 /\ wasAtLive' = (cursor + 1 >= maxIndex)
        BY <2>5, <3>3 DEF PlayTick
      <4>2. cursor + 1 \in 0..maxIndex
        BY <1>2, <3>1, <3>3
      <4>3. wasAtLive' <=> cursor + 1 >= maxIndex
        BY <4>1
      <4> QED BY <1>5, <3>1, <4>1, <4>2, <4>3 DEF CursorInv
    <3> QED BY <3>2, <3>3
  <2>6. CASE \E s \in spans(events) : SelectTurn(s) \/ ExtendTo(s)
    BY <1>4, <1>5, <2>6 DEF SelectTurn, ExtendTo
  <2>7. ASSUME NEW i \in DOMAIN messages, JumpToMessage(messages[i].id)
        PROVE  CursorInv'
    <3> DEFINE at == {j \in 0..maxIndex : events # <<>> /\ events[j + 1].message = messages[i].id}
    <3>1. CASE at = {}
      BY <1>4, <1>5, <2>7, <3>1 DEF JumpToMessage
    <3>2. CASE at # {}
      <4> DEFINE first == CHOOSE j \in at : \A k \in at : j <= k
      <4>1. MoveCursor(first)
        BY <2>7, <3>2 DEF JumpToMessage
      <4>2. at \in SUBSET Nat
        BY <1>2
      <4> HIDE DEF at
      <4>3. \E j \in at : \A k \in at : j <= k
        BY <3>2, <4>2, LeastNat
      <4>4. first \in at
        BY <4>3
      <4> HIDE DEF first
      <4>5. first \in Int
        BY <4>2, <4>4
      <4> QED BY <1>1, <1>5, <4>1, <4>5, CursorMoves
    <3> QED BY <3>1, <3>2
  <2> QED BY <1>5, <2>1, <2>2, <2>3, <2>4, <2>5, <2>6, <2>7 DEF Moves
<1> QED BY <1>3, <1>4, <1>5, OnlyLoadsShow DEF timelineVars

LEMMA CursorStarts == Init => VersionInv /\ CursorInv
<1> SUFFICES ASSUME Init PROVE VersionInv /\ CursorInv
  OBVIOUS
<1>1. VersionInv
  BY LoadStarts, TranscriptAssumption DEF Init, TranscriptInit, VersionInv
<1> QED BY <1>1, EventsShape DEF Init, TimelineInit, CursorInv

\* useTimeline (its layout effects): messages that come in never move a cursor that is
\* before the end, unless the event it is at is gone.
THEOREM HeldInThePast == Spec => PastIsHeld
<1>1. ASSUME VersionInv, CursorInv, [Next]_vars
      PROVE  [shown' # shown /\ cursor < maxIndex /\ cursor < Len(buildEvents(Content[shown']))
              => cursor' = cursor]_vars
  <2>1. events' = buildEvents(Content[shown'])
    BY DEF events, messages
  <2> QED BY <1>1, <2>1, CursorKept
<1> QED BY <1>1, CursorStarts, VersionsKept, CursorKept, PTL DEF Spec, PastIsHeld

-----------------------------------------------------------------------------
(* The selection.                                                           *)

\* The next prompt after u.
NextPrompt(evs, u) == CHOOSE w \in UserIndices(evs) : w > u /\ \A x \in UserIndices(evs) : x > u => w <= x

LEMMA NextIsLeast ==
  ASSUME NEW evs, Len(evs) \in Nat, NEW u \in UserIndices(evs), \E w \in UserIndices(evs) : w > u
  PROVE  LET n == NextPrompt(evs, u)
         IN n \in UserIndices(evs) /\ n > u /\ \A x \in UserIndices(evs) : x > u => n <= x
<1> DEFINE T == {w \in UserIndices(evs) : w > u}
<1>1. T \in SUBSET Nat /\ T # {}
  <2>1. UserIndices(evs) \in SUBSET Nat
    BY DEF UserIndices
  <2> QED BY <2>1
<1> HIDE DEF T
<1>2. PICK w \in T : \A x \in T : w <= x
  BY <1>1, LeastNat
<1>3. w \in UserIndices(evs) /\ w > u /\ \A x \in UserIndices(evs) : x > u => w <= x
  BY <1>2 DEF T
<1> QED BY <1>3 DEF NextPrompt

LEMMA SpanShape ==
  ASSUME NEW evs, Len(evs) \in Nat, NEW s \in spans(evs)
  PROVE  /\ s \in Turn /\ s.start < s.end
         /\ s.start \in UserIndices(evs) /\ s.end \in UserIndices(evs) \cup {Len(evs)}
<1>1. PICK u \in UserIndices(evs) :
        s = [start |-> u, end |-> IF \E w \in UserIndices(evs) : w > u THEN NextPrompt(evs, u) ELSE Len(evs)]
  BY DEF spans, NextPrompt
<1>2. UserIndices(evs) \subseteq 0..(Len(evs) - 1)
  BY DEF UserIndices
<1>3. CASE \E w \in UserIndices(evs) : w > u
  <2>1. s = [start |-> u, end |-> NextPrompt(evs, u)]
    BY <1>1, <1>3
  <2>2. NextPrompt(evs, u) \in UserIndices(evs) /\ NextPrompt(evs, u) > u
    BY <1>3, NextIsLeast
  <2> QED BY <1>2, <2>1, <2>2 DEF Turn
<1>4. CASE ~\E w \in UserIndices(evs) : w > u
  <2>1. s = [start |-> u, end |-> Len(evs)]
    BY <1>1, <1>4
  <2> QED BY <1>2, <2>1 DEF Turn
<1> QED BY <1>3, <1>4

\* A prompt starts a turn.
LEMMA StartsATurn ==
  ASSUME NEW evs, NEW u \in UserIndices(evs)
  PROVE  \E s \in spans(evs) : s.start = u
<1> DEFINE s == [start |-> u, end |-> IF \E w \in UserIndices(evs) : w > u THEN NextPrompt(evs, u) ELSE Len(evs)]
<1>1. s \in spans(evs)
  BY DEF spans, NextPrompt
<1> QED BY <1>1

\* What comes after a prompt, a prompt or the end, ends a turn.
LEMMA EndsATurn ==
  ASSUME NEW evs, Len(evs) \in Nat, NEW e \in UserIndices(evs) \cup {Len(evs)},
         NEW v \in UserIndices(evs), v < e
  PROVE  \E s \in spans(evs) : s.end = e
<1>1. UserIndices(evs) \subseteq 0..(Len(evs) - 1) /\ e \in Nat
  BY DEF UserIndices
<1> DEFINE T == {e - u : u \in {x \in UserIndices(evs) : x < e}}
<1>2. T \in SUBSET Nat /\ T # {}
  BY <1>1
<1> HIDE DEF T
<1>3. PICK d \in T : \A x \in T : d <= x
  BY <1>2, LeastNat
<1>4. PICK u \in UserIndices(evs) : u < e /\ d = e - u
  BY <1>3 DEF T
<1>5. ASSUME NEW x \in UserIndices(evs), x < e
      PROVE  x <= u
  <2>1. e - x \in T
    BY <1>5 DEF T
  <2>2. d <= e - x
    BY <1>3, <2>1
  <2> QED BY <1>1, <1>4, <2>2
<1> DEFINE s == [start |-> u, end |-> IF \E w \in UserIndices(evs) : w > u THEN NextPrompt(evs, u) ELSE Len(evs)]
<1>6. s \in spans(evs)
  BY DEF spans, NextPrompt
<1>7. CASE \E w \in UserIndices(evs) : w > u
  <2>1. /\ NextPrompt(evs, u) \in UserIndices(evs) /\ NextPrompt(evs, u) > u
        /\ \A x \in UserIndices(evs) : x > u => NextPrompt(evs, u) <= x
    BY <1>7, NextIsLeast
  <2>2. NextPrompt(evs, u) >= e
    BY <1>1, <1>4, <1>5, <2>1
  <2>3. e \in UserIndices(evs)
    BY <1>1, <2>1, <2>2
  <2>4. NextPrompt(evs, u) = e
    BY <1>1, <1>4, <2>1, <2>2, <2>3
  <2>5. s.end = e
    BY <1>7, <2>4
  <2> QED BY <1>6, <2>5
<1>8. CASE ~\E w \in UserIndices(evs) : w > u
  <2>1. e \notin UserIndices(evs)
    BY <1>1, <1>4, <1>8
  <2>2. s.end = e
    BY <1>8, <2>1
  <2> QED BY <1>6, <2>2
<1> QED BY <1>7, <1>8

LEMMA SpanIsWhole ==
  ASSUME VersionInv, SpanInv
  PROVE  SpanIsWholeTurns
<1> SUFFICES ASSUME span # None PROVE SpanIsWholeTurns
  BY DEF SpanIsWholeTurns
<1>1. /\ span \in [start : Nat, end : Nat, trailing : BOOLEAN]
      /\ span.start \in UserIndices(events) /\ span.end \in UserIndices(events) \cup {Len(events)}
      /\ span.trailing <=> span.end = Len(events)
      /\ anchor # None /\ span.start <= anchor.start /\ anchor.start < span.end
      /\ anchor \in Turn
  BY DEF SpanInv
<1>2. span.start \in Nat /\ span.end \in Nat /\ anchor.start \in Nat
  BY <1>1 DEF Turn
<1>3. span.start < span.end
  BY <1>1, <1>2
<1>4. Len(events) \in Nat
  BY EventsShape
<1>5. \E s \in spans(events) : s.start = span.start
  BY <1>1, StartsATurn
<1>6. \E s \in spans(events) : s.end = span.end
  BY <1>1, <1>3, <1>4, EndsATurn
<1> QED BY <1>1, <1>2, <1>5, <1>6 DEF SpanIsWholeTurns

\* A turn that is tracked.
LEMMA TrackedTurn ==
  ASSUME VersionInv, NEW s \in Turn, s.start < s.end
  PROVE  /\ Tracked(s) \in [start : Nat, end : Nat, trailing : BOOLEAN]
         /\ Tracked(s).start = s.start /\ Tracked(s).end = s.end
         /\ Tracked(s).trailing <=> s.end = Len(events)
  BY DEF Tracked, Turn

\* The effect that keeps a selection valid.
LEMMA SpanLoads ==
  ASSUME VersionInv, VersionInv', SpanInv, TimelineAfterLoad
  PROVE  SpanInv'
<1>1. /\ Len(events) \in Nat /\ Len(events') \in Nat /\ events' = buildEvents(Content[shown'])
      /\ shown' = shown => events' = events
      /\ UserIndices(events) \subseteq 0..(Len(events) - 1)
      /\ UserIndices(events') \subseteq 0..(Len(events') - 1)
  BY EventsShape, NextEvents DEF UserIndices
<1>2. CASE shown' = shown
  BY <1>1, <1>2 DEF TimelineAfterLoad, timelineVars, SpanInv
<1>3. CASE shown' # shown
  <2>1. span' = ValidSpan(events') /\ anchor' = IF span # None /\ span' = None THEN None ELSE anchor
    BY <1>1, <1>3 DEF TimelineAfterLoad
  <2>2. CASE span' = None
    BY <2>1, <2>2 DEF SpanInv
  <2>3. CASE span' # None
    <3>1. /\ span # None /\ IsKept(span, events') /\ anchor' = anchor
          /\ span' = [span EXCEPT !.end = IF span.trailing THEN Len(events') ELSE @]
      BY <2>1, <2>3 DEF ValidSpan
    <3>2. /\ span \in [start : Nat, end : Nat, trailing : BOOLEAN]
          /\ span.end \in UserIndices(events) \cup {Len(events)}
          /\ anchor # None /\ span.start <= anchor.start /\ anchor.start < span.end
          /\ anchor \in Turn /\ anchor.start < anchor.end
      BY <3>1 DEF SpanInv
    <3>3. /\ span.start \in UserIndices(events') /\ span.end <= Len(events')
          /\ span.trailing \/ span.end \in UserIndices(events')
      BY <3>1 DEF IsKept
    <3>4. /\ span' \in [start : Nat, end : Nat, trailing : BOOLEAN]
          /\ span'.start = span.start /\ span'.trailing = span.trailing
          /\ span'.end = IF span.trailing THEN Len(events') ELSE span.end
      BY <1>1, <3>1, <3>2
    <3>5. span'.end \in UserIndices(events') \cup {Len(events')}
      BY <3>3, <3>4
    <3>6. span'.trailing <=> span'.end = Len(events')
      BY <1>1, <3>3, <3>4
    <3>7. anchor.start < span'.end
      BY <1>1, <3>2, <3>3, <3>4 DEF Turn
    <3> QED BY <3>1, <3>2, <3>3, <3>4, <3>5, <3>6, <3>7 DEF SpanInv
  <2> QED BY <2>2, <2>3
<1> QED BY <1>2, <1>3

\* handleSpanSelect, a plain click.
LEMMA SpanSelected ==
  ASSUME VersionInv, VersionInv', SpanInv, shown' = shown, NEW s \in spans(events), SelectTurn(s)
  PROVE  SpanInv'
<1>1. Len(events) \in Nat /\ events' = events
  BY EventsShape, NextEvents
<1>2. /\ s \in Turn /\ s.start < s.end
      /\ s.start \in UserIndices(events) /\ s.end \in UserIndices(events) \cup {Len(events)}
  BY <1>1, SpanShape
<1>3. CASE ClearSpan
  BY <1>3 DEF ClearSpan, SpanInv
<1>4. CASE span' = Tracked(s) /\ anchor' = s
  <2>1. /\ span' \in [start : Nat, end : Nat, trailing : BOOLEAN]
        /\ span'.start = s.start /\ span'.end = s.end
        /\ span'.trailing <=> s.end = Len(events)
    BY <1>2, <1>4, TrackedTurn
  <2>2. s # None
    BY <1>2, TimelineAssumption DEF Turn
  <2>3. s.start <= s.start /\ s.start \in Nat
    BY <1>2 DEF Turn
  <2> QED BY <1>1, <1>2, <1>4, <2>1, <2>2, <2>3 DEF SpanInv
<1> QED BY <1>3, <1>4 DEF SelectTurn

\* handleSpanSelect with Shift, and the effect.
LEMMA SpanExtended ==
  ASSUME VersionInv, VersionInv', SpanInv, shown' = shown, NEW s \in spans(events), ExtendTo(s)
  PROVE  SpanInv'
<1> DEFINE to == Extended(s)
<1>1. /\ Len(events) \in Nat /\ events' = events
      /\ UserIndices(events) \subseteq 0..(Len(events) - 1)
  BY EventsShape, NextEvents
<1>2. /\ s \in Turn /\ s.start < s.end
      /\ s.start \in UserIndices(events) /\ s.end \in UserIndices(events) \cup {Len(events)}
  BY <1>1, SpanShape
<1>3. s # None
  BY <1>2, TimelineAssumption DEF Turn
<1>4. CASE ~IsKept(to, events)
  BY <1>4 DEF ExtendTo, SpanInv
<1>5. CASE IsKept(to, events)
  <2> DEFINE held == IF anchor = None THEN s ELSE anchor
  <2>1. span' = to /\ anchor' = held
    BY <1>5 DEF ExtendTo
  <2>2. held \in Turn /\ held # None /\ held.start < held.end
    BY <1>2, <1>3 DEF SpanInv
  <2>3. /\ to \in [start : Nat, end : Nat, trailing : BOOLEAN]
        /\ to.trailing <=> to.end = Len(events)
        /\ to.start <= held.start /\ held.start < to.end
    <3>1. CASE anchor = None
      <4>1. to = Tracked(s) /\ held = s
        BY <3>1 DEF Extended
      <4>2. s.start \in Nat
        BY <1>2 DEF Turn
      <4> QED BY <1>2, <4>1, <4>2, TrackedTurn
    <3>2. CASE anchor # None /\ span # None /\ isSpanContained(span, s)
      <4>1. to = span /\ held = anchor
        BY <3>2 DEF Extended
      <4> QED BY <3>2, <4>1 DEF SpanInv
    <3>3. CASE anchor # None /\ ~(span # None /\ isSpanContained(span, s))
      <4> DEFINE m == mergeSpanRange(anchor, s)
      <4>1. to = Tracked(m) /\ held = anchor
        BY <3>3 DEF Extended
      <4>2. /\ m \in Turn /\ m.start <= anchor.start /\ anchor.start < m.end
            /\ m.start < m.end
        BY <1>2, <2>2, <4>1 DEF mergeSpanRange, Least, Most, Turn
      <4> HIDE DEF m
      <4> QED BY <4>1, <4>2, TrackedTurn
    <3> QED BY <3>1, <3>2, <3>3
  <2> HIDE DEF to, held
  <2>4. /\ to.start \in UserIndices(events)
        /\ to.end \in UserIndices(events) \cup {Len(events)}
    BY <1>5, <2>3 DEF IsKept
  <2> QED BY <1>1, <2>1, <2>2, <2>3, <2>4 DEF SpanInv
<1> QED BY <1>4, <1>5

LEMMA SpanKept ==
  ASSUME VersionInv, SpanInv, [Next]_vars
  PROVE  SpanInv'
<1>1. VersionInv'
  BY VersionsKept
<1>2. shown' = shown => events' = events
  BY <1>1, NextEvents
<1>3. CASE TimelineAfterLoad
  BY <1>1, <1>3, SpanLoads
<1>4. CASE UNCHANGED <<span, anchor, shown>>
  BY <1>2, <1>4 DEF SpanInv
<1>5. CASE ClearSpan
  BY <1>5 DEF ClearSpan, SpanInv
<1>6. CASE Moves /\ shown' = shown
  <2>1. CASE \E s \in spans(events) : SelectTurn(s) \/ ExtendTo(s)
    BY <1>1, <1>6, <2>1, SpanSelected, SpanExtended
  <2>2. CASE Drop \/ PlayTick
    BY <1>4, <1>6, <2>2 DEF Drop, PlayTick
  <2>3. CASE \/ (\E d \in {-1, 1} : Step(d)) \/ (\E at \in 0..maxIndex : Drag(at) \/ TrackClick(at))
             \/ GoLive \/ TogglePlay \/ Escape \/ \E i \in DOMAIN messages : JumpToMessage(messages[i].id)
    BY <1>5, <2>3 DEF Step, Drag, TrackClick, GoLive, TogglePlay, Escape, JumpToMessage
  <2> QED BY <1>6, <2>1, <2>2, <2>3 DEF Moves
<1> QED BY <1>3, <1>4, <1>6, OnlyLoadsShow DEF timelineVars

\* handleSpanSelect and the effect that keeps a selection valid: whatever is selected,
\* extended and loaded, a selection starts and ends where turns do.
THEOREM WholeTurns == Spec => []SpanIsWholeTurns
<1>1. Init => SpanInv
  BY DEF Init, TimelineInit, SpanInv
<1> QED BY <1>1, CursorStarts, VersionsKept, SpanKept, SpanIsWhole, PTL DEF Spec

-----------------------------------------------------------------------------
(* What the panes show.                                                     *)

\* What the recursion of Total has made of the first k numbers.
Added(n, k, f) == f = [j \in 0..k |-> IF j = 0 THEN 0 ELSE f[j - 1] + n[j]]

LEMMA Adds ==
  ASSUME NEW n, NEW k \in Nat
  PROVE  \E f : Added(n, k, f)
<1> DEFINE T == {m \in Nat : \E f : Added(n, m, f)}
<1>1. 0 \in T
  <2> DEFINE g == [j \in 0..0 |-> 0]
  <2>1. \A j \in 0..0 : j = 0
    OBVIOUS
  <2>2. Added(n, 0, g)
    BY <2>1 DEF Added
  <2> QED BY <2>2
<1>2. ASSUME NEW m \in T
      PROVE  m + 1 \in T
  <2>1. PICK f : Added(n, m, f)
    OBVIOUS
  <2>2. m \in Nat
    OBVIOUS
  <2> DEFINE g == [j \in 0..(m + 1) |-> IF j = 0 THEN 0 ELSE f[j - 1] + n[j]]
  <2>3. \A j \in 0..(m + 1) : g[j] = IF j = 0 THEN 0 ELSE f[j - 1] + n[j]
    OBVIOUS
  <2>4. g = [j \in 0..(m + 1) |-> g[j]]
    OBVIOUS
  <2>5. \A j \in 0..m : f[j] = IF j = 0 THEN 0 ELSE f[j - 1] + n[j]
    BY <2>1 DEF Added
  <2> HIDE DEF g, T
  <2>6. \A j \in 0..m : g[j] = f[j]
    BY <2>2, <2>3, <2>5
  <2>7. \A j \in 0..(m + 1) : j # 0 => g[j - 1] = f[j - 1]
    BY <2>2, <2>6
  <2>8. \A j \in 0..(m + 1) : g[j] = IF j = 0 THEN 0 ELSE g[j - 1] + n[j]
    BY <2>3, <2>7
  <2>9. Added(n, m + 1, g)
    BY <2>4, <2>8 DEF Added
  <2>10. \E h : Added(n, m + 1, h)
    BY <2>9
  <2> QED BY <2>2, <2>10 DEF T
<1>3. T = Nat
  <2> HIDE DEF T
  <2>1. T \in SUBSET Nat
    BY DEF T
  <2> QED BY <1>1, <1>2, <2>1, NatInd
<1> QED BY <1>3

\* Total adds one number after the other.
LEMMA TotalSteps ==
  ASSUME NEW n \in Seq(Nat)
  PROVE  /\ Total(n, 0) = 0
         /\ \A i \in 1..Len(n) : Total(n, i) = Total(n, i - 1) + n[i]
         /\ \A i \in 0..Len(n) : Total(n, i) \in Nat
<1> DEFINE f == CHOOSE f : Added(n, Len(n), f)
<1>1. Len(n) \in Nat /\ \A i \in 1..Len(n) : n[i] \in Nat
  BY LenProperties, ElementOfSeq
<1>2. \A i : Total(n, i) = f[i]
  BY DEF Total, Added
<1>3. Added(n, Len(n), f)
  BY <1>1, Adds
<1> HIDE DEF f
<1>4. \A i \in 0..Len(n) : f[i] = IF i = 0 THEN 0 ELSE f[i - 1] + n[i]
  BY <1>3 DEF Added
<1>5. f[0] = 0 /\ \A i \in 1..Len(n) : f[i] = f[i - 1] + n[i]
  BY <1>1, <1>4
<1> DEFINE U == {k \in Nat : k <= Len(n) => f[k] \in Nat}
<1>6. 0 \in U
  BY <1>5
<1>7. ASSUME NEW k \in U
      PROVE  k + 1 \in U
  <2>1. CASE k + 1 <= Len(n)
    <3>1. k \in Nat /\ k + 1 \in 1..Len(n) /\ k + 1 - 1 = k /\ k <= Len(n)
      BY <1>1, <2>1
    <3>2. f[k] \in Nat
      BY <3>1
    <3>3. f[k + 1] = f[k] + n[k + 1]
      <4> HIDE DEF U
      <4>1. ASSUME NEW i \in 1..Len(n), i = k + 1 PROVE f[i] = f[k] + n[i]
        <5>1. i - 1 = k
          BY <3>1, <4>1
        <5> QED BY <1>5, <5>1
      <4> QED BY <3>1, <4>1
    <3>4. f[k + 1] \in Nat
      BY <1>1, <3>1, <3>2, <3>3
    <3> QED BY <3>4
  <2> QED BY <2>1
<1>8. U = Nat
  <2> HIDE DEF U
  <2>1. U \in SUBSET Nat
    BY DEF U
  <2> QED BY <1>6, <1>7, <2>1, NatInd
<1>9. \A i \in 0..Len(n) : f[i] \in Nat
  BY <1>1, <1>8
<1> QED BY <1>2, <1>5, <1>9

\* It grows with the members, and with their number.
LEMMA TotalGrows ==
  ASSUME NEW n \in Seq(Nat), NEW i \in 0..Len(n), NEW j \in i..Len(n)
  PROVE  Total(n, i) <= Total(n, j)
<1>1. Len(n) \in Nat /\ \A k \in 1..Len(n) : n[k] \in Nat
  BY LenProperties, ElementOfSeq
<1> DEFINE U == {k \in Nat : i + k <= Len(n) => Total(n, i) <= Total(n, i + k)}
<1>2. 0 \in U
  BY TotalSteps
<1>3. ASSUME NEW k \in U
      PROVE  k + 1 \in U
  <2>1. CASE i + (k + 1) <= Len(n)
    <3>1. k \in Nat /\ i + (k + 1) \in 1..Len(n) /\ i + (k + 1) - 1 = i + k /\ i + k \in 0..Len(n)
      BY <1>1, <2>1
    <3>2. Total(n, i) <= Total(n, i + k)
      BY <3>1
    <3> HIDE DEF U
    <3>3. \A x \in 1..Len(n) : \A y : y = x - 1 => Total(n, x) = Total(n, y) + n[x]
      BY TotalSteps
    <3>4. Total(n, i + (k + 1)) = Total(n, i + k) + n[i + (k + 1)]
      <4>1. ASSUME NEW x \in 1..Len(n), x = i + (k + 1) PROVE Total(n, x) = Total(n, i + k) + n[x]
        <5>1. x - 1 = i + k
          BY <1>1, <3>1, <4>1
        <5> QED BY <3>3, <5>1
      <4> QED BY <3>1, <4>1
    <3>5. Total(n, i) <= Total(n, i + (k + 1))
      BY SMTT(30), <1>1, <3>1, <3>2, <3>4, TotalSteps
    <3> QED BY <3>5 DEF U
  <2> QED BY <2>1
<1>4. U = Nat
  <2> HIDE DEF U
  <2>1. U \in SUBSET Nat
    BY DEF U
  <2> QED BY <1>2, <1>3, <2>1, NatInd
<1>5. j - i \in Nat /\ i + (j - i) = j
  BY <1>1
<1>6. j - i \in U
  <2> HIDE DEF U
  <2> QED BY <1>4, <1>5
<1> QED BY <1>1, <1>5, <1>6

LEMMA TotalCompares ==
  ASSUME NEW n \in Seq(Nat), NEW m \in Seq(Nat), Len(m) = Len(n),
         \A i \in 1..Len(n) : n[i] <= m[i], NEW j \in 0..Len(n)
  PROVE  Total(n, j) <= Total(m, j)
<1>1. Len(n) \in Nat /\ \A k \in 1..Len(n) : n[k] \in Nat /\ m[k] \in Nat
  BY LenProperties, ElementOfSeq
<1> DEFINE U == {k \in Nat : k <= Len(n) => Total(n, k) <= Total(m, k)}
<1>2. 0 \in U
  BY TotalSteps
<1>3. ASSUME NEW k \in U
      PROVE  k + 1 \in U
  <2>1. CASE k + 1 <= Len(n)
    <3>1. k \in Nat /\ k + 1 \in 1..Len(n) /\ k + 1 - 1 = k /\ k \in 0..Len(n)
      BY <1>1, <2>1
    <3>2. Total(n, k) <= Total(m, k)
      BY <3>1
    <3> HIDE DEF U
    <3>3. \A x \in 1..Len(n) : \A y : y = x - 1 =>
            Total(n, x) = Total(n, y) + n[x] /\ Total(m, x) = Total(m, y) + m[x]
      BY TotalSteps
    <3>4. /\ Total(n, k + 1) = Total(n, k) + n[k + 1]
          /\ Total(m, k + 1) = Total(m, k) + m[k + 1]
      BY <3>1, <3>3
    <3>6. /\ Total(n, k) \in Nat /\ Total(m, k) \in Nat
          /\ n[k + 1] \in Nat /\ m[k + 1] \in Nat /\ n[k + 1] <= m[k + 1]
      BY <1>1, <3>1, TotalSteps
    <3>5. Total(n, k + 1) <= Total(m, k + 1)
      <4>1. \A a, b, c, d \in Nat : a <= b /\ c <= d => a + c <= b + d
        OBVIOUS
      <4> QED BY <3>2, <3>4, <3>6, <4>1
    <3> QED BY <3>5 DEF U
  <2> QED BY <2>1
<1>4. U = Nat
  <2> HIDE DEF U
  <2>1. U \in SUBSET Nat
    BY DEF U
  <2> QED BY <1>2, <1>3, <2>1, NatInd
<1>5. j \in U
  <2> HIDE DEF U
  <2> QED BY <1>1, <1>4
<1> QED BY <1>1, <1>5

\* A flattened sequence is as long as its members together.
LEMMA FlattenLen ==
  ASSUME NEW S, NEW s \in Seq(Seq(S))
  PROVE  /\ [i \in DOMAIN s |-> Len(s[i])] \in Seq(Nat)
         /\ Len([i \in DOMAIN s |-> Len(s[i])]) = Len(s)
         /\ Len(FlattenSeq(s)) = Total([i \in DOMAIN s |-> Len(s[i])], Len(s))
<1> DEFINE n == [i \in DOMAIN s |-> Len(s[i])]
<1>1. Len(s) \in Nat /\ DOMAIN s = 1..Len(s) /\ \A i \in 1..Len(s) : s[i] \in Seq(S) /\ Len(s[i]) \in Nat
  BY LenProperties, ElementOfSeq
<1>2. n \in [1..Len(s) -> Nat] /\ \A i \in 1..Len(s) : n[i] = Len(s[i])
  BY <1>1
<1> HIDE DEF n
<1>3. n \in Seq(Nat) /\ Len(n) = Len(s)
  BY <1>1, <1>2, IsSequence
<1>4. CASE Len(s) = 0
  <2>1. s = << >>
    BY <1>1, <1>4, EmptySeq
  <2>2. FlattenSeq(s) = << >>
    BY <1>4, <2>1 DEF FlattenSeq
  <2>3. Total(n, 0) = 0
    BY <1>3, TotalSteps
  <2> QED BY <1>3, <1>4, <2>2, <2>3 DEF n
<1>5. CASE Len(s) # 0
  <2>1. PICK f : /\ FlattenSeq(s) = f[Len(s)]
                 /\ \A i \in 1..Len(s) : f[i] = IF i = 1 THEN s[i] ELSE f[i - 1] \o s[i]
    BY <1>1, <1>5, FlattenOf
  <2> DEFINE U == {k \in Nat : \A i \in 1..Len(s) : i = k + 1 =>
                     f[i] \in Seq(S) /\ Len(f[i]) = Total(n, i)}
  <2>2. 0 \in U
    <3>1. 1 \in 1..Len(s) /\ f[1] = s[1]
      BY <1>1, <1>5, <2>1
    <3>2. Total(n, 1) = n[1]
      <4>1. Total(n, 1) = Total(n, 1 - 1) + n[1] /\ Total(n, 0) = 0 /\ n[1] \in Nat
        BY <1>1, <1>2, <1>3, <3>1, TotalSteps
      <4> QED BY <4>1
    <3> QED BY <1>1, <1>2, <3>1, <3>2
  <2>3. ASSUME NEW k \in U
        PROVE  k + 1 \in U
    <3>1. ASSUME NEW i \in 1..Len(s), i = k + 1 + 1
          PROVE  f[i] \in Seq(S) /\ Len(f[i]) = Total(n, i)
      <4>1. i - 1 \in 1..Len(s) /\ i - 1 = k + 1 /\ i # 1
        BY <1>1, <3>1
      <4>2. f[i - 1] \in Seq(S) /\ Len(f[i - 1]) = Total(n, i - 1)
        BY <4>1
      <4> HIDE DEF U
      <4>3. f[i] = f[i - 1] \o s[i]
        BY <2>1, <4>1
      <4>4. f[i] \in Seq(S) /\ Len(f[i]) = Len(f[i - 1]) + Len(s[i])
        BY <1>1, <4>2, <4>3, ConcatProperties
      <4>5. Total(n, i) = Total(n, i - 1) + n[i]
        BY <1>3, TotalSteps
      <4> QED BY <1>2, <4>2, <4>4, <4>5
    <3> QED BY <3>1
  <2>4. U = Nat
    <3> HIDE DEF U
    <3>1. U \in SUBSET Nat
      BY DEF U
    <3> QED BY <2>2, <2>3, <3>1, NatInd
  <2>5. Len(s) - 1 \in U
    <3> HIDE DEF U
    <3> QED BY <1>1, <1>5, <2>4
  <2>6. Len(s) \in 1..Len(s) /\ Len(s) = Len(s) - 1 + 1
    BY <1>1, <1>5
  <2>7. Len(f[Len(s)]) = Total(n, Len(s))
    BY <2>5, <2>6
  <2> QED BY <1>3, <2>1, <2>7 DEF n
<1> QED BY <1>1, <1>4, <1>5

\* How many events and how many slots a message has.
LEMMA MessageCounts ==
  ASSUME NEW v \in 0..MaxVersion, NEW i \in DOMAIN Content[v]
  PROVE  LET m == Content[v][i]
             shownCalls == {j \in DOMAIN m.tools : m.tools[j] # "intent"}
         IN /\ DOMAIN m.tools = 1..Len(m.tools) /\ Len(m.tools) \in Nat
            /\ Len(EventsOf(m)) \in Nat /\ Slots(m) \in Nat \ {0}
            /\ Len(EventsOf(m)) <= Slots(m)
            /\ m.tools # <<>> => Len(EventsOf(m)) = Cardinality(shownCalls) /\ Slots(m) = Len(m.tools)
            /\ EventsOf(m) # <<>> => Len(EventsOf(m)) >= 1
<1> DEFINE m == Content[v][i]
           one == [message |-> m.id, user |-> m.role = "user"]
           shownCalls == {j \in DOMAIN m.tools : m.tools[j] # "intent"}
           n == Cardinality(shownCalls)
           each == [k \in 1..n |-> one]
<1>1. m.tools \in Seq(STRING) /\ (m.tools # <<>> => m.role = "assistant")
  BY ContentAssumption
<1>2. /\ DOMAIN m.tools = 1..Len(m.tools) /\ Len(m.tools) \in Nat
      /\ m.tools = <<>> <=> Len(m.tools) = 0
  BY <1>1, LenProperties, EmptySeq
<1>3. n \in Nat /\ n <= Len(m.tools)
  <2>1. IsFiniteSet(DOMAIN m.tools) /\ Cardinality(DOMAIN m.tools) = Len(m.tools)
    <3>1. \A k \in Nat : IsFiniteSet(1..k) /\ Cardinality(1..k) = k
      BY FS_Interval
    <3> QED BY <1>2, <3>1
  <2>2. IsFiniteSet(shownCalls) /\ Cardinality(shownCalls) <= Cardinality(DOMAIN m.tools)
    BY <2>1, FS_Subset
  <2> QED BY <2>1, <2>2, FS_CardinalityType
<1>4. Len(each) = n /\ (n = 0 <=> each = <<>>)
  <2> HIDE DEF n
  <2>1. each \in Seq({one}) /\ Len(each) = n
    BY <1>3, IsSequence
  <2> QED BY <2>1, EmptySeq
<1>5. EventsOf(m) = CASE m.role = "user" -> <<one>>
                      [] m.role = "assistant" /\ m.tools = <<>> -> <<one>>
                      [] m.role = "assistant" /\ m.tools # <<>> -> each
                      [] OTHER -> <<>>
  BY DEF EventsOf
<1> HIDE DEF n, each, m, one, shownCalls
<1>6. CASE m.tools # <<>>
  <2>1. m.role = "assistant" /\ m.role # "user"
    BY <1>1, <1>6
  <2>2. EventsOf(m) = each
    BY <1>5, <1>6, <2>1
  <2>3. Slots(m) = Len(m.tools)
    BY <1>6, <2>1 DEF Slots
  <2> QED BY <1>2, <1>3, <1>4, <1>6, <2>2, <2>3 DEF n, shownCalls, m
<1>7. CASE m.tools = <<>>
  <2>1. Slots(m) = 1
    BY <1>7 DEF Slots
  <2>2. EventsOf(m) = <<one>> \/ EventsOf(m) = <<>>
    BY <1>5, <1>7
  <2>3. Len(<<one>>) = 1 /\ Len(<<>>) = 0
    OBVIOUS
  <2>4. Len(EventsOf(m)) \in {0, 1} /\ (EventsOf(m) # <<>> => Len(EventsOf(m)) = 1)
    BY <2>2, <2>3
  <2>5. Len(EventsOf(m)) \in Nat /\ Slots(m) \in Nat \ {0} /\ Len(EventsOf(m)) <= Slots(m)
    BY <2>1, <2>4
  <2> QED BY <1>2, <1>7, <2>4, <2>5 DEF m
<1> QED BY <1>6, <1>7

\* Where the events and the slots of a message are.
LEMMA MessageSums ==
  ASSUME VersionInv
  PROVE  /\ DOMAIN messages = 1..Len(messages) /\ Len(messages) \in Nat
         /\ \A i \in DOMAIN messages :
              /\ FirstEvent(i) \in Nat /\ Before(i) \in Nat /\ FirstEvent(i) <= Before(i)
              /\ FirstEvent(i) + Len(EventsOf(messages[i])) <= Len(events)
<1> DEFINE N == Len(messages)
           each == [j \in DOMAIN messages |-> EventsOf(messages[j])]
           ev == [j \in DOMAIN messages |-> Len(EventsOf(messages[j]))]
           sl == [j \in DOMAIN messages |-> Slots(messages[j])]
<1>1. shown \in 0..MaxVersion /\ messages = Content[shown]
  BY EventsShape DEF messages
<1>2. N \in Nat /\ DOMAIN messages = 1..N
  BY <1>1, EventsByMessage
<1>3. \A i \in 1..N : /\ Len(EventsOf(messages[i])) \in Nat /\ Slots(messages[i]) \in Nat
                      /\ Len(EventsOf(messages[i])) <= Slots(messages[i])
  BY <1>1, <1>2, MessageCounts
<1>4. ev \in [1..N -> Nat] /\ sl \in [1..N -> Nat]
  BY <1>2, <1>3
<1>5. \A i \in 1..N : ev[i] = Len(EventsOf(messages[i])) /\ sl[i] = Slots(messages[i])
  BY <1>2
<1> HIDE DEF N
<1>6. Len(events) = Total(ev, N)
  <2>1. PICK S : each \in Seq(Seq(S))
    BY <1>1, EventsByMessage
  <2>2. events = FlattenSeq(each)
    BY DEF events, buildEvents
  <2>3. DOMAIN each = DOMAIN messages /\ \A i \in DOMAIN messages : each[i] = EventsOf(messages[i])
    OBVIOUS
  <2> HIDE DEF each
  <2>4. ev = [i \in DOMAIN each |-> Len(each[i])]
    BY <2>3
  <2> HIDE DEF ev
  <2>5. Len(each) = N
    <3>1. Len(each) \in Nat /\ DOMAIN each = 1..Len(each)
      BY <2>1, LenProperties
    <3> QED BY <1>2, <2>3, <3>1
  <2>6. Len(FlattenSeq(each)) = Total([i \in DOMAIN each |-> Len(each[i])], Len(each))
    BY <2>1, FlattenLen
  <2> QED BY <2>2, <2>4, <2>5, <2>6
<1>7. \A i : FirstEvent(i) = Total(ev, i - 1) /\ Before(i) = Total(sl, i - 1)
  BY DEF FirstEvent, Before
<1> HIDE DEF ev, sl
<1>8. ev \in Seq(Nat) /\ Len(ev) = N /\ sl \in Seq(Nat) /\ Len(sl) = N
  BY <1>2, <1>4, IsSequence
<1>9. ASSUME NEW i \in 1..N
      PROVE  /\ FirstEvent(i) \in Nat /\ Before(i) \in Nat /\ FirstEvent(i) <= Before(i)
             /\ FirstEvent(i) + Len(EventsOf(messages[i])) <= Len(events)
  <2>1. i - 1 \in 0..N /\ i \in 0..N /\ N \in i..N
    BY <1>2
  <2>2. Total(ev, i - 1) \in Nat /\ Total(sl, i - 1) \in Nat /\ Total(ev, i) = Total(ev, i - 1) + ev[i]
    BY <1>8, <2>1, TotalSteps
  <2>3. Total(ev, i - 1) <= Total(sl, i - 1)
    BY <1>3, <1>5, <1>8, <2>1, TotalCompares
  <2>4. Total(ev, i) <= Total(ev, N)
    BY <1>8, <2>1, TotalGrows
  <2> QED BY <1>5, <1>6, <1>7, <2>2, <2>3, <2>4
<1> QED BY <1>2, <1>9 DEF N

\* At the end of the timeline everything is shown, before it a prefix of the events.
LEMMA PrefixIsShown ==
  ASSUME VersionInv, CursorInv
  PROVE  NothingFromTheFuture
<1> SUFFICES ASSUME span = None PROVE NothingFromTheFuture
  BY DEF NothingFromTheFuture
<1>1. /\ shown \in 0..MaxVersion /\ messages = Content[shown] /\ Len(events) \in Nat
      /\ events = <<>> <=> Len(events) = 0
      /\ maxIndex = IF Len(events) = 0 THEN 0 ELSE Len(events) - 1
      /\ maxIndex \in Nat /\ cursor \in 0..maxIndex
  BY EventsShape DEF messages, CursorInv
<1>2. ASSUME NEW i \in DOMAIN messages
      PROVE  /\ FirstEvent(i) \in Nat /\ Before(i) \in Nat /\ FirstEvent(i) <= Before(i)
             /\ FirstEvent(i) + Len(EventsOf(messages[i])) <= Len(events)
             /\ Len(EventsOf(messages[i])) \in Nat /\ Slots(messages[i]) \in Nat \ {0}
             /\ EventsOf(messages[i]) # <<>> => Len(EventsOf(messages[i])) >= 1
  BY <1>1, MessageSums, MessageCounts
<1>3. ASSUME NEW i \in DOMAIN messages, NEW k \in DOMAIN messages[i].tools,
             messages[i].tools[k] # "intent", <<i, k>> \in visibleTools
      PROVE  EventOf(i, k) <= cursor
  <2> DEFINE m == messages[i]
             made == {j \in DOMAIN m.tools : m.tools[j] # "intent"}
             before == {j \in 1..(k - 1) : m.tools[j] # "intent"}
  <2>1. /\ DOMAIN m.tools = 1..Len(m.tools) /\ Len(m.tools) \in Nat
        /\ Len(EventsOf(m)) = Cardinality(made)
    <3>1. m.tools # <<>>
      BY <1>3
    <3> QED BY <1>1, <3>1, MessageCounts
  <2>2. k \in Nat \ {0}
    BY <2>1
  <2>3. /\ IsFiniteSet(before) /\ Cardinality(before) <= k - 1 /\ Cardinality(before) \in Nat
    <3>1. IsFiniteSet(1..(k - 1)) /\ Cardinality(1..(k - 1)) = k - 1
      <4>1. \A j \in Nat : IsFiniteSet(1..j) /\ Cardinality(1..j) = j
        BY FS_Interval
      <4> QED BY <2>2, <4>1
    <3>2. before \subseteq 1..(k - 1)
      OBVIOUS
    <3> HIDE DEF before
    <3> QED BY <3>1, <3>2, FS_Subset, FS_CardinalityType
  <2>4. Cardinality(before) + 1 <= Cardinality(made)
    <3>1. IsFiniteSet(DOMAIN m.tools)
      <4>1. \A j \in Nat : IsFiniteSet(1..j)
        BY FS_Interval
      <4> QED BY <2>1, <4>1
    <3>2. IsFiniteSet(made) /\ Cardinality(made) \in Nat
      BY <3>1, FS_Subset, FS_CardinalityType
    <3>3. before \cup {k} \subseteq made /\ k \notin before
      BY <1>3, <2>1, <2>2
    <3> HIDE DEF before, made
    <3>4. Cardinality(before \cup {k}) = Cardinality(before) + 1
      BY <2>3, <3>3, FS_AddElement
    <3>5. Cardinality(before \cup {k}) <= Cardinality(made)
      BY <3>2, <3>3, FS_Subset
    <3> QED BY <3>4, <3>5
  <2>5. EventOf(i, k) = FirstEvent(i) + Cardinality(before)
    BY DEF EventOf
  <2>6. Before(i) + k - 1 <= cursor \/ cursor >= maxIndex
    BY <1>3 DEF visibleTools
  <2> HIDE DEF made, before, m
  <2>7. /\ FirstEvent(i) \in Nat /\ Before(i) \in Nat /\ FirstEvent(i) <= Before(i)
        /\ FirstEvent(i) + Cardinality(made) <= Len(events) /\ Cardinality(made) \in Nat
    BY <1>2, <2>1 DEF m
  <2>8. CASE Before(i) + k - 1 <= cursor
    BY <1>1, <2>2, <2>3, <2>5, <2>7, <2>8
  <2>9. CASE cursor >= maxIndex
    BY <1>1, <2>3, <2>4, <2>5, <2>7, <2>9
  <2> QED BY <2>6, <2>8, <2>9
<1>4. ASSUME NEW i \in visibleMessages, EventsOf(messages[i]) # <<>>
      PROVE  EventOf(i, 1) <= cursor
  <2>1. /\ i \in DOMAIN messages
        /\ Before(i) + Slots(messages[i]) - 1 <= cursor \/ cursor >= maxIndex
    BY <1>4 DEF visibleMessages
  <2>2. EventOf(i, 1) = FirstEvent(i)
    <3>1. {j \in 1..(1 - 1) : messages[i].tools[j] # "intent"} = {}
      OBVIOUS
    <3>2. FirstEvent(i) \in Nat
      BY <1>2, <2>1
    <3> QED BY <3>1, <3>2, FS_EmptySet DEF EventOf
  <2> QED BY <1>1, <1>2, <1>4, <2>1, <2>2
<1>5. ASSUME cursor = maxIndex
      PROVE  /\ drawerMessages = DOMAIN messages
             /\ \A i \in DOMAIN messages : {i} \X DOMAIN messages[i].tools \subseteq visibleTools
  <2>1. cursor >= maxIndex
    BY <1>1, <1>5
  <2>2. visibleMessages = DOMAIN messages
    BY <2>1 DEF visibleMessages
  <2>3. drawerMessages = DOMAIN messages
    BY <2>2 DEF drawerMessages
  <2>4. \A i \in DOMAIN messages : {i} \X DOMAIN messages[i].tools \subseteq visibleTools
    BY <2>1 DEF visibleTools
  <2> QED BY <2>3, <2>4
<1>6. ASSUME NEW t \in visibleTools, messages[t[1]].tools[t[2]] # "intent"
      PROVE  EventOf(t[1], t[2]) <= cursor
  <2>1. PICK i \in DOMAIN messages : t \in {i} \X DOMAIN messages[i].tools
    BY DEF visibleTools
  <2>2. t[1] = i /\ t[2] \in DOMAIN messages[i].tools /\ t = <<i, t[2]>>
    BY <2>1
  <2> QED BY <1>3, <1>6, <2>2
<1> QED BY <1>4, <1>5, <1>6 DEF NothingFromTheFuture

\* The panes count a message as at least as many slots as it has events, so that what
\* they show by their count is not after the cursor by the timeline's.
THEOREM PrefixOfEvents == Spec => []NothingFromTheFuture
BY CursorStarts, VersionsKept, CursorKept, PrefixIsShown, PTL DEF Spec

-----------------------------------------------------------------------------
(* The cache of an adapter *)

Cache == [Ids -> Entries \cup {NoEntry}]

PollType == [at : {"idle", "walk", "older", "rebuild", "stat", "due", "pass"},
             todo : SUBSET Ids, base : Nat, ts : Nat, found : [Ids -> Nat],
             old : Cache, new : Cache, id : Ids \cup {NoEntry}, ver : Nat, met : BOOLEAN]
LoadType == [at : {"idle", "list", "load", "second", "relist"}, todo : SUBSET Ids, new : Cache,
             id : Ids \cup {NoEntry}, first : Nat, met : BOOLEAN, polled : BOOLEAN]

\* No entry is newer than the last change of the disk.
Past(es) == \A i \in Ids : es[i] # NoEntry => es[i].stamp <= clock

\* The file of i is in the cache as it is on disk.
Matches(es, i) == es[i] # NoEntry /\ es[i].ver = disk[i] /\ es[i].stamp = disk[i]

\* A file that is not newer than some entry is in the cache as it is.
Fresh(es) == \A i, j \in Ids : (es[j] # NoEntry /\ disk[i] # 0 /\ disk[i] <= es[j].stamp)
                                 => Matches(es, i)

\* Of session i the cache has the file there is, or nothing.
Reflects(es, i) == IF disk[i] = 0 THEN es[i] = NoEntry ELSE Matches(es, i)

DiskInv ==
  /\ disk \in [Ids -> Nat] /\ clock \in Nat
  /\ \A i \in Ids : disk[i] <= clock

\* The newest time of the cache is that of an entry, and what is not mixed is fresh: a
\* file that changes later is newer than every entry.
StoredInv ==
  /\ entries \in Cache /\ lastMod \in Nat /\ mixed \in BOOLEAN
  /\ Past(entries)
  /\ lastMod = 0 \/ \E j \in Ids : entries[j] # NoEntry /\ lastMod = entries[j].stamp
  /\ ~mixed => Fresh(entries)

\* Until a file changes, the poller has seen those it is through with as they are, what
\* it builds has them, and what it builds upon is fresh.
Building == {"older", "rebuild", "stat"}
ScanInv ==
  /\ poll \in PollType /\ (poll.at = "stat" => poll.id \in Ids)
  /\ \A i \in Ids : poll.found[i] <= clock
  /\ Past(poll.old) /\ Past(poll.new)
  /\ poll.at = "walk" => poll.new = Empty
  /\ ~poll.met =>
       /\ poll.at = "walk" => \A i \in Ids : i \in poll.todo \/ poll.found[i] = disk[i]
       /\ poll.at \in Building => \A i \in Ids :
            /\ poll.found[i] = disk[i] /\ (i \in poll.todo => disk[i] # 0)
            /\ i \in poll.todo \/ (poll.at = "stat" /\ i = poll.id) \/ Reflects(poll.new, i)
       /\ poll.at \in {"rebuild", "stat"} => Fresh(poll.old)
       /\ poll.at = "stat" => poll.ver = disk[poll.id] /\ poll.ver # 0

\* So has the pass that loads.
LoadingInv ==
  /\ pass \in LoadType /\ (pass.at = "second" => pass.id \in Ids)
  /\ Past(pass.new) /\ pass.first <= clock
  /\ pass.at = "list" => pass.new = Empty
  /\ ~pass.met =>
       /\ pass.at \in {"load", "second"} => \A i \in Ids :
            /\ i \in pass.todo => disk[i] # 0
            /\ i \in pass.todo \/ (pass.at = "second" /\ i = pass.id) \/ Reflects(pass.new, i)
       /\ pass.at = "second" => pass.first = disk[pass.id] /\ pass.first # 0

CacheInv == DiskInv /\ StoredInv /\ ScanInv /\ LoadingInv

-----------------------------------------------------------------------------
(* Stamps of the cache *)

LEMMA LatestIsOne ==
  ASSUME NEW S \in SUBSET Nat, NEW b \in Nat, \A s \in S : s <= b
  PROVE  /\ LatestOf(S) \in S \cup {0} /\ LatestOf(S) \in Nat
         /\ \A s \in S : s <= LatestOf(S)
<1> DEFINE T == {n \in Nat : \A s \in S : s <= n}
           Z == S \cup {0}
<1>1. PICK m \in T : \A n \in T : m <= n
  BY LeastNat
<1>2. m \in Z
  <2> SUFFICES ASSUME m \notin Z PROVE FALSE
    OBVIOUS
  <2>1. m - 1 \in Nat /\ \A s \in S : s <= m - 1
    BY <1>1
  <2>2. m - 1 \in T
    BY <2>1
  <2>3. m <= m - 1
    BY <1>1, <2>2
  <2> QED BY <1>1, <2>3
<1>3. \A z \in Z : m >= z
  BY <1>1
<1>4. \E z \in Z : \A y \in Z : z >= y
  BY <1>2, <1>3
<1>5. LatestOf(S) = CHOOSE z \in Z : \A y \in Z : z >= y
  BY DEF LatestOf, Max
<1>6. LatestOf(S) \in Z /\ \A y \in Z : LatestOf(S) >= y
  BY <1>4, <1>5
<1>7. Z \subseteq Nat /\ S \subseteq Z /\ Z = S \cup {0}
  OBVIOUS
<1> HIDE DEF Z
<1> QED BY <1>6, <1>7

\* The newest file the poller found.
LEMMA FoundIsNat ==
  ASSUME clock \in Nat, poll \in PollType, \A i \in Ids : poll.found[i] <= clock
  PROVE  /\ Found \in Nat
         /\ \A i \in Ids : poll.found[i] # 0 => poll.found[i] <= Found
<1> DEFINE S == {poll.found[i] : i \in Ids}
<1>1. poll.found \in [Ids -> Nat] /\ clock \in Nat
  BY DEF PollType
<1>2. S \in SUBSET Nat /\ \A s \in S : s <= clock
  BY <1>1
<1>3. /\ LatestOf(S) \in Nat
      /\ \A s \in S : s <= LatestOf(S)
  BY <1>1, <1>2, LatestIsOne
<1>4. \A i \in Ids : poll.found[i] <= LatestOf(S)
  BY <1>3
<1> HIDE DEF S
<1>5. Found = IF \A i \in Ids : poll.found[i] = 0 THEN Now ELSE LatestOf(S)
  BY DEF Found, S
<1> QED BY <1>1, <1>3, <1>4, <1>5 DEF Now

LEMMA NoEntryIsNone == \A ver, stamp \in Nat : \A key \in {"file", "session"} :
                         Entry(ver, stamp, key) \in Entries /\ Entry(ver, stamp, key) # NoEntry
  BY CacheAssumption DEF Entry, Entries

\* What replaces the entries, and the stamp it is given.
LEMMA Replaced ==
  ASSUME NEW es \in Cache, clock \in Nat, Past(es), ReplaceEntries(es)
  PROVE  /\ entries' = es /\ lastMod' \in Nat
         /\ lastMod' = 0 \/ \E j \in Ids : es[j] # NoEntry /\ lastMod' = es[j].stamp
<1> DEFINE S == {es[i].stamp : i \in Held(es)}
<1>1. \A i \in Held(es) : i \in Ids /\ es[i] # NoEntry /\ es[i].stamp \in Nat /\ es[i].stamp <= clock
  BY DEF Held, Cache, Entries, Past
<1>2. S \in SUBSET Nat /\ \A s \in S : s <= clock
  BY <1>1
<1>3. LatestOf(S) \in S \cup {0} /\ LatestOf(S) \in Nat
  BY <1>2, LatestIsOne
<1>4. LatestOf(S) = 0 \/ \E j \in Held(es) : LatestOf(S) = es[j].stamp
  BY <1>3
<1>5. entries' = es /\ lastMod' = LatestOf(S)
  BY DEF ReplaceEntries
<1> HIDE DEF S
<1> QED BY <1>1, <1>3, <1>4, <1>5

-----------------------------------------------------------------------------
(* Steps on the cache *)

LEMMA EmptyIsFresh == Empty \in Cache /\ Past(Empty) /\ Fresh(Empty)
  BY DEF Empty, Cache, Past, Fresh

LEMMA ChangeKeeps ==
  ASSUME CacheInv, NEW i \in Ids, NEW when \in {0, clock + 2}, Change(i, when)
  PROVE  CacheInv'
<1>1. /\ clock' = clock + 2 /\ disk' = [disk EXCEPT ![i] = when]
      /\ poll' = [poll EXCEPT !.met = TRUE] /\ pass' = [pass EXCEPT !.met = TRUE]
      /\ entries' = entries /\ lastMod' = lastMod /\ mixed' = mixed
  BY DEF Change, cacheVars
<1>2. DiskInv'
  BY <1>1 DEF CacheInv, DiskInv
<1>3. /\ clock \in Nat /\ clock <= clock'
  BY <1>1 DEF CacheInv, DiskInv
<1>4. ASSUME NEW es \in Cache, Past(es) PROVE \A j \in Ids : es[j] # NoEntry => es[j].stamp <= clock'
  BY <1>3, <1>4, <1>2 DEF Past, Cache, Entries, DiskInv
<1>5. StoredInv'
  <2>1. \A j \in Ids : entries[j] # NoEntry => entries[j].stamp \in Nat /\ entries[j].stamp <= clock
    BY DEF CacheInv, StoredInv, Past, Cache, Entries
  <2>2. \A j \in Ids : disk'[j] # disk[j] => disk'[j] = 0 \/ disk'[j] = clock + 2
    BY <1>1 DEF CacheInv, DiskInv
  <2>3. ASSUME ~mixed, NEW j \in Ids, NEW k \in Ids, entries[k] # NoEntry, disk'[j] # 0,
               disk'[j] <= entries[k].stamp
        PROVE  disk'[j] = disk[j] /\ Matches(entries, j)
    <3>1. disk'[j] = disk[j]
      BY <1>3, <2>1, <2>2, <2>3
    <3> QED BY <2>3, <3>1 DEF CacheInv, StoredInv, Fresh
  <2>4. ~mixed' => Fresh(entries)'
    BY <1>1, <2>3 DEF Fresh, Matches
  <2>5. Past(entries)'
    BY <1>1, <1>4 DEF CacheInv, StoredInv, Past
  <2> QED BY <1>1, <2>4, <2>5 DEF CacheInv, StoredInv
<1>6. ScanInv'
  <2>1. /\ poll \in PollType /\ poll.found \in [Ids -> Nat] /\ poll.old \in Cache /\ poll.new \in Cache
        /\ poll' \in PollType /\ poll'.found = poll.found /\ poll'.old = poll.old
        /\ poll'.new = poll.new /\ poll'.met /\ poll'.at = poll.at /\ poll'.id = poll.id
    <3>1. poll \in PollType
      BY DEF CacheInv, ScanInv
    <3> QED BY <1>1, <3>1 DEF PollType
  <2>2. \A j \in Ids : poll'.found[j] <= clock'
    BY <1>2, <1>3, <2>1 DEF CacheInv, ScanInv, DiskInv
  <2>3. Past(poll.old)' /\ Past(poll.new)'
    BY <1>4, <2>1 DEF CacheInv, ScanInv, Past
  <2> QED BY <2>1, <2>2, <2>3 DEF CacheInv, ScanInv, Empty
<1>7. LoadingInv'
  <2>1. /\ pass \in LoadType /\ pass.new \in Cache /\ pass.first \in Nat
        /\ pass' \in LoadType /\ pass'.new = pass.new /\ pass'.first = pass.first
        /\ pass'.met /\ pass'.at = pass.at /\ pass'.id = pass.id
    <3>1. pass \in LoadType
      BY DEF CacheInv, LoadingInv
    <3> QED BY <1>1, <3>1 DEF LoadType
  <2>2. Past(pass.new)' /\ pass'.first <= clock'
    BY <1>2, <1>3, <1>4, <2>1 DEF CacheInv, LoadingInv, Past, DiskInv
  <2> QED BY <2>1, <2>2 DEF CacheInv, LoadingInv
<1> QED BY <1>2, <1>5, <1>6, <1>7 DEF CacheInv

\* A part that a step leaves alone, the disk too, is as before.
LEMMA PartsStay ==
  ASSUME CacheInv, UNCHANGED <<disk, clock>>
  PROVE  /\ DiskInv'
         /\ UNCHANGED <<entries, lastMod, mixed>> => StoredInv'
         /\ UNCHANGED poll => ScanInv'
         /\ UNCHANGED pass => LoadingInv'
         /\ \A es : Past(es)' = Past(es) /\ Fresh(es)' = Fresh(es)
         /\ \A es, i : Reflects(es, i)' = Reflects(es, i)
<1>1. DiskInv'
  BY DEF CacheInv, DiskInv
<1>2. UNCHANGED <<entries, lastMod, mixed>> => StoredInv'
  BY DEF CacheInv, StoredInv, Past, Fresh, Matches
<1>3. UNCHANGED poll => ScanInv'
  BY DEF CacheInv, ScanInv, Past, Fresh, Matches, Reflects, Empty
<1>4. UNCHANGED pass => LoadingInv'
  BY DEF CacheInv, LoadingInv, Past, Matches, Reflects
<1> QED BY <1>1, <1>2, <1>3, <1>4 DEF Past, Fresh, Matches, Reflects

LEMMA RestingTypes == RestingPoll \in PollType /\ RestingPass \in LoadType
<1>1. Empty \in Cache /\ [i \in Ids |-> 0] \in [Ids -> Nat]
  BY EmptyIsFresh
<1> QED BY <1>1 DEF RestingPoll, RestingPass, PollType, LoadType

\* A poller that reads nothing has nothing to answer for.
LEMMA PollAtRest ==
  ASSUME NEW at \in {"idle", "due", "pass"}, clock' \in Nat, NEW p,
         p = [RestingPoll EXCEPT !.at = at], poll' = p
  PROVE  ScanInv'
<1>1. p \in PollType /\ p.at = at /\ (\A i \in Ids : p.found[i] = 0) /\ p.old = Empty /\ p.new = Empty
  BY RestingTypes DEF RestingPoll, PollType
<1>2. \A i \in Ids : p.found[i] <= clock'
  BY <1>1
<1> QED BY <1>1, <1>2 DEF ScanInv, Past, Empty, Building

LEMMA Observed ==
  ASSUME NEW ts, Observe(ts), clock' \in Nat
  PROVE  ScanInv'
<1>1. PICK at \in {"idle", "due"} : poll' = [RestingPoll EXCEPT !.at = at]
  BY DEF Observe
<1> QED BY <1>1, PollAtRest

\* Entries that are replaced by fresh ones, or are mixed.
LEMMA Stored ==
  ASSUME CacheInv, UNCHANGED <<disk, clock>>, NEW es \in Cache, Past(es), NEW m \in BOOLEAN,
         ~m => Fresh(es), ReplaceEntries(es), mixed' = m
  PROVE  StoredInv'
<1>1. clock \in Nat
  BY DEF CacheInv, DiskInv
<1>2. /\ entries' = es /\ lastMod' \in Nat
      /\ lastMod' = 0 \/ \E j \in Ids : es[j] # NoEntry /\ lastMod' = es[j].stamp
  BY <1>1, Replaced
<1> QED BY <1>2 DEF StoredInv, Past, Fresh, Matches

\* A cache that has all the files there are is fresh.
LEMMA ReflectsAll ==
  ASSUME NEW es, \A i \in Ids : Reflects(es, i)
  PROVE  Fresh(es)
  BY DEF Reflects, Fresh

-----------------------------------------------------------------------------
(* The poller *)

LEMMA BeginPollKeeps ==
  ASSUME CacheInv, BeginPoll
  PROVE  CacheInv'
<1>1. /\ UNCHANGED <<disk, clock>> /\ UNCHANGED <<entries, lastMod, mixed>> /\ UNCHANGED pass
      /\ poll' = [RestingPoll EXCEPT !.at = "walk", !.todo = Present, !.base = lastMod]
  BY DEF BeginPoll, diskVars, cacheVars
<1>2. PICK p : p = [RestingPoll EXCEPT !.at = "walk", !.todo = Present, !.base = lastMod]
  OBVIOUS
<1>3. Present \in SUBSET Ids /\ lastMod \in Nat /\ clock \in Nat
  BY DEF Present, CacheInv, StoredInv, DiskInv
<1>4. /\ p \in PollType /\ p.at = "walk" /\ p.todo = Present /\ p.old = Empty /\ p.new = Empty
      /\ p.found = [i \in Ids |-> 0]
  BY <1>2, <1>3, RestingTypes DEF RestingPoll, PollType
<1>5. poll' = p
  BY <1>1, <1>2
<1>6. \A i \in Ids : i \in p.todo \/ p.found[i] = disk[i]
  BY <1>4 DEF Present
<1>7. \A i \in Ids : p.found[i] <= clock
  BY <1>3, <1>4
<1>8. disk' = disk /\ clock' = clock /\ \A i \in Ids : Empty[i] = NoEntry
  BY <1>1 DEF Empty
<1>9. \A i \in Ids : i \in p.todo \/ p.found[i] = disk'[i]
  BY <1>6, <1>8
<1>10. Empty' = Empty
  BY DEF Empty
<1>11. ScanInv'
  BY <1>4, <1>5, <1>7, <1>8, <1>9, <1>10 DEF ScanInv, Past, Building
<1> QED BY <1>1, <1>11, PartsStay DEF CacheInv

\* What a step of the scan leaves: the files found are as they are on disk, but for
\* those still to be seen.
LEMMA WalkFileKeeps ==
  ASSUME CacheInv, NEW i \in Ids, WalkFile(i)
  PROVE  CacheInv'
<1>1. /\ UNCHANGED <<disk, clock>> /\ UNCHANGED <<entries, lastMod, mixed>> /\ UNCHANGED pass
      /\ poll.at = "walk" /\ i \in poll.todo
      /\ poll' = [poll EXCEPT !.todo = @ \ {i}, !.found[i] = disk[i]]
  BY DEF WalkFile, diskVars, cacheVars
<1>2. PICK p : p = [poll EXCEPT !.todo = @ \ {i}, !.found[i] = disk[i]]
  OBVIOUS
<1>3. poll \in PollType /\ disk \in [Ids -> Nat] /\ clock \in Nat /\ \A j \in Ids : disk[j] <= clock
  BY DEF CacheInv, ScanInv, DiskInv
<1>4. /\ p \in PollType /\ p.at = "walk" /\ p.todo = poll.todo \ {i} /\ p.old = poll.old
      /\ p.new = poll.new /\ p.found = [poll.found EXCEPT ![i] = disk[i]] /\ p.met = poll.met
  BY <1>1, <1>2, <1>3 DEF PollType
<1>5. poll.found \in [Ids -> Nat]
  BY <1>3 DEF PollType
<1>6. \A j \in Ids : p.found[j] = IF j = i THEN disk[i] ELSE poll.found[j]
  BY <1>4, <1>5
<1>7. /\ \A j \in Ids : p.found[j] <= clock
      /\ ~p.met => \A j \in Ids : j \in p.todo \/ p.found[j] = disk[j]
  BY <1>1, <1>3, <1>4, <1>6 DEF CacheInv, ScanInv
<1>8. poll' = p /\ disk' = disk /\ clock' = clock
  BY <1>1, <1>2
<1>9. Empty' = Empty /\ p.new = Empty
  BY <1>1, <1>4 DEF Empty, CacheInv, ScanInv
<1>10. ScanInv'
  BY <1>4, <1>7, <1>8, <1>9 DEF CacheInv, ScanInv, Past, Building
<1> QED BY <1>1, <1>10, PartsStay DEF CacheInv

LEMMA ScanKeepsKeeps ==
  ASSUME CacheInv, ScanKeeps
  PROVE  CacheInv'
<1>1. /\ UNCHANGED <<disk, clock>> /\ UNCHANGED <<entries, lastMod, mixed>> /\ UNCHANGED pass
      /\ Observe(Found)
  BY DEF ScanKeeps, diskVars, cacheVars
<1>2. clock' \in Nat
  BY <1>1 DEF CacheInv, DiskInv
<1>3. ScanInv'
  BY <1>1, <1>2, Observed
<1> QED BY <1>1, <1>3, PartsStay DEF CacheInv

LEMMA EmptyIfOlderKeeps ==
  ASSUME CacheInv, EmptyIfOlder
  PROVE  CacheInv'
<1>1. /\ UNCHANGED <<disk, clock>> /\ UNCHANGED pass /\ Observe(Found)
      /\ \/ ReplaceEntries(Empty) /\ mixed' = FALSE
         \/ UNCHANGED <<entries, lastMod, mixed>>
  BY DEF EmptyIfOlder, diskVars, cacheVars
<1>2. clock' \in Nat
  BY <1>1 DEF CacheInv, DiskInv
<1>3. ScanInv'
  BY <1>1, <1>2, Observed
<1>4. StoredInv'
  BY <1>1, EmptyIsFresh, Stored, PartsStay
<1> QED BY <1>1, <1>3, <1>4, PartsStay DEF CacheInv

LEMMA BeginRebuildKeeps ==
  ASSUME CacheInv, BeginRebuild
  PROVE  CacheInv'
<1> DEFINE files == {i \in Ids : poll.found[i] # 0}
<1>1. /\ UNCHANGED <<disk, clock>> /\ UNCHANGED <<entries, lastMod, mixed>> /\ UNCHANGED pass
      /\ poll.at = "walk" /\ poll.todo = {}
      /\ poll' = [poll EXCEPT !.at = "older", !.ts = Found, !.todo = files]
  BY DEF BeginRebuild, diskVars, cacheVars, Walked
<1>2. PICK p : p = [poll EXCEPT !.at = "older", !.ts = Found, !.todo = files]
  OBVIOUS
<1>3. poll \in PollType /\ clock \in Nat /\ \A i \in Ids : poll.found[i] <= clock
  BY DEF CacheInv, ScanInv, DiskInv
<1>4. Found \in Nat /\ files \in SUBSET Ids
  BY <1>3, FoundIsNat
<1>5. /\ p \in PollType /\ p.at = "older" /\ p.todo = files /\ p.old = poll.old
      /\ p.new = poll.new /\ p.found = poll.found /\ p.met = poll.met
  BY <1>2, <1>3, <1>4 DEF PollType
<1>6. \A i \in Ids : Empty[i] = NoEntry
  BY DEF Empty
<1>7. ~p.met => \A i \in Ids : /\ p.found[i] = disk[i] /\ (i \in p.todo => disk[i] # 0)
                               /\ i \in p.todo \/ Reflects(p.new, i)
  BY <1>1, <1>5, <1>6 DEF CacheInv, ScanInv, Reflects
<1>8. poll' = p /\ disk' = disk /\ clock' = clock
  BY <1>1, <1>2
<1>9. ScanInv'
  BY <1>3, <1>5, <1>7, <1>8 DEF CacheInv, ScanInv, Past, Building, Reflects, Matches
<1> QED BY <1>1, <1>9, PartsStay DEF CacheInv

LEMMA TakeOldKeeps ==
  ASSUME CacheInv, TakeOldEntries
  PROVE  CacheInv'
<1>1. /\ UNCHANGED <<disk, clock>> /\ UNCHANGED <<entries, lastMod, mixed>> /\ UNCHANGED pass
      /\ poll.at = "older"
      /\ poll' = [poll EXCEPT !.at = "rebuild", !.old = entries, !.met = @ \/ mixed]
  BY DEF TakeOldEntries, diskVars, cacheVars
<1>2. PICK p : p = [poll EXCEPT !.at = "rebuild", !.old = entries, !.met = @ \/ mixed]
  OBVIOUS
<1>3. poll \in PollType /\ entries \in Cache /\ mixed \in BOOLEAN
  BY DEF CacheInv, ScanInv, StoredInv
<1>4. /\ p \in PollType /\ p.at = "rebuild" /\ p.todo = poll.todo /\ p.old = entries
      /\ p.new = poll.new /\ p.found = poll.found /\ p.met = (poll.met \/ mixed)
  BY <1>2, <1>3 DEF PollType
<1>5. ~p.met => Fresh(entries)
  BY <1>4 DEF CacheInv, StoredInv
<1>6. ~p.met => \A i \in Ids : /\ p.found[i] = disk[i] /\ (i \in p.todo => disk[i] # 0)
                               /\ i \in p.todo \/ Reflects(p.new, i)
  BY <1>1, <1>4 DEF CacheInv, ScanInv, Building
<1>7. /\ \A i \in Ids : p.found[i] <= clock
      /\ Past(entries) /\ Past(poll.new)
  BY <1>4 DEF CacheInv, ScanInv, StoredInv
<1>8. poll' = p /\ disk' = disk /\ clock' = clock
  BY <1>1, <1>2
<1>9. ScanInv'
  BY <1>4, <1>5, <1>6, <1>7, <1>8 DEF ScanInv, Past, Building, Reflects, Matches, Fresh
<1> QED BY <1>1, <1>9, PartsStay DEF CacheInv

\* An entry that is not older than its file is kept: it is of that file, as what is built
\* upon is fresh.
LEMMA KeepEntryKeeps ==
  ASSUME CacheInv, NEW i \in Ids, KeepEntry(i)
  PROVE  CacheInv'
<1>1. /\ UNCHANGED <<disk, clock>> /\ UNCHANGED <<entries, lastMod, mixed>> /\ UNCHANGED pass
      /\ poll.at = "rebuild" /\ i \in poll.todo
      /\ poll.old[i] # NoEntry /\ poll.found[i] <= poll.old[i].stamp
      /\ poll' = [poll EXCEPT !.todo = @ \ {i}, !.new[i] = poll.old[i]]
  BY DEF KeepEntry, Unchanged, diskVars, cacheVars
<1>2. PICK p : p = [poll EXCEPT !.todo = @ \ {i}, !.new[i] = poll.old[i]]
  OBVIOUS
<1>3. poll \in PollType
  BY DEF CacheInv, ScanInv
<1>4. poll.old \in Cache /\ poll.new \in Cache
  BY <1>3 DEF PollType
<1>5. PICK new \in Cache : new = [poll.new EXCEPT ![i] = poll.old[i]]
  BY <1>4 DEF Cache
<1>6. /\ p \in PollType /\ p.at = "rebuild" /\ p.todo = poll.todo \ {i} /\ p.old = poll.old
      /\ p.new = new /\ p.found = poll.found /\ p.met = poll.met
  BY <1>1, <1>2, <1>3, <1>5 DEF PollType
<1>7. \A j \in Ids : new[j] = IF j = i THEN poll.old[i] ELSE poll.new[j]
  BY <1>4, <1>5 DEF Cache
<1>8. ~p.met => Fresh(poll.old) /\ Reflects(new, i)
  <2>1. ~p.met => Fresh(poll.old) /\ poll.found[i] = disk[i] /\ disk[i] # 0
    BY <1>1, <1>6 DEF CacheInv, ScanInv, Building
  <2>2. ~p.met => Matches(poll.old, i)
    BY <1>1, <2>1 DEF Fresh
  <2> QED BY <1>7, <2>1, <2>2 DEF Reflects, Matches
<1>9. ~p.met => \A j \in Ids : /\ p.found[j] = disk[j] /\ (j \in p.todo => disk[j] # 0)
                               /\ j \in p.todo \/ Reflects(new, j)
  <2>1. \A j \in Ids : j # i /\ Reflects(poll.new, j) => Reflects(new, j)
    BY <1>7 DEF Reflects, Matches
  <2> QED BY <1>1, <1>6, <1>8, <2>1 DEF CacheInv, ScanInv, Building
<1>10. /\ \A j \in Ids : p.found[j] <= clock
       /\ Past(poll.old) /\ Past(new)
  BY <1>6, <1>7 DEF CacheInv, ScanInv, Past
<1>11. poll' = p /\ disk' = disk /\ clock' = clock
  BY <1>1, <1>2
<1>12. ScanInv'
  BY <1>6, <1>8, <1>9, <1>10, <1>11 DEF ScanInv, Past, Building, Reflects, Matches, Fresh
<1> QED BY <1>1, <1>12, PartsStay DEF CacheInv

LEMMA ParseChangedKeeps ==
  ASSUME CacheInv, NEW i \in Ids, ParseChanged(i)
  PROVE  CacheInv'
<1>1. /\ UNCHANGED <<disk, clock>> /\ UNCHANGED <<entries, lastMod, mixed>> /\ UNCHANGED pass
      /\ poll.at = "rebuild" /\ i \in poll.todo
      /\ poll' = IF disk[i] = 0
                   THEN [poll EXCEPT !.todo = @ \ {i}]
                   ELSE [poll EXCEPT !.at = "stat", !.todo = @ \ {i}, !.id = i, !.ver = disk[i]]
  BY DEF ParseChanged, diskVars, cacheVars
<1>2. PICK p : p = IF disk[i] = 0
                     THEN [poll EXCEPT !.todo = @ \ {i}]
                     ELSE [poll EXCEPT !.at = "stat", !.todo = @ \ {i}, !.id = i, !.ver = disk[i]]
  OBVIOUS
<1>3. poll \in PollType /\ disk[i] \in Nat
  BY DEF CacheInv, ScanInv, DiskInv
<1>4. /\ p \in PollType /\ p.todo = poll.todo \ {i} /\ p.old = poll.old
      /\ p.new = poll.new /\ p.found = poll.found /\ p.met = poll.met
      /\ disk[i] = 0 => p.at = "rebuild"
      /\ disk[i] # 0 => p.at = "stat" /\ p.id = i /\ p.ver = disk[i]
  BY <1>1, <1>2, <1>3 DEF PollType
<1>5. ~p.met =>
        /\ disk[i] # 0 /\ Fresh(poll.old)
        /\ \A j \in Ids : /\ p.found[j] = disk[j] /\ (j \in p.todo => disk[j] # 0)
                          /\ j \in p.todo \/ j = i \/ Reflects(p.new, j)
  BY <1>1, <1>4 DEF CacheInv, ScanInv, Building
<1>6. /\ \A j \in Ids : p.found[j] <= clock
      /\ Past(poll.old) /\ Past(poll.new)
  BY <1>4 DEF CacheInv, ScanInv
<1>7. poll' = p /\ disk' = disk /\ clock' = clock
  BY <1>1, <1>2
<1>8. p.at \in {"rebuild", "stat"} /\ (p.at = "stat" => p.id = i /\ p.ver = disk[i] /\ p.ver # 0)
  BY <1>4
<1>9. ScanInv'
  BY <1>4, <1>5, <1>6, <1>7, <1>8 DEF ScanInv, Past, Building, Reflects, Matches, Fresh
<1> QED BY <1>1, <1>9, PartsStay DEF CacheInv

\* What is set in a cache for a file.
LEMMA SetInCache ==
  ASSUME NEW es \in Cache, NEW i \in Ids, NEW e \in Entries \cup {NoEntry},
         Past(es), e # NoEntry => e.stamp <= clock
  PROVE  /\ [es EXCEPT ![i] = e] \in Cache /\ Past([es EXCEPT ![i] = e])
         /\ \A j \in Ids : j # i /\ Reflects(es, j) => Reflects([es EXCEPT ![i] = e], j)
         /\ [es EXCEPT ![i] = e][i] = e
<1>1. PICK new : new = [es EXCEPT ![i] = e]
  OBVIOUS
<1>2. new \in Cache /\ \A j \in Ids : new[j] = IF j = i THEN e ELSE es[j]
  BY <1>1 DEF Cache
<1>3. Past(new) /\ (\A j \in Ids : j # i /\ Reflects(es, j) => Reflects(new, j)) /\ new[i] = e
  BY <1>2 DEF Past, Reflects, Matches
<1> QED BY <1>1, <1>2, <1>3

LEMMA StatParsedKeeps ==
  ASSUME CacheInv, StatParsed
  PROVE  CacheInv'
<1> DEFINE i == poll.id
           e == IF disk[i] = 0 THEN NoEntry ELSE Entry(poll.ver, disk[i], "file")
<1>1. /\ UNCHANGED <<disk, clock>> /\ UNCHANGED <<entries, lastMod, mixed>> /\ UNCHANGED pass
      /\ poll.at = "stat"
      /\ poll' = [poll EXCEPT !.at = "rebuild", !.id = NoEntry, !.ver = 0, !.new[i] = e]
  BY DEF StatParsed, diskVars, cacheVars
<1>2. PICK p : p = [poll EXCEPT !.at = "rebuild", !.id = NoEntry, !.ver = 0, !.new[i] = e]
  OBVIOUS
<1>3. poll \in PollType /\ i \in Ids /\ disk \in [Ids -> Nat] /\ clock \in Nat /\ disk[i] <= clock
  BY <1>1 DEF CacheInv, ScanInv, DiskInv
<1>4. poll.new \in Cache /\ poll.ver \in Nat /\ Past(poll.new)
  BY <1>3 DEF PollType, CacheInv, ScanInv
<1>5. /\ e \in Entries \cup {NoEntry} /\ (e # NoEntry => e.stamp <= clock)
      /\ disk[i] = 0 => e = NoEntry
      /\ disk[i] # 0 => e # NoEntry /\ e.ver = poll.ver /\ e.stamp = disk[i]
  BY <1>3, <1>4, NoEntryIsNone DEF Entry
<1> HIDE DEF e
<1>6. PICK new \in Cache : /\ new = [poll.new EXCEPT ![i] = e] /\ Past(new) /\ new[i] = e
                           /\ \A j \in Ids : j # i /\ Reflects(poll.new, j) => Reflects(new, j)
  <2>1. PICK n : n = [poll.new EXCEPT ![i] = e]
    OBVIOUS
  <2>2. n \in Cache /\ Past(n) /\ n[i] = e /\ \A j \in Ids : j # i /\ Reflects(poll.new, j) => Reflects(n, j)
    <3> HIDE DEF i
    <3> QED BY <1>3, <1>4, <1>5, <2>1, SetInCache
  <2> QED BY <2>1, <2>2
<1>7. /\ p \in PollType /\ p.at = "rebuild" /\ p.todo = poll.todo /\ p.old = poll.old
      /\ p.new = new /\ p.found = poll.found /\ p.met = poll.met
  BY <1>1, <1>2, <1>3, <1>6 DEF PollType
<1>8. ~p.met => Fresh(poll.old) /\ Reflects(new, i)
  BY <1>1, <1>5, <1>6, <1>7 DEF CacheInv, ScanInv, Reflects, Matches
<1>9. ~p.met => \A j \in Ids : /\ p.found[j] = disk[j] /\ (j \in p.todo => disk[j] # 0)
                               /\ j \in p.todo \/ Reflects(new, j)
  BY <1>1, <1>6, <1>7, <1>8 DEF CacheInv, ScanInv, Building
<1>10. /\ \A j \in Ids : p.found[j] <= clock
       /\ Past(poll.old) /\ Past(new)
  BY <1>6, <1>7 DEF CacheInv, ScanInv
<1>11. poll' = p /\ disk' = disk /\ clock' = clock
  BY <1>1, <1>2
<1>12. ScanInv'
  BY <1>7, <1>8, <1>9, <1>10, <1>11 DEF ScanInv, Past, Building, Reflects, Matches, Fresh
<1> QED BY <1>1, <1>12, PartsStay DEF CacheInv

LEMMA FinishRebuildKeeps ==
  ASSUME CacheInv, FinishRebuild
  PROVE  CacheInv'
<1>1. /\ UNCHANGED <<disk, clock>> /\ UNCHANGED pass /\ Observe(poll.ts)
      /\ poll.at = "rebuild" /\ poll.todo = {}
      /\ ReplaceEntries(poll.new) /\ mixed' = poll.met
  BY DEF FinishRebuild, diskVars
<1>2. /\ poll \in PollType /\ clock' \in Nat
  BY <1>1 DEF CacheInv, ScanInv, DiskInv
<1>3. poll.new \in Cache /\ poll.met \in BOOLEAN
  BY <1>2 DEF PollType
<1>4. ScanInv'
  BY <1>1, <1>2, Observed
<1>5. Past(poll.new) /\ (~poll.met => \A i \in Ids : Reflects(poll.new, i))
  BY <1>1 DEF CacheInv, ScanInv, Building
<1>6. ~poll.met => Fresh(poll.new)
  BY <1>5, ReflectsAll
<1>7. StoredInv'
  BY <1>1, <1>3, <1>5, <1>6, Stored
<1> QED BY <1>1, <1>4, <1>7, PartsStay DEF CacheInv

-----------------------------------------------------------------------------
(* The pass *)

\* A poller that waits has nothing to answer for.
LEMMA PollWaits ==
  ASSUME CacheInv, UNCHANGED <<disk, clock>>, NEW at \in {"idle", "pass"},
         poll' = [poll EXCEPT !.at = at]
  PROVE  ScanInv'
<1>1. PICK p : p = [poll EXCEPT !.at = at]
  OBVIOUS
<1>2. poll \in PollType
  BY DEF CacheInv, ScanInv
<1>3. p \in PollType /\ p.at = at /\ p.found = poll.found /\ p.old = poll.old /\ p.new = poll.new
  BY <1>1, <1>2 DEF PollType
<1>4. poll' = p /\ clock' = clock
  BY <1>1
<1> QED BY <1>3, <1>4 DEF CacheInv, ScanInv, Past, Building

LEMMA BeginPassKeeps ==
  ASSUME CacheInv, NEW polled \in BOOLEAN, BeginPass(polled)
  PROVE  CacheInv'
<1>1. /\ UNCHANGED <<disk, clock>> /\ UNCHANGED <<entries, lastMod, mixed>>
      /\ UNCHANGED poll \/ poll' = [poll EXCEPT !.at = "pass"]
      /\ pass' = [RestingPass EXCEPT !.at = "list", !.polled = polled]
  BY DEF BeginPass, diskVars, cacheVars
<1>2. PICK q : q = [RestingPass EXCEPT !.at = "list", !.polled = polled]
  OBVIOUS
<1>3. q \in LoadType /\ q.at = "list" /\ q.new = Empty /\ q.first = 0
  BY <1>2, RestingTypes DEF RestingPass, LoadType
<1>4. clock \in Nat /\ pass' = q /\ clock' = clock /\ \A i \in Ids : Empty[i] = NoEntry
  BY <1>1, <1>2 DEF CacheInv, DiskInv, Empty
<1>5. LoadingInv'
  BY <1>3, <1>4 DEF LoadingInv, Past
<1> QED BY <1>1, <1>5, PollWaits, PartsStay DEF CacheInv

LEMMA TakeListKeeps ==
  ASSUME CacheInv, UNCHANGED <<disk, clock>>, UNCHANGED <<entries, lastMod, mixed>>, TakeList
  PROVE  CacheInv'
<1>1. pass' = RestingPass /\ (UNCHANGED poll \/ poll' = [poll EXCEPT !.at = "idle"])
  BY DEF TakeList
<1>2. PICK q : q = RestingPass
  OBVIOUS
<1>3. q \in LoadType /\ q.at = "idle" /\ q.new = Empty /\ q.first = 0
  BY <1>2, RestingTypes DEF RestingPass
<1>4. clock' \in Nat /\ pass' = q /\ \A i \in Ids : Empty[i] = NoEntry
  BY <1>1, <1>2 DEF CacheInv, DiskInv, Empty, RestingPass
<1>5. LoadingInv'
  BY <1>3, <1>4 DEF LoadingInv, Past
<1> QED BY <1>1, <1>5, PollWaits, PartsStay DEF CacheInv

LEMMA BeginLoadKeeps ==
  ASSUME CacheInv, BeginLoad
  PROVE  CacheInv'
<1>1. /\ UNCHANGED <<disk, clock>> /\ UNCHANGED <<entries, lastMod, mixed>> /\ UNCHANGED poll
      /\ pass.at = "list"
      /\ pass' = [pass EXCEPT !.at = "load", !.todo = Present, !.met = FALSE]
  BY DEF BeginLoad, diskVars, cacheVars
<1>2. PICK q : q = [pass EXCEPT !.at = "load", !.todo = Present, !.met = FALSE]
  OBVIOUS
<1>3. pass \in LoadType /\ Present \in SUBSET Ids /\ pass.new = Empty
  BY <1>1 DEF CacheInv, LoadingInv, Present
<1>4. q \in LoadType /\ q.at = "load" /\ q.todo = Present /\ q.new = Empty /\ q.first = pass.first
  BY <1>2, <1>3 DEF LoadType
<1>5. /\ pass' = q /\ disk' = disk /\ clock' = clock /\ q.first <= clock
      /\ \A i \in Ids : Empty[i] = NoEntry
  BY <1>1, <1>2, <1>4 DEF CacheInv, LoadingInv, Empty
<1>6. \A i \in Ids : (i \in q.todo => disk[i] # 0) /\ (i \in q.todo \/ Reflects(Empty, i))
  BY <1>4, <1>5 DEF Present, Reflects
<1>7. LoadingInv'
  BY <1>4, <1>5, <1>6 DEF LoadingInv, Past, Reflects, Matches
<1> QED BY <1>1, <1>7, PartsStay DEF CacheInv

LEMMA ReadFirstKeeps ==
  ASSUME CacheInv, NEW i \in Ids, ReadFirst(i)
  PROVE  CacheInv'
<1>1. /\ UNCHANGED <<disk, clock>> /\ UNCHANGED <<entries, lastMod, mixed>> /\ UNCHANGED poll
      /\ pass.at = "load" /\ i \in pass.todo
      /\ pass' = IF disk[i] = 0
                   THEN [pass EXCEPT !.todo = @ \ {i}]
                   ELSE [pass EXCEPT !.at = "second", !.todo = @ \ {i}, !.id = i, !.first = disk[i]]
  BY DEF ReadFirst, diskVars, cacheVars
<1>2. PICK q : q = IF disk[i] = 0
                     THEN [pass EXCEPT !.todo = @ \ {i}]
                     ELSE [pass EXCEPT !.at = "second", !.todo = @ \ {i}, !.id = i, !.first = disk[i]]
  OBVIOUS
<1>3. pass \in LoadType /\ disk[i] \in Nat /\ disk[i] <= clock /\ pass.first <= clock
  BY DEF CacheInv, LoadingInv, DiskInv
<1>4. /\ q \in LoadType /\ q.todo = pass.todo \ {i} /\ q.new = pass.new /\ q.met = pass.met
      /\ disk[i] = 0 => q.at = "load" /\ q.first = pass.first
      /\ disk[i] # 0 => q.at = "second" /\ q.id = i /\ q.first = disk[i]
  BY <1>1, <1>2, <1>3 DEF LoadType
<1>5. ~q.met =>
        /\ disk[i] # 0
        /\ \A j \in Ids : /\ j \in q.todo => disk[j] # 0
                          /\ j \in q.todo \/ j = i \/ Reflects(q.new, j)
  BY <1>1, <1>4 DEF CacheInv, LoadingInv
<1>6. pass' = q /\ disk' = disk /\ clock' = clock /\ Past(q.new) /\ q.first <= clock
  BY <1>1, <1>2, <1>3, <1>4 DEF CacheInv, LoadingInv
<1>7. q.at \in {"load", "second"} /\ (q.at = "second" => q.id = i /\ q.first = disk[i] /\ q.first # 0)
  BY <1>4
<1>8. LoadingInv'
  BY <1>4, <1>5, <1>6, <1>7 DEF LoadingInv, Past, Reflects, Matches
<1> QED BY <1>1, <1>8, PartsStay DEF CacheInv

LEMMA ReadSecondKeeps ==
  ASSUME CacheInv, ReadSecond
  PROVE  CacheInv'
<1> DEFINE i == pass.id
           now == disk[i]
           e == IF kind = "emptied"
                  THEN Entry(pass.first, IF now = 0 THEN pass.first ELSE now, "file")
                  ELSE IF now = 0 THEN NoEntry
                       ELSE Entry(now, pass.first, IF named THEN "file" ELSE "session")
<1>1. /\ UNCHANGED <<disk, clock>> /\ UNCHANGED <<entries, lastMod, mixed>> /\ UNCHANGED poll
      /\ pass.at = "second"
      /\ pass' = [pass EXCEPT !.at = "load", !.id = NoEntry, !.first = 0, !.new[i] = e]
  BY DEF ReadSecond, diskVars, cacheVars
<1>2. PICK q : q = [pass EXCEPT !.at = "load", !.id = NoEntry, !.first = 0, !.new[i] = e]
  OBVIOUS
<1>3. /\ pass \in LoadType /\ i \in Ids /\ now \in Nat /\ now <= clock /\ clock \in Nat
      /\ pass.first <= clock
  BY <1>1 DEF CacheInv, LoadingInv, DiskInv
<1>4. pass.new \in Cache /\ pass.first \in Nat /\ Past(pass.new)
  BY <1>3 DEF LoadType, CacheInv, LoadingInv
<1>5. /\ e \in Entries \cup {NoEntry} /\ (e # NoEntry => e.stamp <= clock)
      /\ now # 0 /\ now = pass.first => e # NoEntry /\ e.ver = now /\ e.stamp = now
  <2> DEFINE key == IF named THEN "file" ELSE "session"
             stamp == IF now = 0 THEN pass.first ELSE now
  <2>1. key \in {"file", "session"} /\ "file" \in {"file", "session"}
    OBVIOUS
  <2>2. /\ stamp \in Nat /\ stamp <= clock
        /\ Entry(pass.first, stamp, "file").stamp = stamp /\ Entry(pass.first, stamp, "file").ver = pass.first
        /\ Entry(now, pass.first, key).stamp = pass.first /\ Entry(now, pass.first, key).ver = now
    BY <1>3, <1>4 DEF Entry
  <2>3. /\ Entry(pass.first, stamp, "file") \in Entries /\ Entry(pass.first, stamp, "file") # NoEntry
        /\ Entry(now, pass.first, key) \in Entries /\ Entry(now, pass.first, key) # NoEntry
    BY <1>3, <1>4, <2>1, <2>2, NoEntryIsNone
  <2>4. e = IF kind = "emptied" THEN Entry(pass.first, stamp, "file")
            ELSE IF now = 0 THEN NoEntry ELSE Entry(now, pass.first, key)
    OBVIOUS
  <2>5. now # 0 => stamp = now
    OBVIOUS
  <2> HIDE DEF e, stamp, key
  <2> QED BY <1>3, <2>2, <2>3, <2>4, <2>5
<1> HIDE DEF e
<1>6. PICK new \in Cache : /\ new = [pass.new EXCEPT ![i] = e] /\ Past(new) /\ new[i] = e
                           /\ \A j \in Ids : j # i /\ Reflects(pass.new, j) => Reflects(new, j)
  <2>1. PICK n : n = [pass.new EXCEPT ![i] = e]
    OBVIOUS
  <2>2. n \in Cache /\ Past(n) /\ n[i] = e /\ \A j \in Ids : j # i /\ Reflects(pass.new, j) => Reflects(n, j)
    <3> HIDE DEF i
    <3> QED BY <1>3, <1>4, <1>5, <2>1, SetInCache
  <2> QED BY <2>1, <2>2
<1>7. /\ q \in LoadType /\ q.at = "load" /\ q.todo = pass.todo /\ q.new = new /\ q.first = 0
      /\ q.met = pass.met
  BY <1>1, <1>2, <1>3, <1>6 DEF LoadType
<1>8. ~q.met => Reflects(new, i)
  BY <1>1, <1>5, <1>6, <1>7 DEF CacheInv, LoadingInv, Reflects, Matches
<1>9. ~q.met => \A j \in Ids : (j \in q.todo => disk[j] # 0) /\ (j \in q.todo \/ Reflects(new, j))
  BY <1>1, <1>6, <1>7, <1>8 DEF CacheInv, LoadingInv
<1>10. pass' = q /\ disk' = disk /\ clock' = clock /\ 0 <= clock
  BY <1>1, <1>2, <1>3
<1>11. LoadingInv'
  BY <1>6, <1>7, <1>9, <1>10 DEF LoadingInv, Past, Reflects, Matches
<1> QED BY <1>1, <1>11, PartsStay DEF CacheInv

LEMMA StoreLoadedKeeps ==
  ASSUME CacheInv, StoreLoaded
  PROVE  CacheInv'
<1>1. /\ UNCHANGED <<disk, clock>> /\ UNCHANGED poll
      /\ pass.at = "load" /\ pass.todo = {}
      /\ ReplaceEntries(pass.new) /\ mixed' = pass.met
      /\ pass' = [pass EXCEPT !.at = "relist"]
  BY DEF StoreLoaded, diskVars
<1>2. pass \in LoadType
  BY DEF CacheInv, LoadingInv
<1>3. pass.new \in Cache /\ pass.met \in BOOLEAN
  BY <1>2 DEF LoadType
<1>4. Past(pass.new) /\ (~pass.met => \A i \in Ids : Reflects(pass.new, i))
  BY <1>1 DEF CacheInv, LoadingInv
<1>5. ~pass.met => Fresh(pass.new)
  BY <1>4, ReflectsAll
<1>6. StoredInv'
  BY <1>1, <1>3, <1>4, <1>5, Stored
<1>7. PICK q : q = [pass EXCEPT !.at = "relist"]
  OBVIOUS
<1>8. q \in LoadType /\ q.at = "relist" /\ q.new = pass.new /\ q.first = pass.first
  BY <1>2, <1>7 DEF LoadType
<1>9. pass' = q /\ clock' = clock
  BY <1>1, <1>7
<1>10. LoadingInv'
  BY <1>8, <1>9 DEF CacheInv, LoadingInv, Past
<1> QED BY <1>1, <1>6, <1>10, PartsStay DEF CacheInv

-----------------------------------------------------------------------------

LEMMA CacheStarts == CacheInit => CacheInv
<1> SUFFICES ASSUME CacheInit PROVE CacheInv
  OBVIOUS
<1>1. DiskInv
  BY DEF CacheInit, DiskInv
<1>2. StoredInv
  BY EmptyIsFresh DEF CacheInit, StoredInv
<1>3. ScanInv
  BY RestingTypes, EmptyIsFresh DEF CacheInit, ScanInv, RestingPoll, Building
<1>4. LoadingInv
  BY RestingTypes, EmptyIsFresh DEF CacheInit, LoadingInv, RestingPass
<1> QED BY <1>1, <1>2, <1>3, <1>4 DEF CacheInv

LEMMA CacheKeeps == CacheInv /\ [CacheNext]_adapterVars => CacheInv'
<1> SUFFICES ASSUME CacheInv, [CacheNext]_adapterVars PROVE CacheInv'
  OBVIOUS
<1>1. ASSUME NEW i \in Ids, AgentWrites(i) \/ AgentDeletes(i) PROVE CacheInv'
  BY <1>1, ChangeKeeps DEF AgentWrites, AgentDeletes
<1>2. ASSUME NEW i \in Ids, WalkFile(i) \/ KeepEntry(i) \/ ParseChanged(i) PROVE CacheInv'
  BY <1>2, WalkFileKeeps, KeepEntryKeeps, ParseChangedKeeps
<1>3. CASE BeginPoll \/ EmptyIfOlder \/ ScanKeeps
  BY <1>3, BeginPollKeeps, EmptyIfOlderKeeps, ScanKeepsKeeps
<1>4. CASE BeginRebuild \/ TakeOldEntries \/ StatParsed \/ FinishRebuild
  BY <1>4, BeginRebuildKeeps, TakeOldKeeps, StatParsedKeeps, FinishRebuildKeeps
<1>5. CASE BeginPass(TRUE) \/ BeginPass(FALSE)
  BY <1>5, BeginPassKeeps
<1>6. CASE ListCached \/ ListLoaded
  BY <1>6, TakeListKeeps DEF ListCached, ListLoaded, diskVars, cacheVars
<1>7. CASE BeginLoad \/ ReadSecond \/ StoreLoaded
  BY <1>7, BeginLoadKeeps, ReadSecondKeeps, StoreLoadedKeeps
<1>8. ASSUME NEW i \in Ids, ReadFirst(i) PROVE CacheInv'
  BY <1>8, ReadFirstKeeps
<1>9. CASE UNCHANGED adapterVars
  BY <1>9, PartsStay DEF adapterVars, diskVars, cacheVars, CacheInv
<1> QED BY <1>1, <1>2, <1>3, <1>4, <1>5, <1>6, <1>7, <1>8, <1>9 DEF CacheNext, PollerStep, PassStep

\* When LastModified leaves the cache as it is, the cache has every file it saw as it
\* saw it, unless files changed while they were read for it (cache.go, ScanAndRebuild,
\* and the LastModified of claude-code and codex).
THEOREM KeptCacheIsCurrent == CacheSpec => []KeptIsCurrent
<1>1. CacheInv => KeptIsCurrent
  <2> SUFFICES ASSUME CacheInv, Walked, Found <= lastMod, ~mixed, NEW i \in Ids,
                      disk[i] = poll.found[i], disk[i] # 0
               PROVE  entries[i] # NoEntry /\ entries[i].ver = disk[i]
    BY DEF KeptIsCurrent
  <2>1. /\ clock \in Nat /\ poll \in PollType /\ (\A j \in Ids : poll.found[j] <= clock)
        /\ lastMod \in Nat /\ disk[i] \in Nat
    BY DEF CacheInv, DiskInv, StoredInv, ScanInv
  <2>2. Found \in Nat /\ disk[i] <= Found
    BY <2>1, FoundIsNat
  <2>3. disk[i] <= lastMod /\ lastMod # 0
    BY <2>1, <2>2
  <2>4. PICK j \in Ids : entries[j] # NoEntry /\ lastMod = entries[j].stamp
    BY <2>3 DEF CacheInv, StoredInv
  <2> QED BY <2>3, <2>4 DEF CacheInv, StoredInv, Fresh, Matches
<1> QED BY <1>1, CacheStarts, CacheKeeps, PTL DEF CacheSpec
=================================================================================
