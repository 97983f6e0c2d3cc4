---------------------------- MODULE Events_proofs ---------------------------
(***************************************************************************)
(* Proofs about the two ends of an event stream.  The server's: the event  *)
(* bus, for any connections, senders, capacity and number of events: the   *)
(* inductive invariant BusInv, from it that no Send reaches a closed       *)
(* channel, and that the bus implements the lossy broadcast of module      *)
(* Broadcast.  The page's: the toaster shows no notification twice, for    *)
(* any set of notifications, any settings and any number of reloads,       *)
(* losses and acts.                                                        *)
(***************************************************************************)
EXTENDS EventBus, Feeds, SequenceTheorems, TLAPS

-----------------------------------------------------------------------------
(* Streams: what a flush and an append do to them *)

\* Moving the head of a buffer to the end of what is written leaves the two,
\* taken together, as they were.
LEMMA FlushKeepsStream ==
  ASSUME NEW S, NEW w \in Seq(S), NEW b \in Seq(S), b # <<>>
  PROVE  /\ Append(w, Head(b)) \in Seq(S)
         /\ Tail(b) \in Seq(S)
         /\ Len(Tail(b)) = Len(b) - 1
         /\ Append(w, Head(b)) \o Tail(b) = w \o b
<1>1. Len(b) \in Nat \ {0} /\ Head(b) \in S /\ Tail(b) \in Seq(S)
  BY EmptySeq, HeadTailProperties
<1>2. Append(w, Head(b)) \in Seq(S) /\ Len(Append(w, Head(b))) = Len(w) + 1
  BY <1>1, AppendProperties
<1>3. Len(Tail(b)) = Len(b) - 1 /\ \A k \in 1 .. Len(Tail(b)) : Tail(b)[k] = b[k + 1]
  BY <1>1, HeadTailProperties
<1>4. Append(w, Head(b)) \o Tail(b) = w \o b
  BY <1>1, <1>2, <1>3, ConcatProperties, LenProperties, SeqEqual
<1>. QED BY <1>1, <1>2, <1>3, <1>4

\* An event put in the buffer comes last in the stream.
LEMMA AppendExtendsStream ==
  \A w, b \in Seq(Event), e \in Event :
    /\ Append(b, e) \in Seq(Event)
    /\ Len(Append(b, e)) = Len(b) + 1
    /\ w \o Append(b, e) = Append(w \o b, e)
<1>. TAKE w, b \in Seq(Event), e \in Event
<1>1. Append(b, e) \in Seq(Event) /\ Len(Append(b, e)) = Len(b) + 1
  BY AppendProperties
<1>. QED BY <1>1, ConcatProperties, AppendProperties, LenProperties, SeqEqual

LEMMA StreamType ==
  ASSUME TypeOK, NEW c \in Conns
  PROVE  Stream(c) \in Seq(Event) /\ Len(Stream(c)) \in Nat
BY ConcatProperties, LenProperties DEF TypeOK, Stream

-----------------------------------------------------------------------------
(* The inductive invariant *)

LEMMA InitBusInv == Init => BusInv
<1>. SUFFICES ASSUME Init PROVE BusInv
  OBVIOUS
<1>. USE EventBusAssumption
<1>1. TypeOK
  BY EmptySeq DEF Init, TypeOK, HandlerState
<1>2. \A c \in Conns : Stream(c) = <<>>
  BY DEF Init, Stream
<1>3. StreamsAreSent
  BY <1>2 DEF Init, StreamsAreSent
<1>. QED
  BY <1>1, <1>2, <1>3
  DEF Init, BusInv, WalksAreRegistered, IdleIsFresh, WalksBringNews

\* A step that leaves every stream, walk, count and history alone can only
\* disturb what is said of the subscriber map and of the handlers.
LEMMA QuietSteps ==
  ASSUME BusInv, NEW c \in Conns,
         Subscribe(c) \/ Unsubscribe(c) \/ SeeClosed(c) \/ Disconnect(c)
  PROVE  BusInv'
<1>. USE DEF BusInv
<1>1. \A d \in Conns : Stream(d)' = Stream(d)
  BY DEF Subscribe, Unsubscribe, SeeClosed, Disconnect, Stream
<1>2. CASE Subscribe(c)
  <2>1. TypeOK'
    BY <1>2 DEF TypeOK, Subscribe, HandlerState
  <2>2. WalksAreRegistered' /\ (subscribers \intersect closed = {})'
    BY <1>2 DEF WalksAreRegistered, Subscribe, IdleIsFresh
  <2>3. IdleIsFresh'
    BY <1>1, <1>2 DEF TypeOK, IdleIsFresh, Subscribe
  <2>4. StreamsAreSent'
    <3>1. Stream(c) = <<>>
      BY <1>2 DEF Subscribe, IdleIsFresh
    <3>. QED BY <1>1, <1>2, <3>1, StreamType DEF StreamsAreSent, Subscribe, TypeOK
  <2>5. WalksBringNews'
    BY <1>2 DEF WalksBringNews, Subscribe, WriteLockFree, Sending
  <2>. QED BY <2>1, <2>2, <2>3, <2>4, <2>5
<1>3. CASE Unsubscribe(c)
  <2>1. TypeOK'
    BY <1>3 DEF TypeOK, Unsubscribe, HandlerState
  <2>2. WalksAreRegistered' /\ (subscribers \intersect closed = {})'
    BY <1>3 DEF WalksAreRegistered, Unsubscribe, WriteLockFree, Sending
  <2>3. IdleIsFresh'
    BY <1>1, <1>3 DEF TypeOK, IdleIsFresh, Unsubscribe
  <2>4. StreamsAreSent' /\ WalksBringNews'
    BY <1>1, <1>3 DEF StreamsAreSent, WalksBringNews, Unsubscribe, WriteLockFree, Sending
  <2>. QED BY <2>1, <2>2, <2>3, <2>4
<1>4. CASE SeeClosed(c) \/ Disconnect(c)
  <2>1. TypeOK'
    BY <1>4 DEF TypeOK, SeeClosed, Disconnect, HandlerState
  <2>2. WalksAreRegistered' /\ (subscribers \intersect closed = {})'
    BY <1>4 DEF WalksAreRegistered, SeeClosed, Disconnect
  <2>3. IdleIsFresh'
    BY <1>1, <1>4 DEF TypeOK, IdleIsFresh, SeeClosed, Disconnect
  <2>4. StreamsAreSent'
    BY <1>1, <1>4 DEF StreamsAreSent, SeeClosed, Disconnect
  <2>5. WalksBringNews'
    BY <1>1, <1>4 DEF WalksBringNews, WalksAreRegistered, TypeOK, SeeClosed, Disconnect
  <2>. QED BY <2>1, <2>2, <2>3, <2>4, <2>5
<1>. QED BY <1>2, <1>3, <1>4

LEMMA CloseAllStep ==
  ASSUME BusInv, CloseAll
  PROVE  BusInv'
<1>. USE DEF BusInv
<1>1. \A d \in Conns : Stream(d)' = Stream(d)
  BY DEF CloseAll, Stream
<1>2. TypeOK' /\ WalksAreRegistered' /\ (subscribers \intersect closed = {})'
  BY DEF TypeOK, CloseAll, WalksAreRegistered, WriteLockFree, Sending
<1>3. IdleIsFresh' /\ StreamsAreSent' /\ WalksBringNews'
  BY <1>1 DEF TypeOK, CloseAll, IdleIsFresh, StreamsAreSent, WalksBringNews, WriteLockFree, Sending
<1>. QED BY <1>2, <1>3

LEMMA BeginSendStep ==
  ASSUME BusInv, NEW s \in Senders, BeginSend(s)
  PROVE  BusInv'
<1>. USE DEF BusInv
<1>1. \A d \in Conns : Stream(d)' = Stream(d)
  BY DEF BeginSend, Stream
<1>2. TypeOK' /\ WalksAreRegistered' /\ (subscribers \intersect closed = {})'
  BY DEF TypeOK, BeginSend, WalksAreRegistered
<1>3. IdleIsFresh'
  BY <1>1 DEF BeginSend, IdleIsFresh
<1>4. StreamsAreSent' /\ WalksBringNews'
  <2>. SUFFICES ASSUME NEW c \in Conns, NEW t \in Senders
                PROVE  /\ joined'[c][t] <= sent'[t]
                       /\ c \in toVisit'[t] => joined'[c][t] < sent'[t]
                       /\ \A k \in 1 .. Len(Stream(c)) :
                            Stream(c)[k].from = t =>
                              /\ Stream(c)[k].n <= sent'[t]
                              /\ c \in toVisit'[t] => Stream(c)[k].n < sent'[t]
    BY <1>1, <1>2 DEF StreamsAreSent, WalksBringNews, TypeOK
  <2>1. joined' = joined /\ joined[c][t] \in Nat /\ sent[t] \in Nat
    BY DEF BeginSend, TypeOK
  <2>2. \A k \in 1 .. Len(Stream(c)) : Stream(c)[k].n \in Nat
    <3>1. Stream(c) \in Seq(Event)
      BY StreamType
    <3>2. \A k \in 1 .. Len(Stream(c)) : Stream(c)[k] \in Event
      BY <3>1, ElementOfSeq
    <3>. QED BY <3>2 DEF Event
  <2>3. CASE t = s
    <3>1. sent'[t] = sent[t] + 1
      BY <2>3 DEF BeginSend, TypeOK
    <3>. QED BY <2>1, <2>2, <3>1 DEF StreamsAreSent
  <2>4. CASE t # s
    <3>1. sent'[t] = sent[t] /\ toVisit'[t] = toVisit[t]
      BY <2>4 DEF BeginSend, TypeOK
    <3>. QED BY <2>1, <2>2, <3>1 DEF StreamsAreSent, WalksBringNews
  <2>. QED BY <2>3, <2>4
<1>. QED BY <1>2, <1>3, <1>4

LEMMA FlushStep ==
  ASSUME BusInv, NEW c \in Conns, Flush(c)
  PROVE  BusInv' /\ \A d \in Conns : Stream(d)' = Stream(d)
<1>. USE DEF BusInv
<1>0. chan[c] \in Seq(Event) /\ written[c] \in Seq(Event) /\ chan[c] # <<>>
  BY DEF TypeOK, Flush
<1>1. /\ chan'[c] = Tail(chan[c]) /\ written'[c] = Append(written[c], Head(chan[c]))
      /\ \A d \in Conns \ {c} : chan'[d] = chan[d] /\ written'[d] = written[d]
  BY DEF Flush, TypeOK
<1>2. \A d \in Conns : Stream(d)' = Stream(d)
  <2>1. written'[c] \o chan'[c] = written[c] \o chan[c]
    <3>1. Append(written[c], Head(chan[c])) \o Tail(chan[c]) = written[c] \o chan[c]
      BY <1>0, FlushKeepsStream, Zenon
    <3>. QED BY <1>1, <3>1, Zenon
  <2>2. \A d \in Conns \ {c} : Stream(d)' = Stream(d)
    BY <1>1 DEF Stream
  <2>. QED BY <2>1, <2>2 DEF Stream
<1>3. TypeOK'
  <2>1. /\ chan'[c] \in Seq(Event) /\ written'[c] \in Seq(Event)
        /\ Len(chan'[c]) <= Cap
    BY <1>0, <1>1, FlushKeepsStream, LenProperties, EventBusAssumption DEF TypeOK
  <2>2. chan' \in [Conns -> Seq(Event)] /\ written' \in [Conns -> Seq(Event)]
    BY <2>1 DEF Flush, TypeOK
  <2>. QED BY <1>1, <2>1, <2>2 DEF TypeOK, Flush
<1>4. WalksAreRegistered' /\ (subscribers \intersect closed = {})' /\ IdleIsFresh'
  BY <1>2 DEF WalksAreRegistered, IdleIsFresh, Flush
<1>5. StreamsAreSent'
  BY <1>2 DEF StreamsAreSent, Flush
<1>6. WalksBringNews'
  BY <1>2 DEF WalksBringNews, WalksAreRegistered, TypeOK, Flush
<1>. QED BY <1>2, <1>3, <1>4, <1>5, <1>6

\* A visit puts the sender's event, newer than all the sender's others, at the
\* end of the stream, or changes no stream.
LEMMA VisitStep ==
  ASSUME BusInv, NEW s \in Senders, NEW c \in Conns, Visit(s, c)
  PROVE  /\ BusInv'
         /\ \A d \in Conns \ {c} : Stream(d)' = Stream(d)
         /\ Stream(c)' = Stream(c) \/ Stream(c)' = Append(Stream(c), Current(s))
<1>. USE DEF BusInv
<1>0. /\ c \in toVisit[s] /\ c \in subscribers /\ Current(s) \in Event
      /\ chan[c] \in Seq(Event) /\ written[c] \in Seq(Event)
      /\ Len(chan[c]) \in Nat /\ Len(chan[c]) <= Cap
  BY LenProperties DEF TypeOK, Visit, WalksAreRegistered, Current, Event
<1>1. \/ chan' = chan
      \/ Len(chan[c]) < Cap /\ chan' = [chan EXCEPT ![c] = Append(@, Current(s))]
  BY DEF Visit
<1>2. \A d \in Conns \ {c} : Stream(d)' = Stream(d)
  BY <1>1 DEF Visit, TypeOK, Stream
<1>3. Stream(c)' = Stream(c) \/ Stream(c)' = Append(Stream(c), Current(s))
  <2>1. CASE chan' = chan
    BY <2>1 DEF Visit, Stream
  <2>2. CASE chan' = [chan EXCEPT ![c] = Append(@, Current(s))]
    <3>1. written'[c] = written[c] /\ chan'[c] = Append(chan[c], Current(s))
      BY <2>2 DEF Visit, TypeOK
    <3>2. written[c] \o Append(chan[c], Current(s)) = Append(written[c] \o chan[c], Current(s))
      <4>1. chan[c] \in Seq(Event) /\ written[c] \in Seq(Event) /\ Current(s) \in Event
        BY <1>0
      <4>. QED BY <4>1, AppendExtendsStream, Zenon
    <3>. QED BY <3>1, <3>2, Zenon DEF Stream
  <2>. QED BY <1>1, <2>1, <2>2
<1>4. TypeOK'
  <2>1. chan' \in [Conns -> Seq(Event)] /\ \A d \in Conns : Len(chan'[d]) <= Cap
    <3>1. CASE chan' = chan
      BY <3>1 DEF TypeOK
    <3>2. CASE Len(chan[c]) < Cap /\ chan' = [chan EXCEPT ![c] = Append(@, Current(s))]
      <4>1. Append(chan[c], Current(s)) \in Seq(Event)
            /\ Len(Append(chan[c], Current(s))) <= Cap
        BY <1>0, <3>2, AppendExtendsStream, EventBusAssumption
      <4>. QED BY <3>2, <4>1 DEF TypeOK
    <3>. QED BY <1>1, <3>1, <3>2
  <2>. QED BY <2>1 DEF TypeOK, Visit
<1>5. WalksAreRegistered' /\ (subscribers \intersect closed = {})'
  BY DEF WalksAreRegistered, Visit, TypeOK
<1>6. IdleIsFresh'
  BY <1>0, <1>2 DEF IdleIsFresh, Visit
<1>7. \A t \in Senders : \A k \in 1 .. Len(Stream(c)') :
        Stream(c)'[k].from = t =>
          \/ k \in 1 .. Len(Stream(c)) /\ Stream(c)'[k] = Stream(c)[k]
          \/ t = s /\ Stream(c)'[k].n = sent[s]
  <2>1. CASE Stream(c)' = Stream(c)
    BY <2>1
  <2>2. CASE Stream(c)' = Append(Stream(c), Current(s))
    <3>1. /\ Stream(c) \in Seq(Event) /\ Len(Stream(c)) \in Nat
          /\ Len(Append(Stream(c), Current(s))) = Len(Stream(c)) + 1
          /\ Append(Stream(c), Current(s))[Len(Stream(c)) + 1] = Current(s)
          /\ \A k \in 1 .. Len(Stream(c)) : Append(Stream(c), Current(s))[k] = Stream(c)[k]
      BY <1>0, StreamType, AppendProperties
    <3>. QED BY <2>2, <3>1 DEF Current
  <2>. QED BY <1>3, <2>1, <2>2
<1>8. StreamsAreSent'
  <2>. SUFFICES ASSUME NEW d \in Conns, NEW t \in Senders
                PROVE  /\ joined[d][t] <= sent[t]
                       /\ \A k \in 1 .. Len(Stream(d)') :
                            Stream(d)'[k].from = t => Stream(d)'[k].n <= sent[t]
    BY DEF StreamsAreSent, Visit
  <2>1. CASE d = c
    BY SMTT(30), <1>7, <2>1 DEF StreamsAreSent, TypeOK
  <2>2. CASE d # c
    BY <1>2, <2>2 DEF StreamsAreSent
  <2>. QED BY <2>1, <2>2
<1>9. WalksBringNews'
  <2>. SUFFICES ASSUME NEW t \in Senders, NEW d \in toVisit'[t]
                PROVE  /\ joined[d][t] < sent[t]
                       /\ \A k \in 1 .. Len(Stream(d)') :
                            Stream(d)'[k].from = t => Stream(d)'[k].n < sent[t]
    BY DEF WalksBringNews, Visit
  <2>1. d \in toVisit[t] /\ d \in Conns /\ ~ (t = s /\ d = c)
    BY DEF Visit, TypeOK
  <2>2. CASE d = c
    BY <1>7, <2>1, <2>2 DEF WalksBringNews
  <2>3. CASE d # c
    BY <1>2, <2>1, <2>3 DEF WalksBringNews
  <2>. QED BY <2>2, <2>3
<1>. QED BY <1>2, <1>3, <1>4, <1>5, <1>6, <1>8, <1>9

LEMMA NextBusInv == BusInv /\ [Next]_vars => BusInv'
<1>. SUFFICES ASSUME BusInv, [Next]_vars PROVE BusInv'
  OBVIOUS
<1>1. CASE CloseAll
  BY <1>1, CloseAllStep
<1>2. ASSUME NEW c \in Conns, Subscribe(c) \/ Unsubscribe(c) \/ SeeClosed(c) \/ Disconnect(c)
      PROVE  BusInv'
  BY <1>2, QuietSteps
<1>3. ASSUME NEW c \in Conns, Flush(c) PROVE BusInv'
  BY <1>3, FlushStep
<1>4. ASSUME NEW s \in Senders, BeginSend(s) PROVE BusInv'
  BY <1>4, BeginSendStep
<1>5. ASSUME NEW s \in Senders, NEW c \in Conns, Visit(s, c) PROVE BusInv'
  BY <1>5, VisitStep
<1>6. CASE UNCHANGED vars
  BY <1>6 DEF vars, BusInv, TypeOK, WalksAreRegistered, IdleIsFresh, StreamsAreSent,
              WalksBringNews, Stream
<1>. QED BY <1>1, <1>2, <1>3, <1>4, <1>5, <1>6 DEF Next

-----------------------------------------------------------------------------
(* The theorems *)

\* BusInv is an invariant of the bus, whatever the connections and senders do.
THEOREM BusInvariant == Spec => []BusInv
<1>. QED BY InitBusInv, NextBusInv, PTL DEF Spec

\* Every variable keeps its type, and no buffer exceeds its capacity.
THEOREM BusTypes == Spec => []TypeOK
<1>1. BusInv => TypeOK
  BY DEF BusInv
<1>. QED BY <1>1, BusInvariant, PTL

\* No Send ever reaches a channel that CloseAll has closed.
THEOREM SendsAreSafe == Spec => []NoSendOnClosed
<1>1. BusInv => NoSendOnClosed
  BY DEF BusInv, WalksAreRegistered, NoSendOnClosed
<1>. QED BY <1>1, BusInvariant, PTL

\* The bus, with its channels, its locks and its walks, implements the lossy
\* broadcast: a connection gets a subsequence of what each sender sent since it
\* joined, in the sender's order, without repetition.
THEOREM BusImplementsBroadcast == Spec => BroadcastSpec
<1>1. Init => Bcast!BInit
  BY DEF Init, Bcast!BInit, Stream
<1>2. BusInv /\ [Next]_vars => [Bcast!BNext]_(Bcast!bvars)
  <2>. SUFFICES ASSUME BusInv, [Next]_vars PROVE [Bcast!BNext]_(Bcast!bvars)
    OBVIOUS
  <2>. USE DEF BusInv, Bcast!bvars
  <2>1. CASE CloseAll
    <3>1. \A c \in Conns : Stream(c)' = Stream(c)
      BY <2>1 DEF CloseAll, Stream
    <3>2. Bcast!Leave(subscribers)
      BY <2>1, <3>1 DEF CloseAll, Bcast!Leave
    <3>. QED BY <3>2 DEF Bcast!BNext
  <2>2. ASSUME NEW c \in Conns, Subscribe(c) PROVE Bcast!BNext
    <3>1. \A d \in Conns : Stream(d)' = Stream(d)
      BY <2>2 DEF Subscribe, Stream
    <3>2. Bcast!Join(c)
      BY <2>2, <3>1 DEF Subscribe, IdleIsFresh, Bcast!Join
    <3>. QED BY <3>2 DEF Bcast!BNext
  <2>3. ASSUME NEW c \in Conns, Unsubscribe(c) PROVE [Bcast!BNext]_(Bcast!bvars)
    <3>1. \A d \in Conns : Stream(d)' = Stream(d)
      BY <2>3 DEF Unsubscribe, Stream
    <3>2. CASE c \in subscribers
      <4>1. Bcast!Leave({c})
        BY <2>3, <3>1, <3>2 DEF Unsubscribe, Bcast!Leave
      <4>. QED BY <4>1 DEF Bcast!BNext
    <3>3. CASE c \notin subscribers
      BY <2>3, <3>1, <3>3 DEF Unsubscribe
    <3>. QED BY <3>2, <3>3
  <2>4. ASSUME NEW c \in Conns, SeeClosed(c) \/ Disconnect(c) PROVE UNCHANGED Bcast!bvars
    <3>1. \A d \in Conns : Stream(d)' = Stream(d)
      BY <2>4 DEF SeeClosed, Disconnect, Stream
    <3>. QED BY <2>4, <3>1 DEF SeeClosed, Disconnect
  <2>5. ASSUME NEW c \in Conns, Flush(c) PROVE UNCHANGED Bcast!bvars
    BY <2>5, FlushStep DEF Flush
  <2>6. ASSUME NEW s \in Senders, BeginSend(s) PROVE Bcast!BNext
    <3>1. \A d \in Conns : Stream(d)' = Stream(d)
      BY <2>6 DEF BeginSend, Stream
    <3>2. Bcast!Publish(s)
      BY <2>6, <3>1 DEF BeginSend, Bcast!Publish
    <3>. QED BY <3>2 DEF Bcast!BNext
  <2>7. ASSUME NEW s \in Senders, NEW c \in Conns, Visit(s, c)
        PROVE  [Bcast!BNext]_(Bcast!bvars)
    <3>. DEFINE st == [d \in Conns |-> Stream(d)]
    <3>1. /\ \A d \in Conns \ {c} : Stream(d)' = Stream(d)
          /\ Stream(c)' = Stream(c) \/ Stream(c)' = Append(Stream(c), Current(s))
      BY <2>7, VisitStep
    <3>2. UNCHANGED <<subscribers, joined, sent>>
      BY <2>7 DEF Visit
    <3>3. CASE Stream(c)' = Stream(c)
      <4>1. \A d \in Conns : Stream(d)' = Stream(d)
        BY <3>1, <3>3
      <4>. QED BY <3>2, <4>1
    <3>4. CASE Stream(c)' = Append(Stream(c), Current(s))
      <4>1. c \in toVisit[s] /\ c \in subscribers /\ sent[s] \in Nat /\ sent[s] >= 1
        <5>1. c \in toVisit[s] /\ joined[c][s] \in Nat /\ joined[c][s] < sent[s]
          BY <2>7 DEF Visit, WalksBringNews, TypeOK
        <5>. QED BY <5>1 DEF WalksAreRegistered, TypeOK
      <4>2. st' = [st EXCEPT ![c] = Append(@, [from |-> s, n |-> sent[s]])]
        BY <3>1, <3>4 DEF Current
      <4>3. Bcast!Deliver(c, s, sent[s])
        BY <3>2, <4>1, <4>2 DEF WalksBringNews, Bcast!Deliver
      <4>. QED BY <4>1, <4>3 DEF Bcast!BNext
    <3>. QED BY <3>1, <3>3, <3>4
  <2>8. CASE UNCHANGED vars
    BY <2>8 DEF vars, Stream
  <2>. QED BY <2>1, <2>2, <2>3, <2>4, <2>5, <2>6, <2>7, <2>8 DEF Next
<1>. QED BY <1>1, <1>2, BusInvariant, PTL DEF Spec, BroadcastSpec, Bcast!BSpec

-----------------------------------------------------------------------------
(* The toaster of the page.                                                *)

\* What has been shown was seen, and what was seen is never fresh again: the ids are
\* remembered apart from the list, which a failed reload empties.
ToasterInv ==
  /\ shown \in [Notes -> Nat]
  /\ \A n \in Notes : shown[n] <= 1 /\ (shown[n] > 0 => n \in seenIds)

LEMMA ToasterStarts == PageInit => ToasterInv
  BY DEF PageInit, NoteInit, ToasterInv, Zero

\* The toaster's own step: what it shows was not seen before, and is seen after.
LEMMA ToasterStep ==
  ASSUME ToasterInv, Toaster
  PROVE  ToasterInv'
<1> DEFINE fresh == {n \in Notes : notifications[n] # "absent" /\ n \notin seenIds}
<1>1. seenIds' = seenIds \cup fresh
  BY DEF Toaster, seenAfter
<1>2. PICK granted \in BOOLEAN, hidden \in BOOLEAN :
        shown' = [n \in Notes |-> IF n \in fresh /\ IsShown(n)
                                     /\ resolveChannels(settings, granted, hidden) # {}
                                  THEN shown[n] + 1 ELSE shown[n]]
  BY DEF Toaster
<1>3. shown' \in [Notes -> Nat]
  BY <1>2 DEF ToasterInv
<1>4. ASSUME NEW n \in Notes
      PROVE  shown'[n] <= 1 /\ (shown'[n] > 0 => n \in seenIds')
  <2>1. CASE n \in fresh
    <3>1. shown[n] = 0
      BY <2>1 DEF ToasterInv
    <3>2. shown'[n] \in {0, 1}
      BY <1>2, <3>1
    <3> QED BY <1>1, <2>1, <3>2
  <2>2. CASE n \notin fresh
    <3>1. shown'[n] = shown[n]
      BY <1>2, <2>2
    <3> QED BY <1>1, <3>1 DEF ToasterInv
  <2> QED BY <2>1, <2>2
<1> QED BY <1>3, <1>4 DEF ToasterInv

LEMMA ToasterKept ==
  ASSUME ToasterInv, [PageNext]_allVars
  PROVE  ToasterInv'
<1>1. CASE UNCHANGED <<seenIds, shown>>
  BY <1>1 DEF ToasterInv
<1>2. CASE FreshNotes
  BY <1>2 DEF FreshNotes, ToasterInv, Zero
<1>3. CASE Toaster
  BY <1>3, ToasterStep
<1>4. CASE UNCHANGED allVars
  BY <1>1, <1>4 DEF allVars, noteVars
<1>5. CASE FeedNext /\ UNCHANGED <<hook, noteVars>>
  BY <1>1, <1>5 DEF noteVars
<1>6. CASE NoteNext
  <2>1. CASE Notify \/ OtherTab \/ UserWrites \/ ServeWrite
    BY <1>1, <2>1 DEF Notify, OtherTab, UserWrites, ServeWrite, pageVars
  <2>2. CASE ServeReload \/ ReloadAnswer \/ ScheduledReload \/ MinuteReload
    BY <1>1, <2>2 DEF ServeReload, ReloadAnswer, ScheduledReload, MinuteReload, pageVars
  <2>3. CASE HandleNotificationEvent
    BY <1>1, <1>2, <2>3 DEF HandleNotificationEvent, pageVars
  <2>4. CASE SettingsAnswer \/ SaveStep \/ \E c \in Offered : saveSettings(c)
    BY <1>1, <2>4 DEF SettingsAnswer, SaveStep, saveSettings
  <2>5. CASE SwitchView \/ NoteStream
    BY <1>1, <2>5 DEF SwitchView, NoteStream, noteVars
  <2> QED BY <1>3, <1>6, <2>1, <2>2, <2>3, <2>4, <2>5 DEF NoteNext
<1> QED BY <1>4, <1>5, <1>6 DEF PageNext

\* useNotificationToaster (seenIdsRef): a notification is shown at most once on a page,
\* whatever reloads fail, empty the list and bring it back.
THEOREM ShownOnce == PageSpec => []NeverShownTwice
<1>1. ToasterInv => NeverShownTwice
  BY DEF ToasterInv, NeverShownTwice
<1> QED BY <1>1, ToasterStarts, ToasterKept, PTL DEF PageSpec
=============================================================================
