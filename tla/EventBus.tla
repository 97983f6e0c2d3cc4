------------------------------ MODULE EventBus ------------------------------
(***************************************************************************)
(* The server-sent-event bus (internal/server/events.go) together with the *)
(* handler goroutine that drains one subscriber channel to one connection  *)
(* (handleSSE, internal/server/server.go).                                 *)
(*                                                                         *)
(* A connection is one run of handleSSE, and owns one channel.  A sender   *)
(* is a goroutine that calls Send: the refresh pipeline (under its own     *)
(* lock) and the HTTP handlers of prompts, notifications and reset.  Send  *)
(* walks the subscriber map under the read lock one channel at a time, so  *)
(* two Sends interleave; Subscribe, Unsubscribe and CloseAll need the      *)
(* write lock and are single steps.                                        *)
(*                                                                         *)
(* An event is the pair of its sender and the sender's own event number.   *)
(***************************************************************************)
EXTENDS Naturals, Sequences, FiniteSets, SequencesExt

CONSTANTS
  Conns,      \* connections, one handleSSE run each
  Senders,    \* goroutines that call Send
  Cap,        \* channel capacity (64 in the code)
  MaxSends    \* bound: MaxSends[s] events from sender s

ASSUME EventBusAssumption ==
  /\ Cap \in Nat \ {0}
  /\ MaxSends \in [Senders -> Nat]

VARIABLES
  subscribers,  \* b.subscribers: connections whose channel is registered
  chan,         \* chan[c]: the buffered events of c's channel
  closed,       \* channels that CloseAll has closed
  handler,      \* handler[c]: where c's handleSSE run is
  written,      \* written[c]: events flushed to the connection, in order
  sent,         \* sent[s]: number of Sends that s has begun
  joined,       \* history: joined[c][s] is sent[s] when c subscribed
  toVisit       \* toVisit[s]: channels the current Send of s has yet to try

vars == <<subscribers, chan, closed, handler, written, sent, joined, toVisit>>

-----------------------------------------------------------------------------
(* Types and helpers *)

Event == [from : Senders, n : Nat]

HandlerState == {"idle", "streaming", "leaving", "done"}

\* A Send holds the read lock while channels remain on its walk.
Sending(s) == toVisit[s] # {}
WriteLockFree == \A s \in Senders : ~Sending(s)

\* The event the current (or last) Send of s delivers.
Current(s) == [from |-> s, n |-> sent[s]]

\* Everything put in c's channel so far: flushed, or still buffered.
Stream(c) == written[c] \o chan[c]

TypeOK ==
  /\ subscribers \subseteq Conns
  /\ chan \in [Conns -> Seq(Event)] /\ \A c \in Conns : Len(chan[c]) <= Cap
  /\ closed \subseteq Conns
  /\ handler \in [Conns -> HandlerState]
  /\ written \in [Conns -> Seq(Event)]
  /\ sent \in [Senders -> Nat]
  /\ joined \in [Conns -> [Senders -> Nat]]
  /\ toVisit \in [Senders -> SUBSET Conns]

Init ==
  /\ subscribers = {}
  /\ chan = [c \in Conns |-> <<>>]
  /\ closed = {}
  /\ handler = [c \in Conns |-> "idle"]
  /\ written = [c \in Conns |-> <<>>]
  /\ sent = [s \in Senders |-> 0]
  /\ joined = [c \in Conns |-> [s \in Senders |-> 0]]
  /\ toVisit = [s \in Senders |-> {}]

-----------------------------------------------------------------------------
(* The bus *)

\* Subscribe, called when handleSSE starts; also writes the "started" event.
Subscribe(c) ==
  /\ handler[c] = "idle"
  /\ WriteLockFree
  /\ subscribers' = subscribers \union {c}
  /\ handler' = [handler EXCEPT ![c] = "streaming"]
  /\ joined' = [joined EXCEPT ![c] = sent]
  /\ UNCHANGED <<chan, closed, written, sent, toVisit>>

\* The deferred Unsubscribe.  It does not close the channel.
Unsubscribe(c) ==
  /\ handler[c] = "leaving"
  /\ WriteLockFree
  /\ subscribers' = subscribers \ {c}
  /\ handler' = [handler EXCEPT ![c] = "done"]
  /\ UNCHANGED <<chan, closed, written, sent, joined, toVisit>>

\* Send takes the read lock and starts to range over the subscriber map.
BeginSend(s) ==
  /\ ~Sending(s)
  /\ sent[s] < MaxSends[s]
  /\ sent' = [sent EXCEPT ![s] = @ + 1]
  /\ toVisit' = [toVisit EXCEPT ![s] = subscribers]
  /\ UNCHANGED <<subscribers, chan, closed, handler, written, joined>>

\* Mutants of Visit: one place too many in the channel, one too few, the oldest
\* event dropped instead of the newest, a send that blocks.
Put(s, c, ok, buffer) ==
  /\ c \in toVisit[s]
  /\ ok
  /\ toVisit' = [toVisit EXCEPT ![s] = @ \ {c}]
  /\ chan' = [chan EXCEPT ![c] = buffer]
  /\ UNCHANGED <<subscribers, closed, handler, written, sent, joined>>
Full(c) == Len(chan[c]) = Cap

Visit_DropsOldest(s, c) ==
  Put(s, c, TRUE, Append(IF Full(c) THEN Tail(chan[c]) ELSE chan[c], Current(s)))

\* One iteration of the range: a non-blocking send that drops when full.
\* The map order is unspecified, so any remaining channel may be next.
Visit(s, c) ==
  /\ c \in toVisit[s]
  /\ toVisit' = [toVisit EXCEPT ![s] = @ \ {c}]
  /\ chan' = IF Len(chan[c]) < Cap
               THEN [chan EXCEPT ![c] = Append(@, Current(s))]
               ELSE chan
  /\ UNCHANGED <<subscribers, closed, handler, written, sent, joined>>

\* Mutant of CloseAll: the closed channels stay in the map.
CloseAll_KeepsMap ==
  /\ WriteLockFree
  /\ subscribers # {}
  /\ closed' = closed \union subscribers
  /\ UNCHANGED <<subscribers, chan, handler, written, sent, joined, toVisit>>

\* CloseAll closes and forgets every registered channel.
CloseAll ==
  /\ WriteLockFree
  /\ subscribers # {}
  /\ closed' = closed \union subscribers
  /\ subscribers' = {}
  /\ UNCHANGED <<chan, handler, written, sent, joined, toVisit>>

-----------------------------------------------------------------------------
(* The loop of handleSSE *)

\* case event, ok := <-ch with ok: a closed channel still yields its buffer.
Flush(c) ==
  /\ handler[c] = "streaming"
  /\ chan[c] # <<>>
  /\ chan' = [chan EXCEPT ![c] = Tail(@)]
  /\ written' = [written EXCEPT ![c] = Append(@, Head(chan[c]))]
  /\ UNCHANGED <<subscribers, closed, handler, sent, joined, toVisit>>

\* Mutant of SeeClosed: `continue` where the code returns.
SeeClosed_Continues(c) ==
  /\ handler[c] = "streaming"
  /\ c \in closed
  /\ chan[c] = <<>>
  /\ UNCHANGED vars

\* case event, ok := <-ch with !ok: closed and drained.
SeeClosed(c) ==
  /\ handler[c] = "streaming"
  /\ c \in closed
  /\ chan[c] = <<>>
  /\ handler' = [handler EXCEPT ![c] = "leaving"]
  /\ UNCHANGED <<subscribers, chan, closed, written, sent, joined, toVisit>>

\* case <-r.Context().Done(): the client went away, whatever is buffered.
Disconnect(c) ==
  /\ handler[c] = "streaming"
  /\ handler' = [handler EXCEPT ![c] = "leaving"]
  /\ UNCHANGED <<subscribers, chan, closed, written, sent, joined, toVisit>>

Next ==
  \/ CloseAll
  \/ \E c \in Conns : Subscribe(c) \/ Unsubscribe(c)
  \/ \E c \in Conns : Flush(c) \/ SeeClosed(c) \/ Disconnect(c)
  \/ \E s \in Senders : BeginSend(s)
  \/ \E s \in Senders, c \in Conns : Visit(s, c)

\* The Go scheduler runs every runnable goroutine; writers of an RWMutex are
\* not starved by readers.  Clients, and calls of Send and CloseAll, owe us
\* nothing.
Fairness ==
  /\ \A c \in Conns : WF_vars(Flush(c)) /\ WF_vars(SeeClosed(c))
  /\ \A c \in Conns : SF_vars(Unsubscribe(c))
  /\ \A s \in Senders, c \in Conns : WF_vars(Visit(s, c))

Spec == Init /\ [][Next]_vars /\ Fairness

-----------------------------------------------------------------------------
(* Properties *)

\* No Send ever reaches a closed channel (which would panic the sender): the
\* write lock keeps CloseAll out of a walk, and CloseAll forgets what it
\* closes.  events.go Send / CloseAll.
NoSendOnClosed ==
  /\ \A s \in Senders : toVisit[s] \intersect closed = {}
  /\ subscribers \intersect closed = {}

\* The bus implements the lossy broadcast: per-sender order, no duplicate, no
\* event from before the subscription, nothing after the channel is closed.
Bcast == INSTANCE Broadcast WITH
  open <- subscribers,
  stream <- [c \in Conns |-> Stream(c)]
BroadcastSpec == Bcast!BSpec

\* Why it does, and why NoSendOnClosed holds: a walk only has registered channels
\* left, has given them nothing as new as its event, and no event is newer than
\* its sender's count.
WalksAreRegistered == \A s \in Senders : toVisit[s] \subseteq subscribers
IdleIsFresh ==
  \A c \in Conns :
    handler[c] = "idle" => c \notin subscribers \union closed /\ Stream(c) = <<>>
StreamsAreSent ==
  \A c \in Conns, s \in Senders :
    /\ joined[c][s] <= sent[s]
    /\ \A k \in 1 .. Len(Stream(c)) : Stream(c)[k].from = s => Stream(c)[k].n <= sent[s]
WalksBringNews ==
  \A s \in Senders : \A c \in toVisit[s] :
    /\ joined[c][s] < sent[s]
    /\ \A k \in 1 .. Len(Stream(c)) : Stream(c)[k].from = s => Stream(c)[k].n < sent[s]
BusInv ==
  /\ TypeOK
  /\ WalksAreRegistered
  /\ subscribers \intersect closed = {}
  /\ IdleIsFresh
  /\ StreamsAreSent
  /\ WalksBringNews

\* Closing the bus ends every stream that was open at the time.
CloseEndsStreams ==
  \A c \in Conns : (c \in closed) ~> (handler[c] = "done")

\* Every handler that leaves, however it leaves, gets off the subscriber map
\* (an entry left behind would be tried by every later Send).
LeaversAreForgotten ==
  \A c \in Conns : (handler[c] = "leaving") ~> [](c \notin subscribers)

\* Streams end with the bus, and connections with their streams.
StreamsEnd == CloseEndsStreams /\ LeaversAreForgotten
=============================================================================
