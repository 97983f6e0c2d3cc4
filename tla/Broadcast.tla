------------------------------ MODULE Broadcast -----------------------------
(***************************************************************************)
(* What the event bus promises its clients, without channels, locks or     *)
(* walks: a lossy broadcast.  Each connection receives a subsequence of    *)
(* what each sender sent after the connection joined, in that sender's     *)
(* order, and nothing more once the connection has been cut off.           *)
(***************************************************************************)
EXTENDS Naturals, Sequences

CONSTANTS
  Conns,     \* connections
  Senders,   \* senders of events
  MaxSends   \* bound: MaxSends[s] events from sender s

VARIABLES
  open,      \* connections that may receive
  joined,    \* joined[c][s]: how many events s had sent when c joined
  stream,    \* stream[c]: the events given to c, in order
  sent       \* sent[s]: how many events s has sent

bvars == <<open, joined, stream, sent>>

BInit ==
  /\ open = {}
  /\ joined = [c \in Conns |-> [s \in Senders |-> 0]]
  /\ stream = [c \in Conns |-> <<>>]
  /\ sent = [s \in Senders |-> 0]

Join(c) ==
  /\ c \notin open
  /\ stream[c] = <<>>
  /\ open' = open \union {c}
  /\ joined' = [joined EXCEPT ![c] = sent]
  /\ UNCHANGED <<stream, sent>>

\* One connection goes, or all of them are cut off at once.
Leave(cs) ==
  /\ cs \subseteq open
  /\ open' = open \ cs
  /\ UNCHANGED <<joined, stream, sent>>

Publish(s) ==
  /\ sent[s] < MaxSends[s]
  /\ sent' = [sent EXCEPT ![s] = @ + 1]
  /\ UNCHANGED <<open, joined, stream>>

\* Event n of s, newer than anything c has of s, and sent after c joined.
Deliver(c, s, n) ==
  /\ c \in open
  /\ joined[c][s] < n
  /\ \A i \in 1 .. Len(stream[c]) : stream[c][i].from = s => stream[c][i].n < n
  /\ stream' = [stream EXCEPT ![c] = Append(@, [from |-> s, n |-> n])]
  /\ UNCHANGED <<open, joined, sent>>

BNext ==
  \/ \E c \in Conns : Join(c) \/ Leave({c})
  \/ Leave(open)
  \/ \E s \in Senders : Publish(s)
  \/ \E c \in Conns, s \in Senders : \E n \in 1 .. sent[s] : Deliver(c, s, n)

BSpec == BInit /\ [][BNext]_bvars
=============================================================================
